------------------------------ MODULE AiRuntime ------------------------------
(* The exclusive (VRAM) tier of src/backend/ai_runtime_guard.py: a lease is   *)
(* the in-process gate _VramGate, a priority queue of waiters on one           *)
(* condition variable, and inside it the lock file that other processes (the   *)
(* gallery tagging worker) take too.  Each section under the gate's condition  *)
(* is one action.  The threads are those of the server; the code they run      *)
(* under the lease is another module's.                                        *)
EXTENDS Naturals

CONSTANTS Threads,    \* threads of the server process
          Timed,      \* those that ask for a lease with a timeout
          Child,      \* another process that takes the lock file
          NoThread

ASSUME TimedAssumption == Timed \subseteq Threads
ASSUME NamesAssumption == NoThread \notin Threads /\ Child \notin Threads /\ NoThread # Child

VARIABLES owner,     \* _owner: the thread that has the gate, or NoThread
          depth,     \* _depth
          stage,     \* where each thread is in acquire / release of its outer lease
          rank,      \* the priority each thread asked with (0 outside); the lower goes first
          ahead,     \* the waiters whose tickets are smaller than each waiter's
          asleep,    \* the waiters inside wait() that nobody has notified
          lockFile   \* who holds ai-runtime.lock, or NoThread

lease == <<owner, depth, stage, rank, ahead, asleep, lockFile>>

Stages == {"out", "waiting", "locking", "in", "closing"}
Ranks == {0, 50, 100}   \* PRIORITY_INTERACTIVE, PRIORITY_NORMAL, PRIORITY_BATCH

Waiting(t) == stage[t] = "waiting"

\* `t` may pass the while loop of acquire: nobody has the gate and its ticket
\* is _heap[0].  (Fault: only the line is looked at.)
MutAdmitted(t) == ahead[t] = {}

Admitted(t) == owner = NoThread /\ ahead[t] = {}

LeaseInit ==
    /\ owner = NoThread /\ depth = 0 /\ lockFile = NoThread
    /\ stage = [t \in Threads |-> "out"]
    /\ rank = [t \in Threads |-> 0]
    /\ ahead = [t \in Threads |-> {}]
    /\ asleep = {}

------------------------------------------------------------------------------
(* The gate                                                                   *)

TakeGate(t) ==
    /\ owner' = t /\ depth' = 1
    /\ stage' = [stage EXCEPT ![t] = "locking"]

\* The ticket of `t` leaves the heap.
DropTicket(t) == ahead' = [u \in Threads |-> IF u = t THEN {} ELSE ahead[u] \ {t}]

\* acquire pushes a ticket (priority, arrival) and tests the loop condition in
\* the same section.  A more urgent thread passes those that were notified but
\* have not run yet.
Enter(t, p) ==
    /\ stage[t] = "out"
    /\ rank' = [rank EXCEPT ![t] = p]
    /\ LET before == {u \in Threads : Waiting(u) /\ rank[u] <= p}
       IN  IF owner = NoThread /\ before = {}
           THEN TakeGate(t) /\ UNCHANGED <<ahead, asleep>>
           ELSE /\ stage' = [stage EXCEPT ![t] = "waiting"]
                /\ ahead' = [u \in Threads |->
                               IF u = t THEN before
                               ELSE IF Waiting(u) /\ rank[u] > p THEN ahead[u] \cup {t}
                               ELSE ahead[u]]
                /\ asleep' = asleep \cup {t}
                /\ UNCHANGED <<owner, depth>>
    /\ UNCHANGED lockFile

\* A notified waiter has the condition's lock again and tests the loop condition.
Wake(t) ==
    /\ Waiting(t) /\ t \notin asleep
    /\ IF Admitted(t)
       THEN TakeGate(t) /\ DropTicket(t) /\ UNCHANGED asleep
       ELSE asleep' = asleep \cup {t} /\ UNCHANGED <<owner, depth, stage, ahead>>
    /\ UNCHANGED <<rank, lockFile>>

\* The time is over and the thread is not admitted: it takes its ticket out
\* and notifies the others.
GiveUp(t) ==
    /\ Waiting(t) /\ t \in Timed /\ ~Admitted(t)
    /\ stage' = [stage EXCEPT ![t] = "out"]
    /\ rank' = [rank EXCEPT ![t] = 0]
    /\ DropTicket(t)
    /\ asleep' = {}
    /\ UNCHANGED <<owner, depth, lockFile>>

\* The outermost release of the gate wakes every waiter.
FreeGate(t) ==
    /\ owner' = NoThread /\ depth' = 0 /\ asleep' = {}
    /\ stage' = [stage EXCEPT ![t] = "out"]
    /\ rank' = [rank EXCEPT ![t] = 0]
    /\ UNCHANGED ahead

\* A lease inside a lease only counts.
Nest(t) ==
    /\ owner = t /\ stage[t] = "in"
    /\ depth' = depth + 1
    /\ UNCHANGED <<owner, stage, rank, ahead, asleep, lockFile>>

Unnest(t) ==
    /\ owner = t /\ stage[t] = "in" /\ depth > 1
    /\ depth' = depth - 1
    /\ UNCHANGED <<owner, stage, rank, ahead, asleep, lockFile>>

------------------------------------------------------------------------------
(* The lock file                                                              *)

\* The gate's owner polls the lock file.
LockFile(t) ==
    /\ stage[t] = "locking" /\ lockFile = NoThread
    /\ lockFile' = t
    /\ stage' = [stage EXCEPT ![t] = "in"]
    /\ UNCHANGED <<owner, depth, rank, ahead, asleep>>

\* The lock file stayed taken to the deadline, or could not be opened or
\* written: the gate is given back.
FileBusy(t) ==
    /\ stage[t] = "locking"
    /\ FreeGate(t)
    /\ UNCHANGED lockFile

\* The outermost release lets go of the file, then of the gate.
UnlockFile(t) ==
    /\ stage[t] = "in" /\ depth = 1
    /\ lockFile' = NoThread
    /\ stage' = [stage EXCEPT ![t] = "closing"]
    /\ UNCHANGED <<owner, depth, rank, ahead, asleep>>

Leave(t) ==
    /\ stage[t] = "closing"
    /\ FreeGate(t)
    /\ UNCHANGED lockFile

\* The other process: it takes the file when it is free and lets go of it, or
\* dies and the system lets go of it.
ChildTakes ==
    /\ lockFile = NoThread /\ lockFile' = Child
    /\ UNCHANGED <<owner, depth, stage, rank, ahead, asleep>>
ChildLeaves ==
    /\ lockFile = Child /\ lockFile' = NoThread
    /\ UNCHANGED <<owner, depth, stage, rank, ahead, asleep>>

LeaseStep(t) ==
    \/ \E p \in Ranks : Enter(t, p)
    \/ Wake(t) \/ GiveUp(t) \/ Nest(t) \/ Unnest(t)
    \/ LockFile(t) \/ FileBusy(t) \/ UnlockFile(t) \/ Leave(t)

LeaseNext == ChildTakes \/ ChildLeaves \/ \E t \in Threads : LeaseStep(t)

LeaseSpec == LeaseInit /\ [][LeaseNext]_lease

------------------------------------------------------------------------------
(* Properties                                                                 *)

LeaseTypeOK ==
    /\ owner \in Threads \cup {NoThread}
    /\ depth \in Nat
    /\ stage \in [Threads -> Stages]
    /\ rank \in [Threads -> Ranks]
    /\ ahead \in [Threads -> SUBSET Threads]
    /\ asleep \subseteq Threads
    /\ lockFile \in Threads \cup {Child, NoThread}

\* Model work under a lease excludes all other model work, of this process and
\* of others (ai_runtime_guard.py:32-38): only the owner of the gate is past it,
\* and while it is inside, the lock file is its own.
LeaseIsExclusive ==
    \A t \in Threads :
        /\ stage[t] \in {"locking", "in", "closing"} <=> owner = t
        /\ stage[t] = "in" <=> lockFile = t

\* No wake-up is lost (_VramGate.acquire / release, 202-254): when nobody has
\* the gate, the waiter whose turn it is has been notified, whoever timed out,
\* overtook it or gave the gate back after the lock file stayed busy.
HeadIsAwake ==
    \A t \in Threads : Waiting(t) /\ Admitted(t) => t \notin asleep

\* The tickets form one line: of two waiters one is ahead of the other, the
\* more urgent one first (_heap), and only waiters are in it.
TicketsFormALine ==
    /\ \A t, u \in Threads : u \in ahead[t] => Waiting(t) /\ Waiting(u) /\ rank[u] <= rank[t]
    /\ \A t, u \in Threads : Waiting(t) /\ Waiting(u) /\ t # u =>
           (u \in ahead[t] <=> t \notin ahead[u])
==============================================================================
