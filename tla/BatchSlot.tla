------------------------------ MODULE BatchSlot ------------------------------
(* The one slot batch moves and their undos run in: _batch_move_progress,     *)
(* _batch_move_run_id and _batch_move_cancel_event, all under                 *)
(* _batch_move_lock (services/sorting/state.py, batch_move.py,                *)
(* batch_move_undo.py). A run is a request and the background worker it       *)
(* starts. A start checks that the slot is free, lets go of the lock to count *)
(* pictures and then claims the slot without checking again; an undo checks   *)
(* and claims in one step. Workers learn of a cancel at their next file.      *)
EXTENDS Naturals, FiniteSets

CONSTANTS Sorts,    \* move and copy runs
          Undos,    \* undo runs
          MaxFiles, \* bound: files of one run
          Resets,   \* whether the user resets the slot
          None

ASSUME RunsAssumption == Sorts \cap Undos = {} /\ None \notin Sorts \cup Undos
ASSUME FilesAssumption == MaxFiles \in Nat
ASSUME ResetsAssumption == Resets \in BOOLEAN

Runs == Sorts \cup Undos

VARIABLES
    status,    \* what the slot shows
    epoch,     \* _batch_move_run_id
    event,     \* the run whose cancel event is published, or None
    stopped,   \* runs whose cancel event is set
    pc,        \* each run: "new", "checked", "queued", "working", "file", "closing", "ended"
    mine,      \* each run's id, given by its claim
    left,      \* files each run has still to take up
    late,      \* runs that took up a file when they no longer held the slot
    tooLate    \* runs that did so twice

slot == <<status, epoch, event, stopped>>
ghosts == <<late, tooLate>>
vars == <<slot, pc, mine, left, ghosts>>

Busy == {"running", "cancelling"}
Settled == {"done", "cancelled", "error"}
Statuses == {"idle"} \cup Busy \cup Settled
Pcs == {"new", "checked", "queued", "working", "file", "closing", "ended"}

Init ==
    /\ status = "idle" /\ epoch = 0 /\ event = None /\ stopped = {}
    /\ pc = [r \in Runs |-> "new"]
    /\ mine = [r \in Runs |-> 0]
    /\ left \in {l \in [Runs -> 0..MaxFiles] : \A r \in Undos : l[r] = 0}
    /\ late = {} /\ tooLate = {}

Current(r) == mine[r] = epoch
Goes(r, from, to) == pc[r] = from /\ pc' = [pc EXCEPT ![r] = to]

------------------------------------------------------------------------------
(* Requests                                                                   *)

\* A start finds the slot free; it counts pictures before it claims.
Check(r) ==
    /\ r \in Sorts /\ status \notin Busy
    /\ Goes(r, "new", "checked")
    /\ UNCHANGED <<slot, mine, left, ghosts>>

\* (Fault: the event of the run before stays published.)
MutTake(r) ==
    /\ epoch' = epoch + 1
    /\ mine' = [mine EXCEPT ![r] = epoch + 1]
    /\ event' = IF event = None THEN r ELSE event
    /\ status' = "running"
    /\ UNCHANGED <<stopped, left, ghosts>>

\* The slot is given to the run, whoever holds it.
Take(r) ==
    /\ epoch' = epoch + 1
    /\ mine' = [mine EXCEPT ![r] = epoch + 1]
    /\ event' = r
    /\ status' = "running"
    /\ UNCHANGED <<stopped, left, ghosts>>

ClaimSort(r) == r \in Sorts /\ Goes(r, "checked", "queued") /\ Take(r)

\* Nothing matches: the start answers without a run.
NothingToMove(r) ==
    /\ r \in Sorts /\ left[r] = 0
    /\ Goes(r, "checked", "ended")
    /\ UNCHANGED <<slot, mine, left, ghosts>>

\* The journal is read before the slot is claimed.
ReadJournal(r) ==
    /\ r \in Undos
    /\ Goes(r, "new", "checked")
    /\ \E n \in 0..MaxFiles : left' = [left EXCEPT ![r] = n]
    /\ UNCHANGED <<slot, mine, ghosts>>

ClaimUndo(r) ==
    /\ r \in Undos /\ status \notin Busy
    /\ Goes(r, "checked", "queued")
    /\ Take(r)

RefuseUndo(r) ==
    /\ r \in Undos /\ status \in Busy
    /\ Goes(r, "checked", "ended")
    /\ UNCHANGED <<slot, mine, left, ghosts>>

Cancel ==
    /\ status \in Busy
    /\ stopped' = IF event = None THEN stopped ELSE stopped \cup {event}
    /\ status' = "cancelling"
    /\ UNCHANGED <<epoch, event, pc, mine, left, ghosts>>

\* Refused only while "running": a worker may still be draining.
Reset ==
    /\ Resets /\ status \notin {"running", "idle"}
    /\ epoch' = epoch + 1
    /\ stopped' = IF event = None THEN stopped ELSE stopped \cup {event}
    /\ event' = None
    /\ status' = "idle"
    /\ UNCHANGED <<pc, mine, left, ghosts>>

------------------------------------------------------------------------------
(* Workers                                                                    *)

Report(r, s) == status' = IF Current(r) THEN s ELSE status

StartWork(r) ==
    /\ Goes(r, "queued", "working")
    /\ UNCHANGED <<slot, mine, left, ghosts>>

BeginFile(r) ==
    /\ r \notin stopped /\ left[r] > 0
    /\ Goes(r, "working", "file")
    /\ left' = [left EXCEPT ![r] = left[r] - 1]
    /\ late' = IF Current(r) THEN late ELSE late \cup {r}
    /\ tooLate' = IF r \in late /\ ~Current(r) THEN tooLate \cup {r} ELSE tooLate
    /\ UNCHANGED <<slot, mine>>

\* A sort worker passes over a picture whose row is gone, without a look at
\* whether it still holds the slot.
PassOver(r) ==
    /\ r \in Sorts /\ r \notin stopped /\ left[r] > 0
    /\ Goes(r, "working", "working")
    /\ left' = [left EXCEPT ![r] = left[r] - 1]
    /\ UNCHANGED <<slot, mine, ghosts>>

\* (Fault: a sort worker goes on when its progress is not taken.)
MutEndFile(r) ==
    /\ Goes(r, "file", "working")
    /\ UNCHANGED <<slot, mine, left, ghosts>>

\* Progress is written only by the current run; a sort worker that finds it is
\* not current stops, an undo worker goes on.
EndFile(r) ==
    /\ Goes(r, "file", IF r \in Sorts /\ ~Current(r) THEN "closing" ELSE "working")
    /\ UNCHANGED <<slot, mine, left, ghosts>>

\* The cancel event is looked at before each file, not after the last.
SeeCancel(r) ==
    /\ r \in stopped /\ left[r] > 0
    /\ Goes(r, "working", "closing")
    /\ Report(r, "cancelled")
    /\ UNCHANGED <<epoch, event, stopped, mine, left, ghosts>>

\* (Fault: the report of a run that is no longer current is shown.)
MutComplete(r) ==
    /\ left[r] = 0
    /\ Goes(r, "working", "closing")
    /\ status' = "done"
    /\ UNCHANGED <<epoch, event, stopped, mine, left, ghosts>>

Complete(r) ==
    /\ left[r] = 0
    /\ Goes(r, "working", "closing")
    /\ Report(r, "done")
    /\ UNCHANGED <<epoch, event, stopped, mine, left, ghosts>>

\* (Fault: an error is logged and not reported.)
MutFail(r) ==
    /\ Goes(r, "working", "closing")
    /\ UNCHANGED <<slot, mine, left, ghosts>>

Fail(r) ==
    /\ Goes(r, "working", "closing")
    /\ Report(r, "error")
    /\ UNCHANGED <<epoch, event, stopped, mine, left, ghosts>>

\* The event is let go of by the run that published it.
Close(r) ==
    /\ Goes(r, "closing", "ended")
    /\ event' = IF Current(r) /\ event = r THEN None ELSE event
    /\ UNCHANGED <<status, epoch, stopped, mine, left, ghosts>>

Work(r) == \/ StartWork(r) \/ BeginFile(r) \/ EndFile(r) \/ PassOver(r) \/ SeeCancel(r)
           \/ Complete(r) \/ Fail(r) \/ Close(r)

Ask(r) == \/ Check(r) \/ ClaimSort(r) \/ NothingToMove(r)
          \/ ReadJournal(r) \/ ClaimUndo(r) \/ RefuseUndo(r)

Next == (\E r \in Runs : Ask(r) \/ Work(r)) \/ Cancel \/ Reset

\* Background workers run to their end.
Spec == Init /\ [][Next]_vars /\ \A r \in Runs : WF_vars(Work(r))

------------------------------------------------------------------------------
(* Properties                                                                 *)

TypeOK ==
    /\ status \in Statuses
    /\ epoch \in Nat
    /\ event \in Runs \cup {None}
    /\ stopped \subseteq Runs
    /\ pc \in [Runs -> Pcs]
    /\ mine \in [Runs -> Nat]
    /\ left \in [Runs -> Nat]
    /\ late \subseteq Runs /\ tooLate \subseteq Runs

Alive(r) == pc[r] \in {"queued", "working", "file"}

\* While the slot shows a busy status, the run that will end it is alive and its
\* cancel event is the one a cancel sets (batch_move.py:286-307, state.py:584):
\* no order of starts, undos, cancels and resets leaves a busy slot nobody frees
\* or a cancel that reaches the wrong worker.
BusySlotHasItsWorker ==
    status \in Busy => event # None /\ Current(event) /\ Alive(event)

\* While the slot shows "cancelling", the worker it shows has been told
\* (state.py:584-588).
CancellingReachedTheWorker == status = "cancelling" => event \in stopped

\* A move or copy run that lost the slot to another run or a reset takes up at
\* most one more file (batch_move.py:463-477).
AbandonedSortStops == tooLate \cap Sorts = {}

\* A settled or idle report changes only by a new claim or a reset: no late
\* worker overwrites it (state.py:542-560, 599-605).
ReportsAreNotOverwritten ==
    [][(status \notin Busy /\ status' # status) => epoch' # epoch]_vars

\* A busy slot is freed (state.py:531-537).
BusySlotIsFreed == status \in Busy ~> status \notin Busy
==============================================================================
