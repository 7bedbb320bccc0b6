----------------------------- MODULE TaggingRun -----------------------------
(***************************************************************************)
(* The gallery tagging run (src/backend/services/tagging/jobs.py and       *)
(* progress.py): start_tagging claims a run id, a background task spawns   *)
(* a worker process and relays its reports, and cancel and reset act from  *)
(* request threads.  Every section under TaggingService._lock is one       *)
(* action; the worker process, the relay loop and the waiting half of a    *)
(* cancel (join, terminate, join) run without the lock, so anything may    *)
(* come between two of them.                                               *)
(***************************************************************************)
EXTENDS Naturals, Sequences

CONSTANTS
    MaxRuns,        \* bound: run ids handed out
    MaxReports,     \* bound: "running" reports a worker sends
    Faulty          \* bound: the runs whose start or monitor may raise an error

ASSUME BoundsAssumption ==
    /\ MaxRuns \in Nat
    /\ MaxReports \in Nat
    /\ Faulty \subseteq Nat

VARIABLES
    status,     \* _progress["status"]
    active,     \* _active_run_id
    pending,    \* _pending_run_id (0 for None)
    handle,     \* the run whose process is _worker_process (0 for None)
    flag,       \* _cancel_requested
    task,       \* where the background task of each run is
    proc,       \* the worker process of each run
    event,      \* the live workers whose cancel_event is set
    mail,       \* the progress queue of each run
    sent,       \* the live workers that have put their terminal report
    seen,       \* saw_terminal_state of each run's relay loop
    waits,      \* cancels between their two sections: the run and the handle read
    stopped,    \* history: the runs a cancel has answered for or a reset has withdrawn
    crossed     \* history: a cancel found the process of an earlier run in its run's place

shared == <<status, active, pending, handle, flag>>
worker == <<proc, event, mail, sent>>
runVars == <<shared, worker, task, seen, waits, stopped, crossed>>

Runs == 1..MaxRuns
Over == {"done", "error", "cancelled"}
Status == {"idle", "running", "cancelling"} \cup Over
TaskPc == {"none", "scheduled", "setup", "unstarted", "relay", "cleanup", "ended"}

Alive(r) == r # 0 /\ proc[r] = "alive"
IsPending == pending # 0 /\ pending = active
RunIsBusy == IsPending \/ Alive(handle)

\* A process ends.
Dies(r) ==
    /\ Alive(r)
    /\ proc' = [proc EXCEPT ![r] = "dead"]
    /\ sent' = sent \ {r} /\ event' = event \ {r}

RunInit ==
    /\ status = "idle"
    /\ active = 0
    /\ pending = 0
    /\ handle = 0
    /\ flag = FALSE
    /\ task = [r \in Runs |-> "none"]
    /\ proc = [r \in Runs |-> "none"]
    /\ event = {}
    /\ mail = [r \in Runs |-> <<>>]
    /\ sent = {}
    /\ seen = {}
    /\ waits = {}
    /\ stopped = {}
    /\ crossed = FALSE

-----------------------------------------------------------------------------
(* Requests *)

\* start_tagging: refused while a run is pending or its process lives; a status
\* left behind by a dead worker does not stand in the way.
StartTagging ==
    /\ active < MaxRuns
    /\ ~RunIsBusy
    /\ active' = active + 1
    /\ pending' = active + 1
    /\ status' = "running"
    /\ task' = [task EXCEPT ![active + 1] = "scheduled"]
    /\ IF status \in {"running", "cancelling"}
         THEN handle' = 0 /\ flag' = FALSE
         ELSE UNCHANGED <<handle, flag>>
    /\ UNCHANGED <<worker, seen, waits, stopped, crossed>>

\* The background task cannot be scheduled: the run is given up at once.
ScheduleFails(r) ==
    /\ task[r] = "scheduled"
    /\ task' = [task EXCEPT ![r] = "ended"]
    /\ IF r = active /\ pending = r
         THEN pending' = 0 /\ status' = "error"
         ELSE UNCHANGED <<pending, status>>
    /\ UNCHANGED <<active, handle, flag, worker, seen, waits, stopped, crossed>>

\* cancel_tagging, first section, no process yet: the cancel is final, and the
\* new run id makes the scheduled task give up.
CancelBeforeSpawn ==
    /\ status \in {"running", "cancelling"}
    /\ handle = 0
    /\ active < MaxRuns
    /\ status' = "cancelled"
    /\ pending' = 0
    /\ active' = active + 1
    /\ flag' = FALSE
    /\ stopped' = stopped \cup {active}
    /\ UNCHANGED <<handle, worker, task, seen, waits, crossed>>

\* cancel_tagging, first section, with a process: ask it to stop, then wait for
\* it without the lock.
CancelAsks ==
    /\ status \in {"running", "cancelling"}
    /\ handle # 0
    /\ status' = "cancelling"
    /\ flag' = TRUE
    /\ event' = IF Alive(handle) THEN event \cup {handle} ELSE event
    /\ waits' = waits \cup {<<active, handle>>}
    /\ crossed' = (crossed \/ handle # active)
    /\ UNCHANGED <<active, pending, handle, proc, mail, sent, task, seen, stopped>>

\* The grace period is over: terminate, then kill.
CancelTerminates(w) ==
    /\ w \in waits
    /\ Dies(w[2])
    /\ UNCHANGED <<shared, mail, task, seen, waits, stopped, crossed>>

\* Neither signal has worked: the cancel answers "cancelling".
CancelGivesUp(w) ==
    /\ w \in waits
    /\ proc[w[2]] = "alive"
    /\ waits' = waits \ {w}
    /\ UNCHANGED <<shared, worker, task, seen, stopped, crossed>>

\* cancel_tagging, last section: the process it waited for is gone.
CancelSettles(w) ==
    /\ w \in waits
    /\ ~Alive(w[2])
    /\ waits' = waits \ {w}
    /\ stopped' = stopped \cup {w[1]}
    /\ IF w[1] = active
         THEN status' = "cancelled" /\ handle' = 0
         ELSE UNCHANGED <<status, handle>>
    /\ UNCHANGED <<active, pending, flag, worker, task, seen, crossed>>

\* reset_progress: refused while the process lives; a run that is still pending
\* is fenced off by a new run id.  (Fault: it is not.)
Withdrawn == IF IsPending THEN {active} ELSE {}
MutResetProgress ==
    /\ ~Alive(handle)
    /\ status # "idle"
    /\ pending' = 0
    /\ status' = "idle"
    /\ flag' = FALSE
    /\ handle' = 0
    /\ stopped' = stopped \cup Withdrawn
    /\ UNCHANGED <<active, worker, task, seen, waits, crossed>>
ResetProgress ==
    /\ ~Alive(handle)
    /\ status # "idle"
    /\ IsPending => active < MaxRuns
    /\ active' = IF IsPending THEN active + 1 ELSE active
    /\ pending' = 0
    /\ status' = "idle"
    /\ flag' = FALSE
    /\ handle' = 0
    /\ stopped' = stopped \cup Withdrawn
    /\ UNCHANGED <<worker, task, seen, waits, crossed>>

-----------------------------------------------------------------------------
(* _run_tagging_job *)

\* _apply_worker_progress: only the active run may report.
Apply(r, report) == status' = IF r = active THEN report ELSE status

\* The task begins: a run that has been superseded gives up.
EnterTask(r) ==
    /\ task[r] = "scheduled"
    /\ task' = [task EXCEPT ![r] = IF r = active THEN "setup" ELSE "ended"]
    /\ pending' = IF r # active /\ pending = r THEN 0 ELSE pending
    /\ UNCHANGED <<status, active, handle, flag, worker, seen, waits, stopped, crossed>>

\* The runtime plan, the queue or the process cannot be built.
SetupFails(r) ==
    /\ task[r] = "setup"
    /\ task' = [task EXCEPT ![r] = "cleanup"]
    /\ Apply(r, "error")
    /\ UNCHANGED <<active, pending, handle, flag, worker, seen, waits, stopped, crossed>>

\* The process starts under the lock, if the run is still the active one.
\* (Fault: the run id is only checked when the task begins.)
MutSpawn(r) ==
    /\ task[r] = "setup"
    /\ task' = [task EXCEPT ![r] = "relay"]
    /\ status' = "running"
    /\ handle' = r
    /\ flag' = FALSE
    /\ proc' = [proc EXCEPT ![r] = "alive"]
    /\ pending' = IF pending = r THEN 0 ELSE pending
    /\ UNCHANGED <<active, event, mail, sent, seen, waits, stopped, crossed>>
Spawn(r) ==
    /\ task[r] = "setup"
    /\ IF r = active
         THEN /\ task' = [task EXCEPT ![r] = "relay"]
              /\ status' = "running"
              /\ handle' = r
              /\ flag' = FALSE
              /\ proc' = [proc EXCEPT ![r] = "alive"]
              /\ pending' = IF pending = r THEN 0 ELSE pending
         ELSE /\ task' = [task EXCEPT ![r] = "cleanup"]
              /\ UNCHANGED <<status, handle, flag, proc, pending>>
    /\ UNCHANGED <<active, event, mail, sent, seen, waits, stopped, crossed>>

\* The process cannot be started once it has been made the handle: the lock is
\* let go of with a run that is shown as running, and nobody at work.
StartFails(r) ==
    /\ task[r] = "setup" /\ r = active /\ r \in Faulty
    /\ task' = [task EXCEPT ![r] = "unstarted"]
    /\ status' = "running"
    /\ handle' = r
    /\ flag' = FALSE
    /\ UNCHANGED <<active, pending, worker, seen, waits, stopped, crossed>>

\* An error of the start or of the monitor itself is reported and ends the
\* monitor, whether or not its worker lives on.
MonitorFails(r) ==
    /\ task[r] \in {"unstarted", "relay"} /\ r \in Faulty
    /\ task' = [task EXCEPT ![r] = "cleanup"]
    /\ Apply(r, "error")
    /\ UNCHANGED <<active, pending, handle, flag, worker, seen, waits, stopped, crossed>>

\* The loop passes a cancel request on to its own worker.
PassCancel(r) ==
    /\ task[r] = "relay" /\ Alive(r)
    /\ flag
    /\ r \notin event
    /\ event' = event \cup {r}
    /\ UNCHANGED <<shared, proc, mail, sent, task, seen, waits, stopped, crossed>>

\* The loop, and the drain after the worker's death, apply one report.
RelayReport(r) ==
    /\ task[r] = "relay"
    /\ mail[r] # <<>>
    /\ mail' = [mail EXCEPT ![r] = Tail(@)]
    /\ Apply(r, Head(mail[r]))
    /\ seen' = IF Head(mail[r]) \in Over THEN seen \cup {r} ELSE seen
    /\ UNCHANGED <<active, pending, handle, flag, proc, event, sent, task, waits, stopped, crossed>>

\* The worker is dead and its queue is empty: a run without a terminal report
\* gets one here.  (Fault: none is made up.)
MutEndRelay(r) ==
    /\ task[r] = "relay"
    /\ proc[r] = "dead"
    /\ mail[r] = <<>>
    /\ task' = [task EXCEPT ![r] = "cleanup"]
    /\ UNCHANGED <<shared, worker, seen, waits, stopped, crossed>>
EndRelay(r) ==
    /\ task[r] = "relay"
    /\ proc[r] = "dead"
    /\ mail[r] = <<>>
    /\ task' = [task EXCEPT ![r] = "cleanup"]
    /\ IF r \in seen THEN UNCHANGED status
                     ELSE Apply(r, IF flag THEN "cancelled" ELSE "error")
    /\ UNCHANGED <<active, pending, handle, flag, worker, seen, waits, stopped, crossed>>

\* _cleanup_worker_handles: the queue is closed with what is left in it.
Cleanup(r) ==
    /\ task[r] = "cleanup"
    /\ task' = [task EXCEPT ![r] = "ended"]
    /\ pending' = IF pending = r THEN 0 ELSE pending
    /\ IF r = active
         THEN /\ handle' = 0
              /\ flag' = (flag /\ status = "cancelling")
         ELSE UNCHANGED <<handle, flag>>
    /\ mail' = [mail EXCEPT ![r] = <<>>]
    /\ seen' = seen \ {r}
    /\ UNCHANGED <<status, active, proc, event, sent, waits, stopped, crossed>>

-----------------------------------------------------------------------------
(* The worker process *)

\* A worker whose queue is closed works on; nobody hears of it.
IsHeard(r) == Alive(r) /\ r \notin sent /\ task[r] = "relay"

\* What a worker that ends of its own accord reports last.
LastReport(r) == {"done", "error"} \cup (IF r \in event THEN {"cancelled"} ELSE {})

Put(r, report) == mail' = [mail EXCEPT ![r] = Append(@, report)]

WorkerReports(r) ==
    /\ IsHeard(r)
    /\ Len(mail[r]) < MaxReports
    /\ Put(r, "running")
    /\ UNCHANGED <<shared, proc, event, sent, task, seen, waits, stopped, crossed>>

WorkerFinishes(r) ==
    /\ IsHeard(r)
    /\ \E report \in LastReport(r) : Put(r, report)
    /\ sent' = sent \cup {r}
    /\ UNCHANGED <<shared, proc, event, task, seen, waits, stopped, crossed>>

\* The process exits, after its last report or by a crash.
WorkerExits(r) ==
    /\ Dies(r)
    /\ UNCHANGED <<shared, mail, task, seen, waits, stopped, crossed>>

-----------------------------------------------------------------------------
TaskStep(r) ==
    \/ EnterTask(r) \/ SetupFails(r) \/ Spawn(r) \/ StartFails(r) \/ MonitorFails(r)
    \/ PassCancel(r) \/ RelayReport(r) \/ EndRelay(r) \/ Cleanup(r)
WorkerStep(r) == WorkerReports(r) \/ WorkerFinishes(r) \/ WorkerExits(r)
CancelStep(w) == CancelTerminates(w) \/ CancelGivesUp(w) \/ CancelSettles(w)

RunNext ==
    \/ StartTagging \/ CancelBeforeSpawn \/ CancelAsks \/ ResetProgress
    \/ \E r \in Runs : ScheduleFails(r) \/ TaskStep(r) \/ WorkerStep(r)
    \/ \E w \in waits : CancelStep(w)

RunSpec == RunInit /\ [][RunNext]_runVars

\* A scheduled task runs, and a worker ends (its work is finite); a cancel may
\* wait for ever.
RunFairSpec ==
    /\ RunSpec
    /\ \A r \in Runs : WF_runVars(TaskStep(r)) /\ WF_runVars(WorkerExits(r))

-----------------------------------------------------------------------------
RunTypeOK ==
    /\ status \in Status
    /\ active \in 0..MaxRuns
    /\ pending \in 0..MaxRuns
    /\ handle \in 0..MaxRuns
    /\ flag \in BOOLEAN
    /\ task \in [Runs -> TaskPc]
    /\ proc \in [Runs -> {"none", "alive", "dead"}]
    /\ event \subseteq Runs
    /\ mail \in [Runs -> Seq({"running"} \cup Over)]
    /\ sent \subseteq Runs
    /\ seen \subseteq Runs
    /\ waits \subseteq Runs \X Runs
    /\ stopped \subseteq Runs
    /\ crossed \in BOOLEAN

\* A live worker whose monitor is at work.  One whose monitor has failed
\* (jobs.py:291-308) lives on unknown to the service.
Watched(r) == Alive(r) /\ task[r] = "relay"

\* One worker process that is watched lives at a time.
AtMostOneWorker == \A r, q \in Runs : Watched(r) /\ Watched(q) => r = q

\* As long as no cancel has met the process of an earlier run, a live worker that
\* is watched is the one the service holds: it can be cancelled, and no second one
\* can start.
LiveWorkerIsHeld == crossed \/ \A r \in Runs : Watched(r) => handle = r /\ active = r

\* Nor does a run spawn after its cancel has answered "cancelled" or a reset has
\* withdrawn it.
StoppedStaysStopped ==
    [][ crossed \/ \A r \in stopped : proc[r] = "none" => proc'[r] = "none" ]_runVars

\* A run in progress ends, whatever its worker does.
RunEnds == status \in {"running", "cancelling"} ~> status \notin {"running", "cancelling"}
=============================================================================
