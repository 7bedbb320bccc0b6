------------------------------ MODULE ScanSlot ------------------------------
(***************************************************************************)
(* The folder scan (src/backend/services/sorting/scan.py, the scan part of *)
(* state.py, the library roots of library.py): one slot of shared progress *)
(* that requests claim, cancel, acknowledge and reset, that a background   *)
(* thread fills, and that clearing the gallery and removing a root look    *)
(* at.  A section under _scan_lock, with or without the gallery gate, is   *)
(* one action; the thread walks its folder between its sections.           *)
(***************************************************************************)
EXTENDS Naturals, FiniteSets

CONSTANTS
    Folders,    \* the folders that are scanned and registered as roots
    MaxRuns     \* bound: run ids handed out

ASSUME ScanAssumption ==
    /\ Folders # {}
    /\ MaxRuns \in Nat

VARIABLES
    status,     \* _scan_progress["status"]
    shown,      \* _scan_progress["run_id"] (0 for none)
    suppress,   \* _scan_progress["suppress_root_record"]
    current,    \* _scan_run_id
    holder,     \* the run whose thread is _scan_worker_thread (0 for None)
    event,      \* the runs whose cancel event is set
    request,    \* what each run was asked: its folder, and whether by the user
    thread,     \* where the background thread of each run is
    roots,      \* the library roots
    clearing,   \* clear_gallery is deleting
    removed     \* history: the runs whose root was removed while they were on

slotVars == <<status, shown, suppress, current, holder, event, request>>
vars == <<slotVars, thread, roots, clearing, removed>>

Runs == 1 .. MaxRuns
Active == {"starting", "running", "cancelling"}
Terminal == {"done", "cancelled", "error"}
Requests == [folder : Folders, manual : BOOLEAN]
None == [folder |-> CHOOSE f \in Folders : TRUE, manual |-> FALSE]

\* Where a thread reads and writes pictures of the gallery: at its walk, with a
\* report in hand that says "running" or "cancelling", and when the walk is done.
Walking == {"walk", "tellRunning", "tellCancelling", "walked", "recorded"}
ThreadPcs == {"none", "scheduled", "settled", "ended"} \cup Walking

WorkerAlive == holder # 0
ManualPending == status \in Terminal /\ request[shown].manual

Init ==
    /\ status = "idle" /\ shown = 0 /\ suppress = FALSE
    /\ current = 0 /\ holder = 0
    /\ event = {}
    /\ request = [r \in Runs |-> None]
    /\ thread = [r \in Runs |-> "none"]
    /\ roots = {}
    /\ clearing = FALSE
    /\ removed = {}

-----------------------------------------------------------------------------
(* Requests *)

\* _start_scan of the user, or of a registered root: refused while the slot is
\* active, and to a refresh while a result of the user's is unread.  (Fault: the
\* unread result does not count.)
Claim(ask) ==
    LET run == current + 1 IN
    /\ current < MaxRuns
    /\ ~clearing
    /\ status' = "starting" /\ shown' = run /\ suppress' = FALSE
    /\ current' = run /\ holder' = 0
    /\ request' = [request EXCEPT ![run] = ask]
    /\ thread' = [thread EXCEPT ![run] = "scheduled"]
    /\ UNCHANGED <<event, roots, clearing, removed>>
MutStartRefresh(ask) ==
    /\ ask.manual \/ ask.folder \in roots
    /\ status \notin Active
    /\ Claim(ask)
StartScan(ask) ==
    /\ ask.manual \/ ask.folder \in roots
    /\ status \notin Active
    /\ ask.manual \/ ~ManualPending
    /\ Claim(ask)

\* _invalidate_scan_run_locked.
Invalidate ==
    /\ event' = event \cup ({shown} \ {0})
    /\ current' = current + 1

\* cancel_scan: a thread at work is told, a scan without one is over at once.
\* (Fault: its run id stays good.)
CancelLive ==
    /\ status \in Active
    /\ WorkerAlive
    /\ event' = event \cup {holder}
    /\ status' = "cancelling"
    /\ UNCHANGED <<shown, suppress, current, holder, request, thread, roots, clearing, removed>>

MutCancelQueued ==
    /\ status \in Active
    /\ ~WorkerAlive
    /\ status' = "cancelled"
    /\ UNCHANGED <<shown, suppress, current, holder, event, request, thread, roots, clearing, removed>>
CancelQueued ==
    /\ status \in Active
    /\ ~WorkerAlive
    /\ current < MaxRuns
    /\ Invalidate
    /\ status' = "cancelled"
    /\ UNCHANGED <<shown, suppress, holder, request, thread, roots, clearing, removed>>

\* _set_scan_progress_idle_locked.
GoIdle == status' = "idle" /\ shown' = 0 /\ suppress' = FALSE /\ holder' = 0

\* acknowledge_scan_terminal, by whoever saw this run's result.
Acknowledge ==
    /\ status \in Terminal
    /\ GoIdle
    /\ UNCHANGED <<current, event, request, thread, roots, clearing, removed>>

\* reset_scan_progress: also of an active slot whose thread is not there.
Reset ==
    /\ status \in Terminal \/ (status \in Active /\ ~WorkerAlive)
    /\ current < MaxRuns
    /\ Invalidate
    /\ GoIdle
    /\ UNCHANGED <<request, thread, roots, clearing, removed>>

\* remove_library_root: a scan that would register the root again is told not
\* to.
RemoveRoot(f) ==
    /\ f \in roots /\ ~clearing
    /\ roots' = roots \ {f}
    /\ suppress' = (suppress \/ (status \in Active /\ request[shown].folder = f))
    /\ removed' = removed \cup {r \in Runs : thread[r] # "none" /\ request[r].folder = f}
    /\ UNCHANGED <<status, shown, current, holder, event, request, thread, clearing>>

\* clear_gallery: neither the status nor a thread may say that a scan is on.
\* (Fault: only the thread is asked.)
MutClearStarts ==
    /\ ~clearing
    /\ ~WorkerAlive
    /\ clearing' = TRUE
    /\ UNCHANGED <<slotVars, thread, roots, removed>>
ClearStarts ==
    /\ ~clearing
    /\ status \notin Active /\ ~WorkerAlive
    /\ clearing' = TRUE
    /\ UNCHANGED <<slotVars, thread, roots, removed>>

ClearEnds ==
    /\ clearing
    /\ clearing' = FALSE
    /\ UNCHANGED <<slotVars, thread, roots, removed>>

-----------------------------------------------------------------------------
(* The background thread: run_scan *)

Goes(r, from, to) == thread[r] = from /\ thread' = [thread EXCEPT ![r] = to]

\* _set_scan_worker_refs_if_current: a run that was overtaken ends here.
EnterThread(r) ==
    /\ IF r = current
         THEN /\ Goes(r, "scheduled", "walk")
              /\ holder' = r
              /\ status' = IF status = "starting" THEN "running" ELSE status
         ELSE Goes(r, "scheduled", "ended") /\ UNCHANGED <<holder, status>>
    /\ UNCHANGED <<shown, suppress, current, event, request, roots, clearing, removed>>

\* _set_scan_progress_if_current, _update_scan_progress_if_current.
Show(r, s) == status' = IF r = current THEN s ELSE status
Rest == <<shown, suppress, current, holder, event, request, roots, clearing, removed>>

\* progress_cb looks at the cancel event first and writes the progress later.
LookAtEvent(r) ==
    /\ Goes(r, "walk", IF r \in event THEN "tellCancelling" ELSE "tellRunning")
    /\ UNCHANGED <<status, Rest>>

ReportProgress(r) ==
    /\ \/ Goes(r, "tellRunning", "walk") /\ Show(r, "running")
       \/ Goes(r, "tellCancelling", "walk") /\ Show(r, "cancelling")
    /\ UNCHANGED Rest

WalkEnds(r) ==
    /\ Goes(r, "walk", "walked")
    /\ UNCHANGED <<status, Rest>>

\* The walk finds the event set, or fails.  (Fault: a cancelled one leaves
\* without a word.)
MutWalkStops(r) ==
    /\ Goes(r, "walk", "settled")
    /\ \/ r \in event /\ UNCHANGED status
       \/ Show(r, "error")
    /\ UNCHANGED Rest
WalkStops(r) ==
    /\ Goes(r, "walk", "settled")
    /\ \/ r \in event /\ Show(r, "cancelled")
       \/ Show(r, "error")
    /\ UNCHANGED Rest

\* The folder becomes a root unless its run was overtaken or told not to.
\* (Fault: the flag is not read.)
MutRecordRoot(r) ==
    /\ ~clearing
    /\ Goes(r, "walked", "recorded")
    /\ roots' = IF r = current THEN roots \cup {request[r].folder} ELSE roots
    /\ UNCHANGED <<slotVars, clearing, removed>>
RecordRoot(r) ==
    /\ ~clearing
    /\ Goes(r, "walked", "recorded")
    /\ roots' = IF r = current /\ ~suppress THEN roots \cup {request[r].folder} ELSE roots
    /\ UNCHANGED <<slotVars, clearing, removed>>

RecordFails(r) ==
    /\ ~clearing
    /\ r = current /\ ~suppress
    /\ Goes(r, "walked", "settled")
    /\ Show(r, "error")
    /\ UNCHANGED Rest

Settle(r) ==
    /\ Goes(r, "recorded", "settled")
    /\ Show(r, "done")
    /\ UNCHANGED Rest

\* The finally block; a thread still "running" there has failed.
EndThread(r) ==
    /\ Goes(r, "settled", "ended")
    /\ Show(r, IF status = "running" THEN "error" ELSE status)
    /\ holder' = IF r = current THEN 0 ELSE holder
    /\ UNCHANGED <<shown, suppress, current, event, request, roots, clearing, removed>>

-----------------------------------------------------------------------------
WalkStep(r) == LookAtEvent(r) \/ ReportProgress(r) \/ WalkEnds(r) \/ WalkStops(r)
ThreadStep(r) ==
    \/ EnterThread(r) \/ WalkStep(r)
    \/ RecordRoot(r) \/ RecordFails(r) \/ Settle(r) \/ EndThread(r)

Next ==
    \/ \E ask \in Requests : StartScan(ask)
    \/ CancelLive \/ CancelQueued \/ Acknowledge \/ Reset
    \/ \E f \in Folders : RemoveRoot(f)
    \/ ClearStarts \/ ClearEnds
    \/ \E r \in Runs : ThreadStep(r)

Spec == Init /\ [][Next]_vars

\* Scheduled threads run, folders are finite, deletions end.
FairSpec ==
    /\ Spec
    /\ WF_vars(ClearEnds)
    /\ \A r \in Runs :
         /\ WF_vars(ThreadStep(r))
         /\ SF_vars(WalkEnds(r) \/ WalkStops(r))

-----------------------------------------------------------------------------
(* Properties *)

TypeOK ==
    /\ status \in {"idle"} \cup Active \cup Terminal
    /\ shown \in 0 .. MaxRuns /\ current \in 0 .. MaxRuns /\ holder \in 0 .. MaxRuns
    /\ suppress \in BOOLEAN /\ clearing \in BOOLEAN
    /\ event \subseteq Runs /\ removed \subseteq Runs
    /\ request \in [Runs -> Requests]
    /\ thread \in [Runs -> ThreadPcs]
    /\ roots \subseteq Folders
    /\ shown = 0 <=> status = "idle"

\* One scan at a time walks a folder and writes the library (scan.py:157-182):
\* neither a claim whose thread is not there yet, nor one taken back by a cancel
\* or a reset in that gap, lets two threads in.
AtMostOneScanner ==
    \A r, q \in Runs : thread[r] \in Walking /\ thread[q] \in Walking => r = q

\* A root the user has removed does not come back from a scan that was on when
\* it was removed (library.py:152-167, scan.py:503-514).
RemovedRootStaysRemoved ==
    [][ \A r \in removed :
          thread[r] = "walked" /\ thread'[r] = "recorded" /\ request[r].folder \notin roots =>
              request[r].folder \notin roots' ]_vars

\* The result of a scan the user asked for is there until it is acknowledged or
\* reset, or the user scans again (scan.py:183-201): no refresh and no late
\* thread of an earlier run writes over it.
ManualResultSurvives ==
    [][ ManualPending =>
          \/ <<status', shown'>> = <<status, shown>>
          \/ status' = "idle"
          \/ status' = "starting" /\ request'[shown'].manual ]_vars

\* Scans and the clearing of the gallery keep the promise of the gate.
Gate == INSTANCE GalleryGate WITH
    Jobs <- Runs, live <- {r \in Runs : thread[r] \in Walking}
ImplementsGate == Gate!Spec

\* A slot that is taken is given back, whoever cancels, fails or is overtaken.
ScanEnds == status \in Active ~> status \notin Active
=============================================================================
