------------------------------ MODULE BulkJobs ------------------------------
(***************************************************************************)
(* The shared registry of long-running bulk jobs                           *)
(* (src/backend/services/bulk_job_service.py) together with the shapes of  *)
(* worker its callers hand to run_job.  Request threads create and cancel  *)
(* jobs; each job's BackgroundTask runs run_job.  Every section guarded by *)
(* BulkJobService._lock is one action; between two of them any other       *)
(* thread may take the lock.                                               *)
(*                                                                         *)
(* A worker is one of these protocols:                                     *)
(*   chunked  chunked_worker: a loop that polls the cancel flag per chunk  *)
(*   commit   the loop, then commit_result (duplicate scan, readiness)     *)
(*   gated    the loop, then begin_completion, publish, complete_result    *)
(*            (dataset export of a verified package)                       *)
(*   plain    the loop, then publish, complete_result (other exports);     *)
(*            a cancelled one still writes the manifest of its run          *)
(*   batch    the loop, then complete_result even when the loop was cut    *)
(*            short (automatic mask batch)                                 *)
(***************************************************************************)
EXTENDS Naturals, FiniteSets

CONSTANTS
    JobIds,         \* the ids create_job draws (uuid4: never drawn twice)
    Kinds,          \* VALID_JOB_KINDS
    SingleFlight,   \* the kinds started through create_single_flight_job
    KindOf,         \* the kind each id will be created with
    ProtocolOf,     \* the worker protocol of each id
    NChunks,        \* chunks of work per job
    MaxRetained     \* MAX_RETAINED_TERMINAL_JOBS

Protocols == {"chunked", "commit", "gated", "plain", "batch"}

ASSUME JobsAssumption ==
    /\ KindOf \in [JobIds -> Kinds]
    /\ ProtocolOf \in [JobIds -> Protocols]
    /\ SingleFlight \subseteq Kinds
    /\ NChunks \in Nat
    /\ MaxRetained \in Nat

VARIABLES
    status,     \* the registry: the status of each job, ...
    result,     \* ... the kind of result payload it carries
    finished,   \* ... and its finished_at stamp
    cancel,     \* the jobs whose cancel_event is set
    closed,     \* the jobs whose cancellation_closed is set
    worker,     \* where the BackgroundTask of each job is
    chunks,     \* chunks of external work each worker has applied
    late,       \* of those, the ones applied after the cancel flag was set
    output,     \* the jobs whose result file, completion marker or manifest is written
    reply,      \* what the last cancel_job of a running job answered
    clock       \* settlements so far: the order of the finished_at stamps

registry == <<status, result, finished, cancel, closed, clock>>
vars == <<registry, worker, chunks, late, output, reply>>

Terminal == {"done", "error", "cancelled"}
Status == {"absent", "queued", "running", "forgotten"} \cup Terminal
ResultKind == {"none", "partial", "queuedCancel", "stopped", "final", "failure"}
WorkerPc == {"none", "dispatched", "loop", "chunk", "final", "publish",
             "stopping", "complete", "returned", "raised", "ended"}
\* The places where worker_fn itself is executing.
InBody == {"loop", "chunk", "final", "publish", "stopping", "complete"}

Active(j) == status[j] \in {"queued", "running"}
Settled(j) == status[j] \in Terminal

Init ==
    /\ status = [j \in JobIds |-> "absent"]
    /\ result = [j \in JobIds |-> "none"]
    /\ finished = [j \in JobIds |-> 0]
    /\ cancel = {}
    /\ closed = {}
    /\ worker = [j \in JobIds |-> "none"]
    /\ chunks = [j \in JobIds |-> 0]
    /\ late = [j \in JobIds |-> 0]
    /\ output = {}
    /\ reply = [j \in JobIds |-> "none"]
    /\ clock = 0

-----------------------------------------------------------------------------
(* Registry *)

\* _prune_unlocked: of the terminal jobs, all but the last MaxRetained to
\* finish leave the registry.  (Fault: any registered job may be pruned.)
MutPrunable == { j \in JobIds : status[j] \notin {"absent", "forgotten"} }
Prunable == { j \in JobIds : status[j] \in Terminal }
Excess ==
    { j \in Prunable :
        Cardinality({ k \in Prunable : finished[k] > finished[j] }) >= MaxRetained }

\* (Fault: only running jobs occupy the slot.)
MutKindIsBusy(kind) == \E k \in JobIds : KindOf[k] = kind /\ status[k] = "running"
KindIsBusy(kind) == \E k \in JobIds : KindOf[k] = kind /\ Active(k)

\* create_job, or create_single_flight_job for the kinds that allow one active
\* job; the caller then schedules run_job as a BackgroundTask.
CreateJob(j) ==
    /\ status[j] = "absent"
    /\ KindOf[j] \in SingleFlight => ~KindIsBusy(KindOf[j])
    /\ status' = [ k \in JobIds |-> IF k = j THEN "queued"
                                    ELSE IF k \in Excess THEN "forgotten"
                                    ELSE status[k] ]
    /\ worker' = [worker EXCEPT ![j] = "dispatched"]
    /\ UNCHANGED <<result, finished, cancel, closed, clock, chunks, late, output, reply>>

\* A job becomes terminal, with a stamp later than every other.
Settle(j, outcome) ==
    /\ clock' = clock + 1
    /\ finished' = [finished EXCEPT ![j] = clock + 1]
    /\ status' = [status EXCEPT ![j] = outcome]

\* cancel_job, by the state it finds the job in.
CancelQueued(j) ==
    /\ status[j] = "queued"
    /\ Settle(j, "cancelled")
    /\ cancel' = cancel \cup {j}
    /\ result' = IF KindOf[j] \in SingleFlight
                   THEN [result EXCEPT ![j] = "queuedCancel"] ELSE result
    /\ UNCHANGED <<closed, worker, chunks, late, output, reply>>

CancelRunning(j) ==
    /\ status[j] = "running"
    /\ IF j \in closed
         THEN /\ reply' = [reply EXCEPT ![j] = "tooLate"]
              /\ UNCHANGED cancel
         ELSE /\ cancel' = cancel \cup {j}
              /\ reply' = [reply EXCEPT ![j] = "requested"]
    /\ UNCHANGED <<status, result, finished, closed, clock, worker, chunks, late, output>>

-----------------------------------------------------------------------------
(* run_job *)

\* The first section of run_job: a job cancelled while queued, pruned or not,
\* never starts.
RunJob(j) ==
    /\ worker[j] = "dispatched"
    /\ IF status[j] = "queued"
         THEN /\ worker' = [worker EXCEPT ![j] = "loop"]
              /\ status' = [status EXCEPT ![j] = "running"]
         ELSE /\ worker' = [worker EXCEPT ![j] = "ended"]
              /\ UNCHANGED status
    /\ UNCHANGED <<result, finished, cancel, closed, clock, chunks, late, output, reply>>

\* The last section of run_job, after worker_fn returned ...  (Fault: the
\* cancel flag is not looked at.)
MutSettleReturnedDone(j) ==
    /\ worker[j] = "returned"
    /\ worker' = [worker EXCEPT ![j] = "ended"]
    /\ IF status[j] = "running" THEN Settle(j, "done") ELSE UNCHANGED <<status, finished, clock>>
    /\ UNCHANGED <<result, cancel, closed, chunks, late, output, reply>>
SettleReturned(j) ==
    /\ worker[j] = "returned"
    /\ worker' = [worker EXCEPT ![j] = "ended"]
    /\ IF status[j] = "running"
         THEN Settle(j, IF j \in cancel THEN "cancelled" ELSE "done")
         ELSE UNCHANGED <<status, finished, clock>>
    /\ UNCHANGED <<result, cancel, closed, chunks, late, output, reply>>

\* ... and the except branch, after it raised.  (Fault: it only logs.)
MutSettleRaised(j) ==
    /\ worker[j] = "raised"
    /\ worker' = [worker EXCEPT ![j] = "ended"]
    /\ UNCHANGED <<registry, chunks, late, output, reply>>
SettleRaised(j) ==
    /\ worker[j] = "raised"
    /\ worker' = [worker EXCEPT ![j] = "ended"]
    /\ IF status[j] = "running"
         THEN Settle(j, "error")
         ELSE UNCHANGED <<status, finished, clock>>
    /\ UNCHANGED <<result, cancel, closed, chunks, late, output, reply>>

-----------------------------------------------------------------------------
(* Workers *)

\* What a worker does when it sees the flag.  Exports put a cancelled payload
\* in the result before they return, a plain one after it has written its
\* manifest; the mask batch breaks out of its loop and reports as if it were
\* complete.
AfterStop(j) ==
    CASE ProtocolOf[j] = "batch" -> "complete"
      [] ProtocolOf[j] = "plain" -> "stopping"
      [] OTHER                   -> "returned"

Stop(j) ==
    /\ worker' = [worker EXCEPT ![j] = AfterStop(j)]
    /\ result' = IF ProtocolOf[j] = "gated"
                   THEN [result EXCEPT ![j] = "stopped"] ELSE result

AfterLoop(j) ==
    CASE ProtocolOf[j] = "chunked" -> "returned"
      [] ProtocolOf[j] = "batch"   -> "complete"
      [] OTHER                     -> "final"

\* The poll before each chunk, and the end of the loop.
PollCancel(j) ==
    /\ worker[j] = "loop"
    /\ IF chunks[j] < NChunks /\ j \in cancel
         THEN Stop(j)
         ELSE /\ worker' = [worker EXCEPT ![j] =
                               IF chunks[j] < NChunks THEN "chunk" ELSE AfterLoop(j)]
              /\ UNCHANGED result
    /\ UNCHANGED <<status, finished, cancel, closed, clock, chunks, late, output, reply>>

\* One chunk of external work, then its progress and result delta.
ProcessChunk(j) ==
    /\ worker[j] = "chunk"
    /\ worker' = [worker EXCEPT ![j] = "loop"]
    /\ chunks' = [chunks EXCEPT ![j] = @ + 1]
    /\ late' = IF j \in cancel THEN [late EXCEPT ![j] = @ + 1] ELSE late
    /\ result' = [result EXCEPT ![j] = "partial"]
    /\ UNCHANGED <<status, finished, cancel, closed, clock, output, reply>>

\* commit_result: the publish callback runs under the registry lock.
CommitResult(j) ==
    /\ worker[j] = "final"
    /\ ProtocolOf[j] = "commit"
    /\ worker' = [worker EXCEPT ![j] = "returned"]
    /\ IF j \in cancel
         THEN UNCHANGED <<status, finished, clock, result, output>>
         ELSE /\ Settle(j, "done")
              /\ result' = [result EXCEPT ![j] = "final"]
              /\ output' = output \cup {j}
    /\ UNCHANGED <<cancel, closed, chunks, late, reply>>

\* commit_result when the callback raises.
CommitFails(j) ==
    /\ worker[j] = "final"
    /\ ProtocolOf[j] = "commit"
    /\ j \notin cancel
    /\ Settle(j, "error")
    /\ worker' = [worker EXCEPT ![j] = "raised"]
    /\ UNCHANGED <<result, cancel, closed, chunks, late, output, reply>>

\* begin_completion, the gate of a verified-package export.  (Fault: the gate
\* is read and not closed.)
MutBeginCompletion(j) ==
    /\ worker[j] = "final"
    /\ ProtocolOf[j] = "gated"
    /\ IF j \in cancel
         THEN Stop(j)
         ELSE /\ worker' = [worker EXCEPT ![j] = "publish"]
              /\ UNCHANGED result
    /\ UNCHANGED <<status, finished, cancel, closed, clock, chunks, late, output, reply>>
BeginCompletion(j) ==
    /\ worker[j] = "final"
    /\ ProtocolOf[j] = "gated"
    /\ IF j \in cancel
         THEN /\ Stop(j)
              /\ UNCHANGED closed
         ELSE /\ closed' = closed \cup {j}
              /\ worker' = [worker EXCEPT ![j] = "publish"]
              /\ UNCHANGED result
    /\ UNCHANGED <<status, finished, cancel, clock, chunks, late, output, reply>>

\* The last look a plain export takes at the flag before it publishes.
PlainDecision(j) ==
    /\ worker[j] = "final"
    /\ ProtocolOf[j] = "plain"
    /\ IF j \in cancel
         THEN Stop(j)
         ELSE /\ worker' = [worker EXCEPT ![j] = "publish"]
              /\ UNCHANGED result
    /\ UNCHANGED <<status, finished, cancel, closed, clock, chunks, late, output, reply>>

\* The export engine writes the run's final artifacts (package manifest and
\* completion marker, or the export manifest).  A package that cannot be
\* finalised is reported as incomplete, and the job still completes.
Publish(j) ==
    /\ worker[j] = "publish"
    /\ worker' = [worker EXCEPT ![j] = "complete"]
    /\ output' \in {output, output \cup {j}}
    /\ UNCHANGED <<registry, chunks, late, reply>>

\* A cancelled plain export to a folder writes the manifest too, and then
\* reports what it has done; one that writes beside the pictures has none.
PublishStopped(j) ==
    /\ worker[j] = "stopping"
    /\ worker' = [worker EXCEPT ![j] = "returned"]
    /\ output' \in {output, output \cup {j}}
    /\ result' = [result EXCEPT ![j] = "stopped"]
    /\ UNCHANGED <<status, finished, cancel, closed, clock, chunks, late, reply>>

\* complete_result: a running cancel request is too late.
CompleteResult(j) ==
    /\ worker[j] = "complete"
    /\ status[j] = "running"
    /\ Settle(j, "done")
    /\ result' = [result EXCEPT ![j] = "final"]
    /\ worker' = [worker EXCEPT ![j] = "returned"]
    /\ UNCHANGED <<cancel, closed, chunks, late, output, reply>>

\* Anything worker_fn does may raise; an export leaves a failure payload.
WorkerRaises(j) ==
    /\ worker[j] \in {"loop", "chunk", "publish", "stopping"}
    /\ worker' = [worker EXCEPT ![j] = "raised"]
    /\ result' = IF ProtocolOf[j] \in {"gated", "plain"}
                   THEN [result EXCEPT ![j] = "failure"] ELSE result
    /\ UNCHANGED <<status, finished, cancel, closed, clock, chunks, late, output, reply>>

-----------------------------------------------------------------------------
Request(j) == CreateJob(j) \/ CancelQueued(j) \/ CancelRunning(j)

WorkerStep(j) ==
    \/ RunJob(j) \/ PollCancel(j) \/ ProcessChunk(j)
    \/ CommitResult(j) \/ CommitFails(j) \/ BeginCompletion(j) \/ PlainDecision(j)
    \/ Publish(j) \/ PublishStopped(j) \/ CompleteResult(j) \/ WorkerRaises(j)
    \/ SettleReturned(j) \/ SettleRaised(j)

Next == \E j \in JobIds : Request(j) \/ WorkerStep(j)

\* A background thread that has been scheduled keeps running; nobody has to
\* call the API.
Fairness == \A j \in JobIds : WF_vars(WorkerStep(j))

Spec == Init /\ [][Next]_vars
FairSpec == Spec /\ Fairness

-----------------------------------------------------------------------------
(* Properties *)

TypeOK ==
    /\ status \in [JobIds -> Status]
    /\ result \in [JobIds -> ResultKind]
    /\ finished \in [JobIds -> Nat]
    /\ cancel \subseteq JobIds
    /\ closed \subseteq JobIds
    /\ worker \in [JobIds -> WorkerPc]
    /\ chunks \in [JobIds -> Nat]
    /\ late \in [JobIds -> Nat]
    /\ output \subseteq JobIds
    /\ reply \in [JobIds -> {"none", "requested", "tooLate"}]
    /\ clock \in Nat

\* A worker inside worker_fn finds its job registered and running at every
\* handle call: the KeyError ("disappeared") and RuntimeError ("requires
\* running status") branches of begin_completion, commit_result and
\* complete_result are never taken, whatever is created, cancelled or pruned
\* meanwhile.
WorkerOwnsItsJob ==
    \A j \in JobIds : worker[j] \in InBody => status[j] = "running"

\* At most one worker of a single-flight kind is inside worker_fn: the check
\* and the insert of create_single_flight_job are one section, and cancelling
\* the queued job, which frees the kind, also keeps its task from starting.
OneWorkerPerSingleFlightKind ==
    \A j, k \in JobIds :
        /\ j # k
        /\ KindOf[j] = KindOf[k]
        /\ KindOf[j] \in SingleFlight
        /\ worker[j] \in InBody
        => worker[k] \notin InBody

\* A cancel lets at most the chunk in flight finish.
AtMostOneLateChunk == \A j \in JobIds : late[j] <= 1

\* What cancel_job answered is kept.  "Completion already started" means the
\* job does not end cancelled; "Cancellation requested" means that a chunked
\* job, or one that commits or claims its completion, does not end done, and
\* that no chunk begins any more.
CancelReplyIsKept ==
    /\ \A j \in JobIds :
          /\ reply[j] = "tooLate" => status[j] # "cancelled"
          /\ reply[j] = "requested" /\ ProtocolOf[j] \in {"chunked", "commit", "gated"}
                => status[j] # "done"
    /\ AtMostOneLateChunk

\* A commit or a verified package that is published was not cancelled and can
\* not be any more: it is done, or its cancellation is closed until it is
\* (bulk_job_service.py:429-444, 501-550).  Plain exports promise no such thing.
PublishedIsNotCancelled ==
    \A j \in JobIds : ProtocolOf[j] \in {"commit", "gated"} /\ j \in output =>
        /\ j \notin cancel
        /\ status[j] \in {"done", "forgotten"} \/ (status[j] = "running" /\ j \in closed)

\* Every created job is settled in the end (and may have been pruned since).
EveryJobSettles ==
    \A j \in JobIds :
        status[j] = "queued" ~> status[j] \in Terminal \cup {"forgotten"}

\* The jobs whose completion is guarded, and what they have decided and report.
Guarded == { j \in JobIds : ProtocolOf[j] \in {"commit", "gated"} }

DecisionOf(j) ==
    CASE j \in cancel -> "cancel"
      [] j \notin cancel /\ (j \in closed \/ j \in output) -> "complete"
      [] OTHER -> "open"

ReportOf(j) ==
    CASE status[j] = "forgotten" -> "gone"
      [] status[j] \in Terminal -> status[j]
      [] OTHER -> "pending"

Contract == INSTANCE CancelContract WITH
    Jobs <- Guarded,
    decision <- [j \in Guarded |-> DecisionOf(j)],
    report <- [j \in Guarded |-> ReportOf(j)]

\* Cancel and completion of a guarded job race for one decision, and the
\* reported status is what was decided: the registry implements CancelContract.
ImplementsContract == Contract!Spec

-----------------------------------------------------------------------------
(* The inductive invariant behind these properties *)

\* Where the BackgroundTask is, against what the registry says of its job.
TaskMatchesStatus(j) ==
    /\ worker[j] = "none" <=> status[j] = "absent"
    /\ status[j] = "queued" => worker[j] = "dispatched"
    /\ worker[j] \in InBody => status[j] = "running"
    /\ status[j] = "running" => worker[j] \in InBody \cup {"returned", "raised"}

\* Which protocols reach the closing steps.
ProtocolMatchesTask(j) ==
    /\ worker[j] = "final" => ProtocolOf[j] \notin {"chunked", "batch"}
    /\ worker[j] = "publish" => ProtocolOf[j] \in {"gated", "plain"}
    /\ worker[j] = "stopping" => ProtocolOf[j] = "plain"
    /\ worker[j] = "complete" => ProtocolOf[j] \in {"gated", "plain", "batch"}
    /\ worker[j] \in {"publish", "complete"} /\ ProtocolOf[j] = "gated" => j \in closed

\* How the cancel flag, the gate, the published output and the reply relate.
DecisionIsTakenOnce(j) ==
    /\ status[j] \in {"absent", "queued"} =>
          j \notin cancel /\ j \notin closed /\ reply[j] = "none"
    /\ j \in closed => j \notin cancel
    /\ status[j] = "cancelled" => j \in cancel
    /\ status[j] = "done" /\ ProtocolOf[j] \in {"chunked", "commit", "gated"} => j \notin cancel
    /\ worker[j] = "returned" /\ status[j] = "running" /\ j \in Guarded => j \in cancel
    /\ reply[j] = "tooLate" => j \in closed
    /\ reply[j] = "requested" => j \in cancel

OutputMatchesStatus(j) ==
    /\ j \in output /\ j \in Guarded /\ status[j] \notin {"done", "forgotten"}
          => worker[j] = "complete" /\ ProtocolOf[j] # "commit"
    /\ j \in output /\ j \in Guarded => j \notin cancel
    /\ status[j] = "done" /\ j \in Guarded => j \in closed \/ j \in output

LateChunkStopsTheLoop(j) ==
    /\ late[j] <= 1
    /\ late[j] = 1 => j \in cancel /\ worker[j] # "chunk"

OneActivePerKind ==
    \A j, k \in JobIds :
        j # k /\ KindOf[j] = KindOf[k] /\ KindOf[j] \in SingleFlight /\ Active(j) => ~Active(k)

JobInv(j) ==
    /\ TaskMatchesStatus(j)
    /\ ProtocolMatchesTask(j)
    /\ DecisionIsTakenOnce(j)
    /\ OutputMatchesStatus(j)
    /\ LateChunkStopsTheLoop(j)

IInv == TypeOK /\ OneActivePerKind /\ \A j \in JobIds : JobInv(j)

=============================================================================
