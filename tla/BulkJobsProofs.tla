--------------------------- MODULE BulkJobsProofs ---------------------------
(***************************************************************************)
(* Proofs about BulkJobs, for every set of jobs, kinds and protocols.      *)
(* IInv relates, job by job, the BackgroundTask, the registry record, the  *)
(* published output and the reply a cancel got; OneActivePerKind is the    *)
(* only part that relates two jobs.  A step of one job leaves the records  *)
(* of the others alone, except that creating a job may prune settled ones. *)
(***************************************************************************)
EXTENDS BulkJobs, TLAPS

\* Creating, cancelling, running and settling jobs keeps every variable within
\* its type.
THEOREM TypeCorrect == Spec => []TypeOK
<1>1. Init => TypeOK
  BY DEF Init, TypeOK, Status, Terminal, ResultKind, WorkerPc
<1>2. TypeOK /\ [Next]_vars => TypeOK'
  <2> SUFFICES ASSUME TypeOK, [Next]_vars PROVE TypeOK'
    OBVIOUS
  <2> USE DEF TypeOK, Status, Terminal, ResultKind, WorkerPc
  <2>1. CASE UNCHANGED vars
    BY <2>1 DEF vars, registry
  <2>2. ASSUME NEW i \in JobIds, CreateJob(i) PROVE TypeOK'
    BY <2>2 DEF CreateJob
  <2>3. ASSUME NEW i \in JobIds, CancelQueued(i) PROVE TypeOK'
    BY <2>3 DEF CancelQueued, Settle
  <2>4. ASSUME NEW i \in JobIds, CancelRunning(i) PROVE TypeOK'
    BY <2>4 DEF CancelRunning
  <2>5. ASSUME NEW i \in JobIds, RunJob(i) PROVE TypeOK'
    BY <2>5 DEF RunJob
  <2>6. ASSUME NEW i \in JobIds, PollCancel(i) PROVE TypeOK'
    BY <2>6, JobsAssumption DEF PollCancel, Stop, AfterStop, AfterLoop
  <2>7. ASSUME NEW i \in JobIds, ProcessChunk(i) PROVE TypeOK'
    BY <2>7 DEF ProcessChunk
  <2>8. ASSUME NEW i \in JobIds, CommitResult(i) \/ CommitFails(i) PROVE TypeOK'
    BY <2>8 DEF CommitResult, CommitFails, Settle
  <2>9. ASSUME NEW i \in JobIds, BeginCompletion(i) \/ PlainDecision(i) PROVE TypeOK'
    BY <2>9 DEF BeginCompletion, PlainDecision, Stop, AfterStop
  <2>10. ASSUME NEW i \in JobIds, Publish(i) \/ PublishStopped(i) \/ CompleteResult(i) PROVE TypeOK'
    BY <2>10 DEF Publish, PublishStopped, CompleteResult, Settle, registry
  <2>11. ASSUME NEW i \in JobIds, WorkerRaises(i) PROVE TypeOK'
    BY <2>11 DEF WorkerRaises
  <2>12. ASSUME NEW i \in JobIds, SettleReturned(i) \/ SettleRaised(i) PROVE TypeOK'
    BY <2>12 DEF SettleReturned, SettleRaised, Settle
  <2>13. QED
    BY <2>1, <2>2, <2>3, <2>4, <2>5, <2>6, <2>7, <2>8, <2>9, <2>10, <2>11, <2>12
    DEF Next, Request, WorkerStep
<1>3. QED
  BY <1>1, <1>2, PTL DEF Spec

-----------------------------------------------------------------------------
\* A step leaves everything but the status of job j as it is.
Unchanged(j) ==
    /\ worker'[j] = worker[j]
    /\ late'[j] = late[j]
    /\ reply'[j] = reply[j]
    /\ (j \in cancel') = (j \in cancel)
    /\ (j \in closed') = (j \in closed)
    /\ (j \in output') = (j \in output)

\* A job none of whose components changed keeps its part of the invariant.
LEMMA Frame ==
  ASSUME NEW j \in JobIds, JobInv(j),
         Unchanged(j), status'[j] = status[j]
  PROVE  JobInv(j)'
BY DEF JobInv, TaskMatchesStatus, ProtocolMatchesTask, DecisionIsTakenOnce,
       OutputMatchesStatus, LateChunkStopsTheLoop, Guarded, Unchanged

\* Pruning forgets settled jobs only, which no worker still acts for.
LEMMA PruneKeeps ==
  ASSUME NEW j \in JobIds, TypeOK, JobInv(j), Settled(j),
         Unchanged(j), status'[j] = "forgotten"
  PROVE  JobInv(j)'
BY DEF TypeOK, Status, Terminal, Settled, InBody, JobInv, TaskMatchesStatus,
       ProtocolMatchesTask, DecisionIsTakenOnce, OutputMatchesStatus,
       LateChunkStopsTheLoop, Guarded, Unchanged

\* The parts of the invariant, expanded for one job.
LEMMA StepOfOne ==
  ASSUME NEW i \in JobIds, TypeOK, JobInv(i),
         CreateJob(i) \/ CancelQueued(i) \/ CancelRunning(i) \/ WorkerStep(i)
  PROVE  JobInv(i)'
<1> USE DEF TypeOK, Status, Terminal, ResultKind, WorkerPc, InBody, Guarded,
            JobInv, TaskMatchesStatus, ProtocolMatchesTask, DecisionIsTakenOnce,
            OutputMatchesStatus, LateChunkStopsTheLoop
<1>1. CASE CreateJob(i)
  BY <1>1 DEF CreateJob
<1>2. CASE CancelQueued(i)
  BY <1>2 DEF CancelQueued, Settle
<1>3. CASE CancelRunning(i)
  BY <1>3 DEF CancelRunning
<1>4. CASE RunJob(i)
  BY <1>4 DEF RunJob
<1>5. CASE PollCancel(i)
  BY <1>5, JobsAssumption DEF PollCancel, Stop, AfterStop, AfterLoop, Protocols
<1>6. CASE ProcessChunk(i)
  BY <1>6 DEF ProcessChunk
<1>7. CASE CommitResult(i)
  <2>1. CASE i \in cancel
    BY <1>7, <2>1 DEF CommitResult
  <2>2. CASE i \notin cancel
    <3>1. /\ status'[i] = "done" /\ worker'[i] = "returned"
          /\ output' = output \cup {i} /\ ProtocolOf[i] = "commit"
          /\ UNCHANGED <<cancel, closed, late, reply>>
      BY <1>7, <2>2 DEF CommitResult, Settle
    <3>2. worker[i] = "final" /\ status[i] = "running"
      BY <1>7 DEF CommitResult
    <3>3. QED
      BY <2>2, <3>1, <3>2
  <2>3. QED
    BY <2>1, <2>2
<1>8. CASE CommitFails(i)
  BY <1>8 DEF CommitFails, Settle
<1>9. CASE BeginCompletion(i)
  BY <1>9 DEF BeginCompletion, Stop, AfterStop
<1>10. CASE PlainDecision(i)
  BY <1>10 DEF PlainDecision, Stop, AfterStop
<1>11. CASE Publish(i)
  BY <1>11 DEF Publish, registry
<1>12. CASE CompleteResult(i)
  BY <1>12 DEF CompleteResult, Settle
<1>13. CASE WorkerRaises(i)
  BY <1>13 DEF WorkerRaises
<1>14. CASE SettleReturned(i)
  BY <1>14 DEF SettleReturned, Settle
<1>15. CASE SettleRaised(i)
  BY <1>15 DEF SettleRaised, Settle
<1>16. CASE PublishStopped(i)
  BY <1>16 DEF PublishStopped
<1>17. QED
  BY <1>1, <1>2, <1>3, <1>4, <1>5, <1>6, <1>7, <1>8, <1>9, <1>10, <1>11, <1>12,
     <1>13, <1>14, <1>15, <1>16 DEF WorkerStep

\* Of the other jobs, a step forgets some that are settled and leaves the rest.
LEMMA StepOfOthers ==
  ASSUME NEW i \in JobIds, NEW j \in JobIds \ {i}, TypeOK, JobInv(j),
         CreateJob(i) \/ CancelQueued(i) \/ CancelRunning(i) \/ WorkerStep(i)
  PROVE  /\ JobInv(j)'
         /\ Unchanged(j)
         /\ \/ status'[j] = status[j]
            \/ CreateJob(i) /\ Settled(j) /\ status'[j] = "forgotten"
<1>1. /\ Unchanged(j)
      /\ \/ status'[j] = status[j]
         \/ CreateJob(i) /\ Settled(j) /\ status'[j] = "forgotten"
  <2> USE DEF TypeOK, Unchanged
  <2>1. CASE CreateJob(i)
    BY <2>1 DEF CreateJob, Excess, Prunable, Settled
  <2>2. CASE CancelQueued(i) \/ CancelRunning(i)
    BY <2>2 DEF CancelQueued, CancelRunning, Settle
  <2>3. CASE RunJob(i) \/ PollCancel(i) \/ ProcessChunk(i) \/ WorkerRaises(i)
    BY <2>3 DEF RunJob, PollCancel, ProcessChunk, WorkerRaises, Stop
  <2>4. CASE CommitResult(i) \/ CommitFails(i) \/ CompleteResult(i)
    BY <2>4 DEF CommitResult, CommitFails, CompleteResult, Settle
  <2>5. CASE BeginCompletion(i) \/ PlainDecision(i) \/ Publish(i) \/ PublishStopped(i)
    BY <2>5 DEF BeginCompletion, PlainDecision, Publish, PublishStopped, Stop, registry
  <2>6. CASE SettleReturned(i) \/ SettleRaised(i)
    BY <2>6 DEF SettleReturned, SettleRaised, Settle
  <2>7. QED
    BY <2>1, <2>2, <2>3, <2>4, <2>5, <2>6 DEF WorkerStep
<1>2. JobInv(j)'
  BY <1>1, Frame, PruneKeeps
<1>3. QED
  BY <1>1, <1>2

\* Only creating a job makes it active, and then its kind was free.
LEMMA StepOfKinds ==
  ASSUME NEW i \in JobIds, TypeOK, OneActivePerKind, \A j \in JobIds : JobInv(j),
         CreateJob(i) \/ CancelQueued(i) \/ CancelRunning(i) \/ WorkerStep(i)
  PROVE  OneActivePerKind'
<1>1. ASSUME NEW j \in JobIds \ {i} PROVE Active(j)' => Active(j)
  BY StepOfOthers DEF Active
<1>2. CASE CreateJob(i)
  <2>1. KindOf[i] \in SingleFlight => \A k \in JobIds \ {i} : KindOf[k] = KindOf[i] => ~Active(k)'
    BY <1>1, <1>2 DEF CreateJob, KindIsBusy
  <2>2. QED
    BY <1>1, <2>1 DEF OneActivePerKind
<1>3. CASE ~CreateJob(i)
  <2>1. Active(i)' => Active(i)
    <3> USE DEF TypeOK, Active
    <3>1. CASE CancelQueued(i) \/ CancelRunning(i)
      BY <3>1 DEF CancelQueued, CancelRunning, Settle
    <3>2. CASE RunJob(i) \/ PollCancel(i) \/ ProcessChunk(i) \/ WorkerRaises(i)
      BY <3>2 DEF RunJob, PollCancel, ProcessChunk, WorkerRaises, Stop
    <3>3. CASE CommitResult(i) \/ CommitFails(i) \/ CompleteResult(i)
      BY <3>3 DEF CommitResult, CommitFails, CompleteResult, Settle
    <3>4. CASE BeginCompletion(i) \/ PlainDecision(i) \/ Publish(i) \/ PublishStopped(i)
      BY <3>4 DEF BeginCompletion, PlainDecision, Publish, PublishStopped, Stop, registry
    <3>5. CASE SettleReturned(i) \/ SettleRaised(i)
      BY <3>5 DEF SettleReturned, SettleRaised, Settle
    <3>6. QED
      BY <1>3, <3>1, <3>2, <3>3, <3>4, <3>5 DEF WorkerStep
  <2>2. QED
    BY <1>1, <2>1 DEF OneActivePerKind
<1>4. QED
  BY <1>2, <1>3

\* The inductive invariant: task, record, output and reply of every job agree,
\* and a single-flight kind has one active job.
THEOREM Invariance == Spec => []IInv
<1>1. Init => IInv
  <2> SUFFICES ASSUME Init PROVE IInv
    OBVIOUS
  <2>1. TypeOK
    BY DEF Init, TypeOK, Status, Terminal, ResultKind, WorkerPc
  <2>2. OneActivePerKind
    BY DEF Init, OneActivePerKind, Active
  <2>3. ASSUME NEW j \in JobIds PROVE JobInv(j)
    BY DEF Init, JobInv, TaskMatchesStatus, ProtocolMatchesTask, DecisionIsTakenOnce,
           OutputMatchesStatus, LateChunkStopsTheLoop, InBody
  <2>4. QED
    BY <2>1, <2>2, <2>3 DEF IInv
<1>2. IInv /\ TypeOK' /\ [Next]_vars => IInv'
  <2> SUFFICES ASSUME IInv, TypeOK', [Next]_vars PROVE IInv'
    OBVIOUS
  <2>1. CASE UNCHANGED vars
    <3>1. ASSUME NEW j \in JobIds PROVE JobInv(j)'
      BY <2>1, Frame DEF IInv, vars, registry, Unchanged
    <3>2. OneActivePerKind'
      BY <2>1 DEF IInv, OneActivePerKind, Active, vars, registry
    <3>3. QED
      BY <3>1, <3>2 DEF IInv
  <2>2. ASSUME NEW i \in JobIds,
               CreateJob(i) \/ CancelQueued(i) \/ CancelRunning(i) \/ WorkerStep(i)
        PROVE  IInv'
    <3>1. ASSUME NEW j \in JobIds PROVE JobInv(j)'
      <4>1. CASE j = i
        BY <2>2, <4>1, StepOfOne DEF IInv
      <4>2. CASE j # i
        BY <2>2, <4>2, StepOfOthers DEF IInv
      <4>3. QED
        BY <4>1, <4>2
    <3>2. OneActivePerKind'
      BY <2>2, StepOfKinds DEF IInv
    <3>3. QED
      BY <3>1, <3>2 DEF IInv
  <2>3. QED
    BY <2>1, <2>2 DEF Next, Request
<1>3. QED
  BY <1>1, <1>2, TypeCorrect, PTL DEF Spec

\* A worker inside worker_fn always finds its job registered and running.
THEOREM WorkersOwnTheirJobs == Spec => []WorkerOwnsItsJob
<1>1. IInv => WorkerOwnsItsJob
  BY DEF IInv, JobInv, TaskMatchesStatus, WorkerOwnsItsJob
<1>2. QED
  BY <1>1, Invariance, PTL

\* One worker of a single-flight kind at a time, for any number of jobs.
THEOREM SingleFlightWorkers == Spec => []OneWorkerPerSingleFlightKind
<1>1. IInv => OneWorkerPerSingleFlightKind
  BY DEF IInv, JobInv, TaskMatchesStatus, OneActivePerKind, Active,
         OneWorkerPerSingleFlightKind
<1>2. QED
  BY <1>1, Invariance, PTL

\* A cancel lets at most the chunk in flight finish, however long the job.
THEOREM LateChunksAreBounded == Spec => []AtMostOneLateChunk
<1>1. IInv => AtMostOneLateChunk
  BY DEF IInv, JobInv, LateChunkStopsTheLoop, AtMostOneLateChunk
<1>2. QED
  BY <1>1, Invariance, PTL

\* What a cancel was answered is what happens.
THEOREM CancelRepliesAreKept == Spec => []CancelReplyIsKept
<1>1. IInv /\ AtMostOneLateChunk => CancelReplyIsKept
  BY DEF IInv, JobInv, DecisionIsTakenOnce, CancelReplyIsKept
<1>2. QED
  BY <1>1, Invariance, LateChunksAreBounded, PTL

\* A commit or a verified package that is published is never reported cancelled.
THEOREM PublishedJobsAreNotCancelled == Spec => []PublishedIsNotCancelled
<1>1. IInv => PublishedIsNotCancelled
  <2> SUFFICES ASSUME IInv, NEW j \in JobIds, j \in Guarded, j \in output
               PROVE  /\ j \notin cancel
                      /\ status[j] \in {"done", "forgotten"} \/ (status[j] = "running" /\ j \in closed)
    BY DEF PublishedIsNotCancelled, Guarded
  <2>1. JobInv(j)
    BY DEF IInv
  <2>2. j \notin cancel
    BY <2>1 DEF JobInv, OutputMatchesStatus
  <2>3. CASE status[j] \notin {"done", "forgotten"}
    <3>1. worker[j] = "complete" /\ ProtocolOf[j] = "gated"
      BY <2>1, <2>3 DEF JobInv, OutputMatchesStatus, Guarded
    <3>2. QED
      BY <2>1, <2>2, <3>1 DEF JobInv, TaskMatchesStatus, ProtocolMatchesTask, InBody
  <2>4. QED
    BY <2>2, <2>3
<1>2. QED
  BY <1>1, Invariance, PTL

-----------------------------------------------------------------------------
(* The registry implements CancelContract *)

\* How the decision and the report of the job a step is about may move: not at
\* all, from open to one decision, or to a report the decision allows.
Moves(i) ==
    \/ /\ DecisionOf(i)' = DecisionOf(i)
       /\ ReportOf(i)' = ReportOf(i)
    \/ /\ DecisionOf(i) = "open" /\ DecisionOf(i)' = "cancel"
       /\ \/ ReportOf(i)' = ReportOf(i)
          \/ ReportOf(i) = "pending" /\ ReportOf(i)' = "cancelled"
    \/ /\ DecisionOf(i) = "open" /\ DecisionOf(i)' = "complete"
       /\ \/ ReportOf(i)' = ReportOf(i)
          \/ ReportOf(i) = "pending" /\ ReportOf(i)' = "done"
    \/ /\ DecisionOf(i)' = DecisionOf(i)
       /\ ReportOf(i) = "pending"
       /\ \/ ReportOf(i)' = "cancelled" /\ DecisionOf(i) = "cancel"
          \/ ReportOf(i)' = "done" /\ DecisionOf(i) = "complete"
          \/ ReportOf(i)' = "error"

LEMMA GuardedMoves ==
  ASSUME NEW i \in Guarded, TypeOK, JobInv(i),
         CreateJob(i) \/ CancelQueued(i) \/ CancelRunning(i) \/ WorkerStep(i)
  PROVE  Moves(i)
<1> i \in JobIds
  BY DEF Guarded
<1> USE DEF TypeOK, Status, Terminal, Moves, DecisionOf, ReportOf
<1>1. /\ i \in closed => i \notin cancel
      /\ status[i] \in {"absent", "queued"} => i \notin cancel /\ i \notin closed
      /\ worker[i] = "returned" /\ status[i] = "running" => i \in cancel
      /\ worker[i] \in {"publish", "complete"} /\ ProtocolOf[i] = "gated" => i \in closed
      /\ i \in output /\ status[i] \notin {"done", "forgotten"}
            => worker[i] = "complete" /\ ProtocolOf[i] # "commit"
      /\ i \in output => i \notin cancel
      /\ worker[i] = "complete" => ProtocolOf[i] = "gated"
      /\ worker[i] = "publish" => ProtocolOf[i] = "gated"
      /\ worker[i] # "stopping"
      /\ worker[i] \in InBody => status[i] = "running"
      /\ status[i] = "queued" => worker[i] = "dispatched"
  BY DEF JobInv, TaskMatchesStatus, ProtocolMatchesTask, DecisionIsTakenOnce,
         OutputMatchesStatus, Guarded
<1>2. CASE CreateJob(i) \/ RunJob(i) \/ PollCancel(i) \/ ProcessChunk(i) \/ WorkerRaises(i)
  BY <1>1, <1>2 DEF CreateJob, RunJob, PollCancel, ProcessChunk, WorkerRaises, Stop
<1>3. CASE CancelQueued(i)
  BY <1>1, <1>3 DEF CancelQueued, Settle
<1>4. CASE CancelRunning(i)
  BY <1>1, <1>4 DEF CancelRunning, InBody
<1>5. CASE CommitResult(i)
  BY <1>1, <1>5 DEF CommitResult, Settle, InBody
<1>6. CASE CommitFails(i)
  BY <1>1, <1>6 DEF CommitFails, Settle, InBody
<1>7. CASE BeginCompletion(i) \/ PlainDecision(i)
  BY <1>1, <1>7 DEF BeginCompletion, PlainDecision, Stop, InBody, Guarded
<1>8. CASE Publish(i) \/ PublishStopped(i)
  BY <1>1, <1>8 DEF Publish, PublishStopped, registry
<1>9. CASE CompleteResult(i)
  BY <1>1, <1>9 DEF CompleteResult, Settle
<1>10. CASE SettleReturned(i)
  BY <1>1, <1>10 DEF SettleReturned, Settle
<1>11. CASE SettleRaised(i)
  BY <1>1, <1>11 DEF SettleRaised, Settle
<1>12. QED
  BY <1>2, <1>3, <1>4, <1>5, <1>6, <1>7, <1>8, <1>9, <1>10, <1>11 DEF WorkerStep

\* The registry is an implementation of CancelContract: for every guarded job,
\* cancel and completion race for one decision, and the report follows it.
THEOREM Refinement == Spec => ImplementsContract
<1> DEFINE D == [j \in Guarded |-> DecisionOf(j)]
           R == [j \in Guarded |-> ReportOf(j)]
<1>1. Init => Contract!Init
  BY DEF Init, Contract!Init, DecisionOf, ReportOf, Guarded, Terminal
<1>2. IInv /\ [Next]_vars => [Contract!Next]_(Contract!vars)
  <2> SUFFICES ASSUME IInv, [Next]_vars PROVE [Contract!Next]_(Contract!vars)
    OBVIOUS
  <2>1. CASE UNCHANGED vars
    BY <2>1 DEF Contract!vars, vars, registry, DecisionOf, ReportOf
  <2>2. ASSUME NEW i \in JobIds,
               CreateJob(i) \/ CancelQueued(i) \/ CancelRunning(i) \/ WorkerStep(i)
        PROVE  [Contract!Next]_(Contract!vars)
    <3>1. ASSUME NEW j \in Guarded \ {i}
          PROVE  /\ DecisionOf(j)' = DecisionOf(j)
                 /\ \/ ReportOf(j)' = ReportOf(j)
                    \/ /\ CreateJob(i)
                       /\ ReportOf(j) \notin {"pending", "gone"}
                       /\ ReportOf(j)' = "gone"
      <4>1. j \in JobIds \ {i}
        BY DEF Guarded
      <4>2. /\ Unchanged(j)
            /\ \/ status'[j] = status[j]
               \/ CreateJob(i) /\ Settled(j) /\ status'[j] = "forgotten"
        BY <2>2, <4>1, StepOfOthers DEF IInv
      <4>3. QED
        BY <4>2 DEF Unchanged, Settled, Terminal, DecisionOf, ReportOf
    <3>2. i \in Guarded => Moves(i)
      BY <2>2, GuardedMoves DEF IInv
    <3>3. CASE CreateJob(i)
      <4>1. i \in Guarded => DecisionOf(i)' = DecisionOf(i) /\ ReportOf(i)' = ReportOf(i)
        BY <3>3 DEF CreateJob, IInv, TypeOK, DecisionOf, ReportOf, Terminal
      <4> DEFINE old == { j \in Guarded : R[j] \notin {"pending", "gone"} /\ ReportOf(j)' = "gone" }
      <4>2. D' = D
        BY <3>1, <4>1
      <4>3. R' = [ j \in Guarded |-> IF j \in old THEN "gone" ELSE R[j] ]
        BY <3>1, <4>1
      <4>4. old \in SUBSET { j \in Guarded : R[j] \notin {"pending", "gone"} }
        OBVIOUS
      <4> HIDE DEF D, R, old
      <4>5. Contract!Forget
        BY <4>2, <4>3, <4>4 DEF Contract!Forget, D, R
      <4>6. QED
        BY <4>5 DEF Contract!Next
    <3>4. CASE ~CreateJob(i)
      <4>1. \A j \in Guarded \ {i} : DecisionOf(j)' = DecisionOf(j) /\ ReportOf(j)' = ReportOf(j)
        BY <3>1, <3>4
      <4>2. /\ D' = [D EXCEPT ![i] = IF i \in Guarded THEN DecisionOf(i)' ELSE @]
            /\ R' = [R EXCEPT ![i] = IF i \in Guarded THEN ReportOf(i)' ELSE @]
        BY <4>1
      <4>3. CASE i \notin Guarded
        BY <4>2, <4>3 DEF Contract!vars
      <4>4. CASE i \in Guarded
        <5>1. D[i] = DecisionOf(i) /\ R[i] = ReportOf(i)
          BY <4>4
        <5> DEFINE d == DecisionOf(i)'
                   r == ReportOf(i)'
        <5>2. D' = [D EXCEPT ![i] = d] /\ R' = [R EXCEPT ![i] = r]
          BY <4>2, <4>4
        <5>3. D'[i] = d
          BY <4>4
        <5>4. D = [D EXCEPT ![i] = D[i]] /\ R = [R EXCEPT ![i] = R[i]]
          BY <4>4
        <5>5. \/ d = D[i] /\ r = R[i]
              \/ D[i] = "open" /\ d = "cancel" /\ (r = R[i] \/ (R[i] = "pending" /\ r = "cancelled"))
              \/ D[i] = "open" /\ d = "complete" /\ (r = R[i] \/ (R[i] = "pending" /\ r = "done"))
              \/ /\ d = D[i]
                 /\ R[i] = "pending"
                 /\ \/ r = "cancelled" /\ d = "cancel"
                    \/ r = "done" /\ d = "complete"
                    \/ r = "error"
          BY <3>2, <4>4, <5>1 DEF Moves
        <5> HIDE DEF D, R, d, r
        <5>6. CASE d = D[i] /\ r = R[i]
          BY <5>2, <5>4, <5>6 DEF Contract!vars, D, R
        <5>7. CASE D[i] = "open" /\ d = "cancel" /\ (r = R[i] \/ (R[i] = "pending" /\ r = "cancelled"))
          <6>1. Contract!Cancel(i)
            BY <5>2, <5>3, <5>4, <5>7 DEF Contract!Cancel, Contract!Decide, Contract!Tell, D, R
          <6>2. QED
            BY <4>4, <6>1 DEF Contract!Next
        <5>8. CASE D[i] = "open" /\ d = "complete" /\ (r = R[i] \/ (R[i] = "pending" /\ r = "done"))
          <6>1. Contract!Complete(i)
            BY <5>2, <5>3, <5>4, <5>8 DEF Contract!Complete, Contract!Decide, Contract!Tell, D, R
          <6>2. QED
            BY <4>4, <6>1 DEF Contract!Next
        <5>9. CASE /\ d = D[i]
                   /\ R[i] = "pending"
                   /\ \/ r = "cancelled" /\ d = "cancel"
                      \/ r = "done" /\ d = "complete"
                      \/ r = "error"
          <6>1. Contract!Finish(i)
            BY <5>2, <5>3, <5>4, <5>9 DEF Contract!Finish, Contract!Tell, D, R
          <6>2. QED
            BY <4>4, <6>1 DEF Contract!Next
        <5>10. QED
          BY <5>5, <5>6, <5>7, <5>8, <5>9
      <4>5. QED
        BY <4>3, <4>4
    <3>5. QED
      BY <3>3, <3>4
  <2>3. QED
    BY <2>1, <2>2 DEF Next, Request
<1>3. QED
  BY <1>1, <1>2, Invariance, PTL DEF Spec, ImplementsContract, Contract!Spec
=============================================================================
