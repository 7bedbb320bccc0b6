------------------------------- MODULE AiProofs -------------------------------
(***************************************************************************)
(* Proofs about the parts of the AI stack: the queue of jobs (AiQueue),    *)
(* the worker process of a tagging run (TaggingRun), and the lease of the  *)
(* machine with the models its holders leave on the GPU (AiRuntime,        *)
(* GpuModels).  They hold for every set of requests, runs and threads and  *)
(* for every bound.                                                        *)
(*                                                                         *)
(* The queue: JobsInv is about the runtimes alone, for a job enters one    *)
(* only over idle runtimes, in a section that no clearing shares.          *)
(* QueueInv follows a request from its promise to its last trace: what is  *)
(* promised is in the queue, in the dispatcher's hand or in a runtime      *)
(* (WaitingIsQueued, DispatchedIsMarked, WorkIsInSlots), and the file says *)
(* what memory says between two steps (FileIsSaved).                       *)
(*                                                                         *)
(* The worker: until a cancel has met the process of an earlier run, the   *)
(* service holds the one worker that lives, and a stopped run spawns       *)
(* nothing.  RunInv adds where a process can be against its task           *)
(* (ProcessFollowsTask), that ids are fresh (IdsAreFresh), that an         *)
(* uncrossed cancel waits for the process of its own run (WaitsForItsOwn)  *)
(* and that a stopped run is behind the current one or has had its process *)
(* (StoppedIsPast).                                                        *)
(*                                                                         *)
(* The lease: exclusion needs the lock file and the gate together, a kept  *)
(* wake-up needs that whoever goes to sleep has just seen that it may not  *)
(* pass.  The threads of GpuModels use the lease as AiRuntime says, so     *)
(* they inherit what is proved of it; on top, no model is released under a *)
(* thread that works with it.  One hard case is a failed load: it releases *)
(* the encoder after its lease has ended, and is harmless because it still *)
(* holds _load_lock, without which nobody else can have loaded it.  The    *)
(* other is Smart Tag's refresh, which is not harmless: without a lease it *)
(* takes the session of a tagger in use, and the history variable lost     *)
(* holds from then on until the session is back.                           *)
(***************************************************************************)
EXTENDS AiQueue, TaggingRun, GpuModels, SubsequenceProofs

------------------------------------------------------------------------------
(* The job queue (AiQueue)                                                   *)

\* The slot stays a function of the kinds.
SlotIsOfKinds == slot = [k \in Kinds |-> slot[k]]

ClearingIsAlone == clearing \in BOOLEAN /\ (clearing => Idle)

JobsInv == SlotIsOfKinds /\ AtMostOneJob /\ ClearingIsAlone

\* Occupying idle runtimes leaves one job, whatever waits at the queue's head.
LEMMA OccupyLeavesOne ==
  ASSUME SlotIsOfKinds, Idle, NEW j, Occupy(j)
  PROVE  SlotIsOfKinds' /\ AtMostOneJob'
BY DEF SlotIsOfKinds, Idle, Occupy, AtMostOneJob

\* Every step leaves the runtimes alone and at most ends a clearing, or begins a
\* job over idle runtimes, ends one, begins a clearing over idle runtimes, or is
\* the end of the process.
JobBegins == Free /\ UNCHANGED clearing /\ Idle /\ \E j : Occupy(j)
JobStops ==
    /\ UNCHANGED clearing
    /\ \E kind \in Kinds : slot' = [slot EXCEPT ![kind] = None]
ClearingBegins == Idle /\ clearing' = TRUE /\ UNCHANGED slot
AllStops == clearing' = FALSE /\ slot' = [k \in Kinds |-> None]

\* There are no other steps.
LEMMA Steps ==
  ASSUME [Next]_vars
  PROVE  \/ UNCHANGED slot /\ (UNCHANGED clearing \/ clearing' = FALSE)
         \/ JobBegins \/ JobStops \/ ClearingBegins \/ AllStops
<1> USE DEF JobBegins, JobStops, ClearingBegins, AllStops
<1>1. CASE UNCHANGED vars
  BY <1>1 DEF vars, memory
<1>2. ASSUME NEW j \in Jobs, StartNow(j) \/ Enqueue(j) PROVE JobBegins \/ UNCHANGED <<slot, clearing>>
  BY <1>2 DEF StartNow, Enqueue
<1>3. ASSUME NEW kind \in Kinds, CancelQueued(kind) \/ CancelLive(kind) \/ JobEnds(kind)
      PROVE  JobStops \/ UNCHANGED <<slot, clearing>>
  BY <1>3 DEF CancelQueued, CancelLive, JobEnds
<1>4. ASSUME NEW j \in Jobs, CancelWaiting(j) \/ CancelRun(j) \/ CancelRunForgets(j)
      PROVE  UNCHANGED <<slot, clearing>>
  BY <1>4 DEF CancelWaiting, CancelRun, CancelRunForgets
<1>5. CASE ClearStarts
  BY <1>5 DEF ClearStarts
<1>6. CASE ClearEnds \/ BatchResolves
  BY <1>6 DEF ClearEnds, BatchResolves
<1>7. CASE Dispatcher
  BY <1>7 DEF Dispatcher, PollEmpty, PollHead, CheckPasses, CheckRefuses, DispatchWaits,
     DispatchStarts, DispatchFails, DropHead, HeadMayStart
<1>8. CASE Crash
  BY <1>8 DEF Crash
<1>9. CASE Restart
  BY <1>9 DEF Restart
<1>10. QED
  BY <1>1, <1>2, <1>3, <1>4, <1>5, <1>6, <1>7, <1>8, <1>9 DEF Next

\* Every step of the jobs keeps their invariant.
LEMMA StepKeeps == ASSUME JobsInv, [Next]_vars PROVE JobsInv'
<1> USE DEF JobsInv
<1>1. CASE UNCHANGED slot /\ (UNCHANGED clearing \/ clearing' = FALSE)
  <2>1. ClearingIsAlone'
    <3>1. CASE clearing' = clearing
      <4>1. Idle' <=> Idle
        BY <1>1 DEF Idle
      <4>2. QED
        BY <3>1, <4>1 DEF ClearingIsAlone
    <3>2. CASE clearing' = FALSE
      BY <3>2 DEF ClearingIsAlone
    <3>3. QED
      BY <1>1, <3>1, <3>2
  <2>2. SlotIsOfKinds' /\ AtMostOneJob'
    BY <1>1 DEF SlotIsOfKinds, AtMostOneJob
  <2>3. QED
    BY <2>1, <2>2
<1>2. CASE JobBegins
  <2>1. ~clearing'
    BY <1>2 DEF JobBegins, Free
  <2>2. QED
    BY <1>2, <2>1, OccupyLeavesOne DEF JobBegins, ClearingIsAlone
<1>3. CASE JobStops
  BY <1>3 DEF JobStops, SlotIsOfKinds, AtMostOneJob, ClearingIsAlone, Idle
<1>4. CASE ClearingBegins
  BY <1>4 DEF ClearingBegins, SlotIsOfKinds, AtMostOneJob, ClearingIsAlone, Idle
<1>5. CASE AllStops
  BY <1>5 DEF AllStops, SlotIsOfKinds, AtMostOneJob, ClearingIsAlone, Idle
<1>6. QED
  BY <1>1, <1>2, <1>3, <1>4, <1>5, Steps

\* In every reachable state JobsInv holds.
THEOREM JobsInvariance == Spec => []JobsInv
<1>1. Init => JobsInv
  BY DEF Init, JobsInv, SlotIsOfKinds, AtMostOneJob, ClearingIsAlone
<1>2. QED
  BY <1>1, StepKeeps, PTL DEF Spec

\* Two jobs never share the machine, whichever start path they take
\* (tagging_pipeline_service.py:391).
THEOREM OneJob == Spec => []AtMostOneJob
<1>1. JobsInv => AtMostOneJob
  BY DEF JobsInv
<1>2. QED
  BY <1>1, JobsInvariance, PTL

\* The jobs implement the gate: none is at work while the gallery is cleared, and
\* clearing starts only when none is (gallery_job_gate.py:15).
THEOREM Refinement == Spec => ImplementsGate
<1> DEFINE on == {k \in Kinds : slot[k] # None}
<1>1. Init => Gate!Init
  BY DEF Init, Gate!Init
<1>2. JobsInv /\ [Next]_vars => [Gate!Next]_<<on, clearing>>
  <2> SUFFICES ASSUME JobsInv, [Next]_vars PROVE [Gate!Next]_<<on, clearing>>
    OBVIOUS
  <2>1. clearing => on = {}
    BY DEF JobsInv, ClearingIsAlone, Idle
  <2>2. clearing' => on' = {}
    BY StepKeeps DEF JobsInv, ClearingIsAlone, Idle
  <2>3. CASE UNCHANGED clearing
    BY <2>2, <2>3 DEF Gate!Next, Gate!JobsChange
  <2>4. CASE ClearingBegins
    <3>1. on = {} /\ on' = on
      BY <2>4 DEF ClearingBegins, Idle
    <3>2. QED
      BY <2>4, <3>1 DEF ClearingBegins, Gate!Next, Gate!StartClearing
  <2>5. CASE clearing' = FALSE /\ (UNCHANGED slot \/ AllStops)
    <3>1. CASE ~clearing
      <4>1. UNCHANGED clearing
        BY <2>5, <3>1 DEF JobsInv, ClearingIsAlone
      <4>2. QED
        BY <2>3, <4>1
    <3>2. CASE clearing
      <4>1. on' = {}
        BY <2>1, <2>5, <3>2 DEF AllStops
      <4>2. QED
        BY <2>5, <4>1 DEF Gate!Next, Gate!EndClearing
    <3>3. QED
      BY <3>1, <3>2
  <2>6. QED
    BY <2>3, <2>4, <2>5, Steps DEF JobBegins, JobStops, AllStops
<1>3. QED
  BY <1>1, <1>2, JobsInvariance, PTL DEF Spec, ImplementsGate, Gate!Spec
-----------------------------------------------------------------------------
(* What is on file *)

Types ==
    /\ queue \in Seq(Jobs) /\ marker \in Jobs \cup {None} /\ file \in Seq(Jobs)
    /\ slot \in [Kinds -> Jobs \cup {None}]
    /\ \A k \in Kinds : slot[k] # None => KindOf[slot[k]] = k
    /\ resolving \in BOOLEAN /\ clearing \in BOOLEAN /\ up \in BOOLEAN
    /\ stop \subseteq Kinds /\ cancels \subseteq Kinds \cup Jobs
    /\ disp \in {"off", "poll", "check", "go"} /\ checked \in Jobs \cup {None}
    /\ crashes \in 0 .. MaxCrashes
    /\ fate \in [Jobs -> Fates] /\ forgotten \subseteq Jobs

\* No entry stands twice.
Once(s) == \A i, j \in DOMAIN s : s[i] = s[j] => i = j

\* The file is what the process has in memory, or what it had when it went.
FileIsSaved ==
    /\ Once(queue) /\ Once(file)
    /\ up => file = Saved(marker, queue)
    /\ ~up => queue = <<>> /\ marker = None /\ cancels = {} /\ disp = "off"

\* A request waits exactly as long as it stands in the queue; what is on file
\* besides is the dispatched job, or was when the process went.
WaitingIsQueued ==
    /\ up => /\ \A j \in Jobs : fate[j] = "waiting" <=> j \in Queued
             /\ marker # None => fate[marker] \in {"dispatched", "over"}
    /\ ~up => \A j \in Jobs :
                /\ fate[j] = "waiting" => j \in ToSet(file)
                /\ j \in ToSet(file) => fate[j] \in {"waiting", "killed", "over"}

\* A request is at work exactly as long as a runtime has it.
WorkIsInSlots ==
    \A j \in Jobs : fate[j] \in {"live", "dispatched"} <=> slot[KindOf[j]] = j

\* A dispatched job is the marker, and still on file after a crash, unless a
\* cancel took it away.
DispatchedIsMarked ==
    /\ \A j \in Jobs \ forgotten :
         /\ fate[j] = "dispatched" => marker = j
         /\ fate[j] = "killed" => ~up /\ j \in ToSet(file)
    /\ disp = "check" => \A j \in Jobs : fate[j] # "dispatched"

\* What a cancel is about has begun, and is not on file when the cancel is over.
CancelledHasBegun ==
    /\ \A j \in cancels \cap Jobs : KindOf[j] = Smart /\ fate[j] \in {"live", "dispatched", "over"}
    /\ \A j \in forgotten : fate[j] # "new" /\ j \notin ToSet(file)

QueueInv ==
    Types /\ FileIsSaved /\ WaitingIsQueued /\ WorkIsInSlots /\ DispatchedIsMarked
    /\ CancelledHasBegun

\* What Saved puts on file: the queue, and the marker before it.
LEMMA SavedHolds ==
  ASSUME NEW q \in Seq(Jobs), NEW m \in Jobs \cup {None}, Once(q), m \notin ToSet(q)
  PROVE  /\ Saved(m, q) \in Seq(Jobs) /\ Once(Saved(m, q))
         /\ ToSet(Saved(m, q)) = ToSet(q) \cup ({m} \ {None})
<1> None \notin Jobs
  BY QueueAssumption
<1>1. CASE m = None
  BY <1>1 DEF Saved, ToSet
<1>2. CASE m # None
  <2> DEFINE s == <<m>> \o q
  <2>1. /\ s \in Seq(Jobs) /\ Len(s) = Len(q) + 1 /\ Len(q) \in Nat
        /\ s[1] = m /\ \A i \in 2..Len(s) : s[i] = q[i - 1]
    BY <1>2
  <2>2. DOMAIN s = 1..Len(s) /\ DOMAIN q = 1..Len(q)
    BY <2>1
  <2> HIDE DEF s
  <2>3. \A i \in 1..Len(s) : i = 1 \/ (i \in 2..Len(s) /\ i - 1 \in 1..Len(q))
    BY <2>1
  <2>4. \A i \in 1..Len(q) : i + 1 \in 2..Len(s) /\ (i + 1) - 1 = i
    BY <2>1
  <2>5. ToSet(s) = ToSet(q) \cup {m}
    <3>1. ASSUME NEW x \in ToSet(s) PROVE x \in ToSet(q) \cup {m}
      BY <2>1, <2>2, <2>3, <3>1 DEF ToSet
    <3>2. m \in ToSet(s)
      BY <2>1, <2>2 DEF ToSet
    <3>3. ASSUME NEW x \in ToSet(q) PROVE x \in ToSet(s)
      <4>1. PICK i \in 1..Len(q) : x = q[i]
        BY <2>2 DEF ToSet
      <4>2. x = s[i + 1] /\ i + 1 \in DOMAIN s
        BY <2>1, <2>2, <2>4, <4>1
      <4>3. QED
        BY <4>2 DEF ToSet
    <3>4. QED
      BY <3>1, <3>2, <3>3
  <2>6. Once(s)
    <3>1. ASSUME NEW i \in 1..Len(s), NEW j \in 1..Len(s), s[i] = s[j] PROVE i = j
      <4>1. CASE i = 1 \/ j = 1
        BY <2>1, <2>2, <2>3, <3>1, <4>1 DEF ToSet
      <4>2. CASE i # 1 /\ j # 1
        <5>1. q[i - 1] = q[j - 1] /\ i - 1 \in DOMAIN q /\ j - 1 \in DOMAIN q
          BY <2>1, <2>2, <2>3, <3>1, <4>2
        <5>2. i - 1 = j - 1
          BY <5>1 DEF Once
        <5>3. QED
          BY <5>2
      <4>3. QED
        BY <4>1, <4>2
    <3>2. QED
      BY <2>2, <3>1 DEF Once
  <2>7. QED
    BY <1>2, <2>1, <2>5, <2>6 DEF Saved, s
<1>3. QED
  BY <1>1, <1>2

\* A new entry at the end.
LEMMA AppendHolds ==
  ASSUME NEW q \in Seq(Jobs), NEW j \in Jobs, Once(q), j \notin ToSet(q)
  PROVE  /\ Append(q, j) \in Seq(Jobs) /\ Once(Append(q, j))
         /\ ToSet(Append(q, j)) = ToSet(q) \cup {j}
<1> DEFINE s == Append(q, j)
<1>1. /\ s \in Seq(Jobs) /\ Len(s) = Len(q) + 1 /\ Len(q) \in Nat
      /\ s[Len(q) + 1] = j /\ \A i \in 1..Len(q) : s[i] = q[i]
      /\ DOMAIN s = 1..Len(q) + 1 /\ DOMAIN q = 1..Len(q)
  OBVIOUS
<1> HIDE DEF s
<1>2. \A i \in 1..Len(q) + 1 : i \in 1..Len(q) \/ i = Len(q) + 1
  BY <1>1
<1>3. Len(q) + 1 \in 1..Len(q) + 1 /\ 1..Len(q) \subseteq 1..Len(q) + 1
  BY <1>1
<1>4. ToSet(s) = ToSet(q) \cup {j}
  BY <1>1, <1>2, <1>3 DEF ToSet
<1>5. Once(s)
  BY <1>1, <1>2 DEF Once, ToSet
<1>6. QED
  BY <1>1, <1>4, <1>5 DEF s

\* The first entry taken away.
LEMMA TailHolds ==
  ASSUME NEW q \in Seq(Jobs), q # <<>>, Once(q)
  PROVE  /\ Head(q) \in Jobs /\ Head(q) \in ToSet(q)
         /\ Tail(q) \in Seq(Jobs) /\ Once(Tail(q))
         /\ ToSet(Tail(q)) = ToSet(q) \ {Head(q)}
<1> DEFINE t == Tail(q)
<1>1. /\ t \in Seq(Jobs) /\ Len(q) \in Nat /\ Len(q) > 0
      /\ DOMAIN t = 1..Len(q) - 1 /\ DOMAIN q = 1..Len(q)
      /\ \A i \in 1..Len(q) - 1 : t[i] = q[i + 1]
      /\ Head(q) = q[1]
  OBVIOUS
<1> HIDE DEF t
<1>2. \A i \in 1..Len(q) - 1 : i + 1 \in 1..Len(q) /\ i + 1 # 1
  BY <1>1
<1>3. \A i \in 1..Len(q) : i # 1 => i - 1 \in 1..Len(q) - 1 /\ (i - 1) + 1 = i
  BY <1>1
<1>4. 1 \in DOMAIN q
  BY <1>1
<1>5. Once(t)
  <2>1. ASSUME NEW i \in 1..Len(q) - 1, NEW j \in 1..Len(q) - 1, t[i] = t[j] PROVE i = j
    <3>1. i + 1 = j + 1
      BY <1>1, <1>2, <2>1 DEF Once
    <3>2. QED
      BY <3>1
  <2>2. QED
    BY <1>1, <2>1 DEF Once
<1>6. ASSUME NEW x \in ToSet(t) PROVE x \in ToSet(q) \ {Head(q)}
  <2>1. PICK i \in 1..Len(q) - 1 : x = q[i + 1]
    BY <1>1 DEF ToSet
  <2>2. QED
    BY <1>1, <1>2, <1>4, <2>1 DEF ToSet, Once
<1>7. ASSUME NEW x \in ToSet(q) \ {Head(q)} PROVE x \in ToSet(t)
  <2>1. PICK i \in 1..Len(q) : x = q[i]
    BY <1>1 DEF ToSet
  <2>2. i # 1
    BY <1>1, <2>1
  <2>3. x = t[i - 1] /\ i - 1 \in DOMAIN t
    BY <1>1, <1>3, <2>1, <2>2
  <2>4. QED
    BY <2>3 DEF ToSet
<1>8. QED
  BY <1>1, <1>4, <1>5, <1>6, <1>7 DEF t, ToSet

\* What is picked from a queue.
LEMMA PickedHolds ==
  ASSUME NEW q \in Seq(Jobs), NEW P, Once(q)
  PROVE  /\ Pick(q, P) \in Seq(Jobs) /\ Once(Pick(q, P))
         /\ ToSet(Pick(q, P)) = {q[p] : p \in DOMAIN q \cap P}
<1>1. /\ Pick(q, P) \in Seq(Jobs)
      /\ ToSet(Pick(q, P)) = {q[p] : p \in DOMAIN q \cap P}
  BY PickHolds DEF ToSet
<1>2. Once(Pick(q, P))
  BY PickHolds DEF Once
<1>3. QED
  BY <1>1, <1>2

\* While the process runs, the file holds the queue and the marker.
LEMMA FileHolds ==
  ASSUME QueueInv, up
  PROVE  ToSet(file) = Queued \cup ({marker} \ {None}) /\ marker \notin Queued
<1>1. marker \notin Queued
  <2>1. Queued \subseteq Jobs
    BY DEF QueueInv, Types, Queued, ToSet
  <2>2. QED
    BY <2>1, QueueAssumption DEF QueueInv, Types, WaitingIsQueued
<1>2. QED
  BY <1>1, SavedHolds DEF QueueInv, Types, FileIsSaved, Queued

\* A step that saves what it has made of the queue and the marker.
LEMMA FileFollows ==
  ASSUME (queue \in Seq(Jobs))', (marker \in Jobs \cup {None})', Once(queue)',
         (marker \notin Queued)', up', file' = Saved(marker', queue')
  PROVE  /\ FileIsSaved' /\ (file \in Seq(Jobs))'
         /\ ToSet(file)' = Queued' \cup ({marker'} \ {None})
<1>1. /\ Saved(marker', queue') \in Seq(Jobs) /\ Once(Saved(marker', queue'))
      /\ ToSet(Saved(marker', queue')) = ToSet(queue') \cup ({marker'} \ {None})
  BY SavedHolds DEF Queued
<1>2. QED
  BY <1>1 DEF FileIsSaved, Queued

\* The steps that leave queue, marker and file as they are.
LEMMA QuietKeeps ==
  ASSUME QueueInv, 
         \/ \E j \in Jobs : StartNow(j) \/ CancelRun(j)
         \/ \E kind \in Kinds : CancelLive(kind) \/ JobEnds(kind)
         \/ ClearStarts \/ ClearEnds \/ BatchResolves
         \/ PollHead \/ CheckPasses \/ DispatchWaits
         \/ UNCHANGED vars
  PROVE  QueueInv'
<1> USE QueueAssumption
<1>0. /\ Types /\ FileIsSaved /\ WaitingIsQueued /\ WorkIsInSlots /\ DispatchedIsMarked
      /\ CancelledHasBegun
  BY DEF QueueInv
<1>1. UNCHANGED <<queue, marker, file, up, crashes, forgotten>>
  BY DEF StartNow, CancelRun, CancelLive, JobEnds, ClearStarts, ClearEnds, BatchResolves,
     PollHead, CheckPasses, DispatchWaits, vars, memory
<1>2. CASE UNCHANGED vars
  BY <1>0, <1>2 DEF QueueInv, Types, FileIsSaved, WaitingIsQueued, WorkIsInSlots, DispatchedIsMarked,
     CancelledHasBegun, Queued, vars, memory
<1>3. ASSUME NEW j \in Jobs, StartNow(j) PROVE QueueInv'
  <2>1. /\ up /\ fate[j] = "new" /\ Idle /\ KindOf[j] \in Kinds
        /\ slot' = [slot EXCEPT ![KindOf[j]] = j] /\ stop' \subseteq stop
        /\ resolving' \in BOOLEAN
        /\ fate' = [i \in Jobs |-> IF i = j THEN "live" ELSE fate[i]]
        /\ UNCHANGED <<cancels, disp, checked, clearing>>
    BY <1>0, <1>3 DEF StartNow, Free, Occupy, Fated, Types
  <2>2. Types'
    BY <1>0, <1>1, <2>1 DEF Types, Fates
  <2>3. FileIsSaved'
    BY <1>0, <1>1, <2>1 DEF FileIsSaved
  <2>4. WaitingIsQueued'
    BY <1>0, <1>1, <2>1 DEF WaitingIsQueued, Queued, Types
  <2>5. WorkIsInSlots'
    BY <1>0, <2>1 DEF WorkIsInSlots, Types, Idle
  <2>6. DispatchedIsMarked'
    BY <1>0, <1>1, <2>1 DEF DispatchedIsMarked, Types
  <2>7. CancelledHasBegun'
    BY <1>0, <1>1, <2>1 DEF CancelledHasBegun, Types
  <2>8. QED
    BY <2>2, <2>3, <2>4, <2>5, <2>6, <2>7 DEF QueueInv
<1>4. ASSUME NEW kind \in Kinds, JobEnds(kind) PROVE QueueInv'
  <2> DEFINE j == slot[kind]
  <2>1. /\ j \in Jobs /\ KindOf[j] = kind
        /\ slot' = [slot EXCEPT ![kind] = None] /\ stop' \subseteq stop
        /\ resolving' \in BOOLEAN
        /\ fate' = [i \in Jobs |-> IF i = j THEN "over" ELSE fate[i]]
        /\ UNCHANGED <<cancels, disp, checked, clearing>>
    BY <1>0, <1>4 DEF JobEnds, Fated, Types
  <2>a. fate[j] \in {"live", "dispatched"}
    BY <1>0, <2>1 DEF WorkIsInSlots
  <2> HIDE DEF j
  <2>2. Types'
    BY <1>0, <1>1, <2>1 DEF Types, Fates
  <2>3. FileIsSaved'
    BY <1>0, <1>1, <2>1 DEF FileIsSaved
  <2>4. WaitingIsQueued'
    BY <1>0, <1>1, <2>1, <2>a DEF WaitingIsQueued, Queued, Types
  <2>5. WorkIsInSlots'
    <3>1. j = slot[kind]
      BY DEF j
    <3>2. QED
      BY <1>0, <2>1, <3>1 DEF WorkIsInSlots, Types
  <2>6. DispatchedIsMarked'
    BY <1>0, <1>1, <2>1 DEF DispatchedIsMarked, Types
  <2>7. CancelledHasBegun'
    BY <1>0, <1>1, <2>1, <2>a DEF CancelledHasBegun, Types
  <2>8. QED
    BY <2>2, <2>3, <2>4, <2>5, <2>6, <2>7 DEF QueueInv
<1>5. ASSUME NEW j \in Jobs, CancelRun(j) PROVE QueueInv'
  <2>1. /\ up /\ slot[Smart] = j /\ KindOf[j] = Smart
        /\ stop' = stop \cup {Smart} /\ cancels' = cancels \cup {j}
        /\ UNCHANGED <<slot, resolving, disp, checked, clearing, fate>>
    BY <1>0, <1>5 DEF CancelRun, Types
  <2>a. fate[j] \in {"live", "dispatched"}
    BY <1>0, <2>1 DEF WorkIsInSlots
  <2>2. Types'
    BY <1>0, <1>1, <2>1 DEF Types
  <2>3. FileIsSaved' /\ WaitingIsQueued' /\ WorkIsInSlots' /\ DispatchedIsMarked'
    BY <1>0, <1>1, <2>1 DEF FileIsSaved, WaitingIsQueued, Queued, WorkIsInSlots, DispatchedIsMarked
  <2>4. CancelledHasBegun'
    BY <1>0, <1>1, <2>1, <2>a DEF CancelledHasBegun
  <2>5. QED
    BY <2>2, <2>3, <2>4 DEF QueueInv
<1>6. ASSUME NEW kind \in Kinds, CancelLive(kind) PROVE QueueInv'
  <2>1. /\ up /\ cancels' = cancels \ {kind} /\ stop' \subseteq stop \cup {kind}
        /\ UNCHANGED <<slot, resolving, disp, checked, clearing, fate>>
    BY <1>6 DEF CancelLive
  <2>2. Types'
    BY <1>0, <1>1, <2>1 DEF Types
  <2>3. FileIsSaved' /\ WaitingIsQueued' /\ WorkIsInSlots' /\ DispatchedIsMarked' /\ CancelledHasBegun'
    BY <1>0, <1>1, <2>1 DEF FileIsSaved, WaitingIsQueued, Queued, WorkIsInSlots, DispatchedIsMarked,
       CancelledHasBegun
  <2>4. QED
    BY <2>2, <2>3 DEF QueueInv
<1>7. CASE ClearStarts \/ ClearEnds \/ BatchResolves
  <2>1. /\ stop' \subseteq stop /\ resolving' \in BOOLEAN /\ clearing' \in BOOLEAN
        /\ UNCHANGED <<slot, cancels, disp, checked, fate>>
    BY <1>0, <1>7 DEF ClearStarts, ClearEnds, BatchResolves, Types
  <2>2. Types'
    BY <1>0, <1>1, <2>1 DEF Types
  <2>3. FileIsSaved' /\ WaitingIsQueued' /\ WorkIsInSlots' /\ DispatchedIsMarked' /\ CancelledHasBegun'
    BY <1>0, <1>1, <2>1 DEF FileIsSaved, WaitingIsQueued, Queued, WorkIsInSlots, DispatchedIsMarked,
       CancelledHasBegun
  <2>4. QED
    BY <2>2, <2>3 DEF QueueInv
<1>8. CASE PollHead \/ CheckPasses \/ DispatchWaits
  <2>1. /\ disp \in {"poll", "check", "go"} /\ disp' \in {"poll", "check", "go"}
        /\ disp' = "check" => Idle
        /\ checked' \in Jobs \cup {None}
        /\ UNCHANGED <<slot, resolving, stop, cancels, clearing, fate>>
    BY <1>0, <1>8 DEF PollHead, CheckPasses, DispatchWaits, Types
  <2>2. Types'
    BY <1>0, <1>1, <2>1 DEF Types
  <2>3. up
    BY <1>0, <2>1 DEF FileIsSaved
  <2>4. DispatchedIsMarked'
    <3>1. Idle => \A j \in Jobs : fate[j] # "dispatched"
      BY <1>0 DEF Idle, WorkIsInSlots, Types
    <3>2. QED
      BY <1>0, <1>1, <2>1, <3>1 DEF DispatchedIsMarked
  <2>5. FileIsSaved' /\ WaitingIsQueued' /\ WorkIsInSlots' /\ CancelledHasBegun'
    BY <1>0, <1>1, <2>1, <2>3 DEF FileIsSaved, WaitingIsQueued, Queued, WorkIsInSlots, CancelledHasBegun
  <2>6. QED
    BY <2>2, <2>4, <2>5 DEF QueueInv
<1>9. QED
  BY <1>2, <1>3, <1>4, <1>5, <1>6, <1>7, <1>8

\* A request joins the queue, or is answered with the place of one like it.
LEMMA EnqueueKeeps ==
  ASSUME QueueInv, NEW j \in Jobs, Enqueue(j)
  PROVE  QueueInv'
<1> USE QueueAssumption
<1>0. /\ Types /\ FileIsSaved /\ WaitingIsQueued /\ WorkIsInSlots /\ DispatchedIsMarked
      /\ CancelledHasBegun
  BY DEF QueueInv
<1>1. /\ up /\ up' /\ fate[j] = "new"
      /\ UNCHANGED <<marker, slot, resolving, stop, cancels, checked, clearing, up, crashes, forgotten>>
  BY DEF Enqueue, Free
<1>2. KindOf[j] \in Kinds /\ slot[KindOf[j]] # j
  BY <1>0, <1>1 DEF WorkIsInSlots
<1>3. CASE fate' = Fated({j}, "merged") /\ UNCHANGED <<queue, file, disp>>
  <2>1. fate' = [i \in Jobs |-> IF i = j THEN "merged" ELSE fate[i]]
    BY <1>3 DEF Fated
  <2>a. fate'[j] = "merged" /\ \A i \in Jobs : i # j => fate'[i] = fate[i]
    BY <2>1
  <2>2. Types'
    <3>1. fate' \in [Jobs -> Fates]
      BY <1>0, <2>1 DEF Types, Fates
    <3>2. QED
      BY <1>0, <1>1, <1>3, <3>1 DEF Types
  <2>3. FileIsSaved'
    BY <1>0, <1>1, <1>3 DEF FileIsSaved
  <2>4. WaitingIsQueued'
    BY <1>0, <1>1, <1>3, <2>1 DEF WaitingIsQueued, Queued, Types
  <2>5. WorkIsInSlots'
    BY <1>0, <1>1, <1>2, <2>1 DEF WorkIsInSlots, Types
  <2>6. DispatchedIsMarked' /\ CancelledHasBegun'
    <3>1. forgotten \subseteq Jobs
      BY <1>0 DEF Types
    <3>2. QED
      BY <1>0, <1>1, <1>3, <2>a, <3>1 DEF DispatchedIsMarked, CancelledHasBegun
  <2>7. QED
    BY <2>2, <2>3, <2>4, <2>5, <2>6 DEF QueueInv
<1>4. CASE /\ queue' = Append(queue, j)
           /\ file' = Saved(marker, queue')
           /\ fate' = Fated({j}, "waiting")
           /\ disp' = IF disp = "off" THEN "poll" ELSE disp
  <2>0. j \notin Queued /\ marker # j
    BY <1>0, <1>1 DEF WaitingIsQueued
  <2>1. fate' = [i \in Jobs |-> IF i = j THEN "waiting" ELSE fate[i]]
    BY <1>4 DEF Fated
  <2>2. (queue \in Seq(Jobs))' /\ Once(queue)' /\ Queued' = Queued \cup {j}
    BY <1>0, <1>4, <2>0, AppendHolds DEF Types, FileIsSaved, Queued
  <2>3. /\ FileIsSaved' /\ (file \in Seq(Jobs))'
        /\ ToSet(file)' = Queued' \cup ({marker'} \ {None})
    <3>1. marker \notin Queued
      BY <1>0, <1>1, FileHolds
    <3>2. (marker \notin Queued)' /\ (marker \in Jobs \cup {None})'
      BY <1>0, <1>1, <2>0, <2>2, <3>1 DEF Types
    <3>3. QED
      BY <1>1, <1>4, <2>2, <3>2, FileFollows
  <2>4. Types'
    <3>1. fate' \in [Jobs -> Fates]
      BY <1>0, <2>1 DEF Types, Fates
    <3>2. disp' \in {"off", "poll", "check", "go"}
      BY <1>0, <1>4 DEF Types
    <3>3. QED
      BY <1>0, <1>1, <2>2, <2>3, <3>1, <3>2 DEF Types
  <2>5. WaitingIsQueued'
    BY <1>0, <1>1, <2>1, <2>2 DEF WaitingIsQueued, Types
  <2>6. WorkIsInSlots'
    BY <1>0, <1>1, <1>2, <2>1 DEF WorkIsInSlots, Types
  <2>7. DispatchedIsMarked'
    <3>1. \A i \in Jobs : fate'[i] = fate[i] \/ fate'[i] = "waiting"
      BY <2>1
    <3>2. disp' = "check" => disp = "check"
      BY <1>4
    <3>3. QED
      BY <1>0, <1>1, <3>1, <3>2 DEF DispatchedIsMarked
  <2>8. CancelledHasBegun'
    <3>1. \A i \in forgotten : i \notin ToSet(file)'
      BY <1>0, <1>1, <2>2, <2>3, FileHolds DEF CancelledHasBegun
    <3>2. QED
      BY <1>0, <1>1, <2>1, <3>1 DEF CancelledHasBegun, Types
  <2>9. QED
    BY <2>3, <2>4, <2>5, <2>6, <2>7, <2>8 DEF QueueInv
<1>5. QED
  BY <1>3, <1>4 DEF Enqueue

\* A cancel takes entries out of the queue, and the marker with them or alone: "gone"
\* are the entries, "about" the jobs the cancel is about.
LEMMA TakenOutKeeps ==
  ASSUME QueueInv, up, up', NEW gone \in SUBSET Jobs, NEW about \in SUBSET Jobs,
         UNCHANGED <<slot, resolving, stop, disp, checked, clearing, up, crashes>>,
         queue' \in Seq(Jobs), Once(queue'), Queued' = Queued \ gone, gone \subseteq Queued,
         marker' \in {marker, None}, file' = Saved(marker', queue'),
         fate' = Fated(gone, "dropped"), forgotten' = forgotten \cup about,
         \A j \in about : fate[j] \in {"live", "dispatched", "over"} /\ marker' # j,
         marker' # marker /\ fate[marker] = "dispatched" => marker \in about,
         cancels' \subseteq Kinds \cup cancels
  PROVE  QueueInv'
<1> USE QueueAssumption
<1>0. /\ Types /\ FileIsSaved /\ WaitingIsQueued /\ WorkIsInSlots /\ DispatchedIsMarked
      /\ CancelledHasBegun
  BY DEF QueueInv
<1>1. fate' = [i \in Jobs |-> IF i \in gone THEN "dropped" ELSE fate[i]]
  BY DEF Fated
<1>2. \A i \in gone : fate[i] = "waiting"
  BY <1>0 DEF WaitingIsQueued
<1>3. /\ FileIsSaved' /\ (file \in Seq(Jobs))'
      /\ ToSet(file)' = Queued' \cup ({marker'} \ {None})
  <2>1. marker \notin Queued /\ None \notin Queued
    BY <1>0, FileHolds DEF Types, Queued, ToSet
  <2>2. (marker \notin Queued)' /\ (marker \in Jobs \cup {None})'
    BY <1>0, <2>1 DEF Types
  <2>3. QED
    BY <2>2, FileFollows
<1>4. Types'
  <2>1. fate' \in [Jobs -> Fates]
    BY <1>0, <1>1 DEF Types, Fates
  <2>2. QED
    BY <1>0, <1>3, <2>1 DEF Types
<1>5. WaitingIsQueued'
  BY <1>0, <1>1, <1>2 DEF WaitingIsQueued, Types
<1>6. WorkIsInSlots'
  BY <1>0, <1>1, <1>2 DEF WorkIsInSlots, Types
<1>7. DispatchedIsMarked'
  BY <1>0, <1>1, <1>2 DEF DispatchedIsMarked, Types
<1>8. CancelledHasBegun'
  <2>1. ToSet(file)' \subseteq ToSet(file)
    BY <1>0, <1>3, FileHolds DEF Types
  <2>2. \A j \in about : j \notin Queued
    BY <1>0 DEF WaitingIsQueued
  <2>3. \A j \in about : j \notin ToSet(file)'
    BY <1>3, <2>2
  <2>4. \A j \in forgotten' : fate'[j] # "new" /\ j \notin ToSet(file)'
    BY <1>0, <1>1, <2>1, <2>3 DEF CancelledHasBegun, Types
  <2>5. \A j \in cancels' \cap Jobs : KindOf[j] = Smart /\ fate'[j] \in {"live", "dispatched", "over"}
    BY <1>0, <1>1, <1>2 DEF CancelledHasBegun
  <2>6. QED
    BY <2>4, <2>5 DEF CancelledHasBegun
<1>9. QED
  BY <1>3, <1>4, <1>5, <1>6, <1>7, <1>8 DEF QueueInv

\* The cancels of queued, waiting and running jobs keep the invariant.
LEMMA CancelKeeps ==
  ASSUME QueueInv,
         \/ \E kind \in Kinds : CancelQueued(kind)
         \/ \E j \in Jobs : CancelWaiting(j) \/ CancelRunForgets(j)
  PROVE  QueueInv'
<1> USE QueueAssumption
<1>0. /\ Types /\ FileIsSaved /\ WaitingIsQueued /\ WorkIsInSlots /\ DispatchedIsMarked
      /\ CancelledHasBegun
  BY DEF QueueInv
<1>1. ASSUME NEW kind \in Kinds, CancelQueued(kind) PROVE QueueInv'
  <2> DEFINE gone == {j \in Queued : KindOf[j] = kind}
             about == {slot[kind]} \ {None}
  <2>1. /\ up /\ up' /\ cancels' = cancels \cup {kind}
        /\ queue' = Forget(kind, queue) /\ marker' = Unmarked(kind)
        /\ file' = Saved(marker', queue') /\ fate' = Fated(gone, "dropped")
        /\ forgotten' = forgotten \cup about
        /\ UNCHANGED <<slot, resolving, stop, disp, checked, clearing, up, crashes>>
    BY <1>1 DEF CancelQueued, Touched
  <2>2. queue' \in Seq(Jobs) /\ Once(queue') /\ Queued' = Queued \ gone
    <3> DEFINE P == {p \in DOMAIN queue : KindOf[queue[p]] # kind}
    <3>1. /\ Pick(queue, P) \in Seq(Jobs) /\ Once(Pick(queue, P))
          /\ ToSet(Pick(queue, P)) = {queue[p] : p \in DOMAIN queue \cap P}
      BY <1>0, PickedHolds DEF Types, FileIsSaved
    <3>2. {queue[p] : p \in DOMAIN queue \cap P} = Queued \ gone
      BY DEF Queued, ToSet
    <3>3. QED
      BY <2>1, <3>1, <3>2 DEF Forget, Queued
  <2>3. gone \subseteq Queued /\ gone \in SUBSET Jobs /\ about \in SUBSET Jobs
    BY <1>0 DEF Types, Queued, ToSet
  <2>4. marker' \in {marker, None} /\ (marker' # marker => marker # None /\ KindOf[marker] = kind)
    BY <2>1 DEF Unmarked
  <2>5. \A j \in about : fate[j] \in {"live", "dispatched", "over"} /\ KindOf[j] = kind /\ marker' # j
    BY <1>0, <2>1 DEF Types, WorkIsInSlots, Unmarked
  <2>6. marker' # marker /\ fate[marker] = "dispatched" => marker \in about
    BY <1>0, <2>4 DEF WorkIsInSlots, Types
  <2> HIDE DEF gone, about
  <2>7. QED
    BY <2>1, <2>2, <2>3, <2>4, <2>5, <2>6, TakenOutKeeps
<1>2. ASSUME NEW j \in Jobs, CancelWaiting(j) PROVE QueueInv'
  <2>1. /\ up /\ up' /\ j \in Queued
        /\ queue' = Pick(queue, {p \in DOMAIN queue : queue[p] # j})
        /\ file' = Saved(marker', queue') /\ fate' = Fated({j}, "dropped")
        /\ UNCHANGED <<marker, slot, resolving, stop, cancels, disp, checked, clearing, up, crashes, forgotten>>
    BY <1>2 DEF CancelWaiting
  <2>2. queue' \in Seq(Jobs) /\ Once(queue') /\ Queued' = Queued \ {j}
    <3> DEFINE P == {p \in DOMAIN queue : queue[p] # j}
    <3>1. /\ Pick(queue, P) \in Seq(Jobs) /\ Once(Pick(queue, P))
          /\ ToSet(Pick(queue, P)) = {queue[p] : p \in DOMAIN queue \cap P}
      BY <1>0, PickedHolds DEF Types, FileIsSaved
    <3>2. {queue[p] : p \in DOMAIN queue \cap P} = Queued \ {j}
      BY DEF Queued, ToSet
    <3>3. QED
      BY <2>1, <3>1, <3>2 DEF Queued
  <2>3. /\ {j} \in SUBSET Jobs /\ {} \in SUBSET Jobs /\ {j} \subseteq Queued
        /\ forgotten' = forgotten \cup {} /\ marker' \in {marker, None}
    BY <2>1
  <2>4. QED
    BY <2>1, <2>2, <2>3, TakenOutKeeps
<1>3. ASSUME NEW j \in Jobs, CancelRunForgets(j) PROVE QueueInv'
  <2> DEFINE about == ({j} \cup ({marker} \ {marker'})) \ {None}
  <2>1. /\ up /\ up' /\ j \in cancels /\ cancels' = cancels \ {j}
        /\ marker' = Unmarked(Smart) /\ file' = Saved(marker', queue')
        /\ forgotten' = forgotten \cup about
        /\ UNCHANGED <<queue, slot, resolving, stop, disp, checked, clearing, up, crashes, fate>>
    BY <1>3 DEF CancelRunForgets, Touched
  <2>2. /\ queue' \in Seq(Jobs) /\ Once(queue') /\ Queued' = Queued \ {}
        /\ {} \in SUBSET Jobs /\ {} \subseteq Queued /\ about \in SUBSET Jobs
    BY <1>0, <2>1 DEF Types, FileIsSaved, Queued
  <2>3. fate' = Fated({}, "dropped")
    BY <1>0, <2>1 DEF Fated, Types
  <2>4. marker' \in {marker, None} /\ (marker' # None => KindOf[marker'] # Smart)
    BY <2>1 DEF Unmarked
  <2>5. \A i \in about : fate[i] \in {"live", "dispatched", "over"} /\ marker' # i
    BY <1>0, <2>1, <2>4 DEF CancelledHasBegun, WaitingIsQueued
  <2>6. marker' # marker /\ fate[marker] = "dispatched" => marker \in about
    BY <2>4
  <2> HIDE DEF about
  <2>7. cancels' \subseteq Kinds \cup cancels
    BY <2>1
  <2>8. QED
    BY <2>1, <2>2, <2>3, <2>4, <2>5, <2>6, <2>7, TakenOutKeeps
<1>4. QED
  BY <1>1, <1>2, <1>3

\* The dispatcher's sections that save. What leaves the queue has been answered or is
\* the marker; the marker that goes is of a job that has ended.
LEMMA DispatcherKeeps ==
  ASSUME QueueInv, PollEmpty \/ CheckRefuses \/ DispatchStarts \/ DispatchFails
  PROVE  QueueInv'
<1> USE QueueAssumption
<1>0. /\ Types /\ FileIsSaved /\ WaitingIsQueued /\ WorkIsInSlots /\ DispatchedIsMarked
      /\ CancelledHasBegun
  BY DEF QueueInv
<1>n. Idle => \A j \in Jobs : fate[j] \notin {"live", "dispatched"}
  BY <1>0 DEF Idle, WorkIsInSlots, Types
<1>1. up /\ disp \in {"poll", "check", "go"}
  BY <1>0 DEF PollEmpty, CheckRefuses, DispatchStarts, DispatchFails, FileIsSaved
<1>h. ToSet(file) = Queued \cup ({marker} \ {None}) /\ marker \notin Queued /\ None \notin Queued
  <2>1. Queued \subseteq Jobs
    BY <1>0 DEF Types, Queued, ToSet
  <2>2. QED
    BY <1>1, <2>1, FileHolds
<1>2. CASE PollEmpty
  <2>1. /\ queue = <<>> /\ marker' = None /\ file' = <<>> /\ disp' = "off"
        /\ UNCHANGED <<queue, slot, resolving, stop, cancels, checked, clearing, up, crashes, fate, forgotten>>
    BY <1>2 DEF PollEmpty
  <2>2. Queued = {} /\ ToSet(file)' = {} /\ Once(file)' /\ Saved(marker', queue') = file'
    BY <2>1 DEF Queued, ToSet, Once, Saved
  <2>3. Types' /\ FileIsSaved'
    BY <1>0, <1>1, <2>1, <2>2 DEF Types, FileIsSaved
  <2>4. WaitingIsQueued' /\ WorkIsInSlots' /\ CancelledHasBegun'
    BY <1>0, <1>1, <2>1, <2>2 DEF WaitingIsQueued, WorkIsInSlots, CancelledHasBegun, Queued
  <2>5. DispatchedIsMarked'
    <3>1. marker' = marker \/ \A j \in Jobs : fate[j] # "dispatched"
      BY <1>2, <1>n DEF PollEmpty
    <3>2. QED
      BY <1>0, <1>1, <2>1, <3>1 DEF DispatchedIsMarked
  <2>6. QED
    BY <2>3, <2>4, <2>5 DEF QueueInv
<1>3. ASSUME queue # <<>>, DropHead("refused"), \A j \in Jobs : fate[j] # "dispatched",
             disp' = "poll", checked' = None,
             UNCHANGED <<slot, resolving, stop, cancels, clearing, up, crashes, forgotten>>
      PROVE  QueueInv'
  <2> DEFINE h == Head(queue)
  <2>1. /\ h \in Queued /\ h \in Jobs
        /\ queue' \in Seq(Jobs) /\ Once(queue') /\ Queued' = Queued \ {h}
    BY <1>0, <1>3, TailHolds DEF DropHead, Types, FileIsSaved, Queued
  <2>2. marker' = None /\ file' = Saved(marker', queue')
        /\ fate' = [i \in Jobs |-> IF i = h THEN "refused" ELSE fate[i]]
    BY <1>3 DEF DropHead, Fated
  <2>a. fate[h] = "waiting"
    BY <1>0, <1>1, <2>1 DEF WaitingIsQueued
  <2>b. fate'[h] = "refused" /\ \A i \in Jobs : i # h => fate'[i] = fate[i]
    BY <2>1, <2>2
  <2> HIDE DEF h
  <2>3. /\ FileIsSaved' /\ (file \in Seq(Jobs))'
        /\ ToSet(file)' = Queued' \cup ({marker'} \ {None})
    BY <1>1, <1>3, <1>h, <2>1, <2>2, FileFollows
  <2>4. Types'
    <3>1. fate' \in [Jobs -> Fates]
      BY <1>0, <2>2 DEF Types, Fates
    <3>2. QED
      BY <1>0, <1>3, <2>1, <2>2, <2>3, <3>1 DEF Types
  <2>5. WaitingIsQueued'
    BY <1>0, <1>1, <1>3, <2>1, <2>2, <2>b DEF WaitingIsQueued
  <2>6. WorkIsInSlots'
    BY <1>0, <1>3, <2>a, <2>b DEF WorkIsInSlots
  <2>7. DispatchedIsMarked'
    BY <1>0, <1>1, <1>3, <2>b DEF DispatchedIsMarked
  <2>8. CancelledHasBegun'
    <3>1. ToSet(file)' \subseteq ToSet(file) /\ forgotten \subseteq Jobs
      BY <1>0, <1>h, <2>1, <2>2, <2>3 DEF Types
    <3>2. QED
      BY <1>0, <1>3, <2>a, <2>b, <3>1 DEF CancelledHasBegun
  <2>9. QED
    BY <2>3, <2>4, <2>5, <2>6, <2>7, <2>8 DEF QueueInv
<1>4. CASE DispatchFails
  BY <1>3, <1>4, <1>n DEF DispatchFails, HeadMayStart
<1>5. CASE CheckRefuses
  <2>1. CASE queue # <<>> /\ Head(queue) = checked
    BY <1>0, <1>3, <1>5, <2>1 DEF CheckRefuses, DispatchedIsMarked
  <2>2. CASE ~(queue # <<>> /\ Head(queue) = checked)
    <3>1. /\ disp' = "go" /\ checked' = None
          /\ UNCHANGED <<queue, marker, file, fate, slot, resolving, stop, cancels, clearing, up,
                         crashes, forgotten>>
      BY <1>5, <2>2 DEF CheckRefuses
    <3>2. Types' /\ FileIsSaved'
      BY <1>0, <1>1, <3>1 DEF Types, FileIsSaved
    <3>3. WaitingIsQueued' /\ WorkIsInSlots' /\ DispatchedIsMarked' /\ CancelledHasBegun'
      BY <1>0, <3>1 DEF WaitingIsQueued, WorkIsInSlots, DispatchedIsMarked, CancelledHasBegun, Queued
    <3>4. QED
      BY <3>2, <3>3 DEF QueueInv
  <2>3. QED
    BY <2>1, <2>2
<1>6. CASE DispatchStarts
  <2> DEFINE h == Head(queue)
  <2>1. /\ Idle /\ queue # <<>> /\ disp' = "poll" /\ checked' = None /\ Occupy(h)
        /\ queue' = Tail(queue) /\ marker' = h /\ file' = Saved(marker', queue')
        /\ fate' = [i \in Jobs |-> IF i = h THEN "dispatched" ELSE fate[i]]
        /\ UNCHANGED <<cancels, clearing, up, crashes, forgotten>>
    BY <1>6 DEF DispatchStarts, HeadMayStart, Fated
  <2>2. /\ h \in Queued /\ h \in Jobs /\ KindOf[h] \in Kinds
        /\ queue' \in Seq(Jobs) /\ Once(queue') /\ Queued' = Queued \ {h}
    BY <1>0, <2>1, TailHolds DEF Types, FileIsSaved, Queued
  <2>a. fate[h] = "waiting"
    BY <1>0, <1>1, <2>2 DEF WaitingIsQueued
  <2>b. fate'[h] = "dispatched" /\ \A i \in Jobs : i # h => fate'[i] = fate[i]
    BY <2>1, <2>2
  <2>c. /\ slot' = [slot EXCEPT ![KindOf[h]] = h] /\ stop' \subseteq stop /\ resolving' \in BOOLEAN
    BY <1>0, <2>1 DEF Occupy, Types
  <2> HIDE DEF h
  <2>3. /\ FileIsSaved' /\ (file \in Seq(Jobs))'
        /\ ToSet(file)' = Queued' \cup ({marker'} \ {None})
    BY <1>1, <2>1, <2>2, FileFollows
  <2>4. Types'
    <3>1. fate' \in [Jobs -> Fates]
      BY <1>0, <2>1 DEF Types, Fates
    <3>2. slot' \in [Kinds -> Jobs \cup {None}]
          /\ \A k \in Kinds : slot'[k] # None => KindOf[slot'[k]] = k
      BY <1>0, <2>2, <2>c DEF Types
    <3>3. QED
      BY <1>0, <2>1, <2>2, <2>3, <2>c, <3>1, <3>2 DEF Types
  <2>5. WaitingIsQueued'
    BY <1>0, <1>1, <2>1, <2>2, <2>b DEF WaitingIsQueued
  <2>6. WorkIsInSlots'
    BY <1>0, <1>n, <2>1, <2>2, <2>b, <2>c DEF WorkIsInSlots, Types, Idle
  <2>7. DispatchedIsMarked'
    BY <1>0, <1>1, <1>n, <2>1, <2>b DEF DispatchedIsMarked
  <2>8. CancelledHasBegun'
    <3>1. ToSet(file)' \subseteq ToSet(file) /\ forgotten \subseteq Jobs
      BY <1>0, <1>h, <2>1, <2>2, <2>3 DEF Types
    <3>2. QED
      BY <1>0, <2>1, <2>a, <2>b, <3>1 DEF CancelledHasBegun
  <2>9. QED
    BY <2>3, <2>4, <2>5, <2>6, <2>7, <2>8 DEF QueueInv
<1>7. QED
  BY <1>2, <1>4, <1>5, <1>6

\* After a crash the file is what is left, and after a restart what is on file waits.
LEMMA CrashKeeps ==
  ASSUME QueueInv, Crash
  PROVE  QueueInv'
<1> USE QueueAssumption
<1>0. /\ Types /\ FileIsSaved /\ WaitingIsQueued /\ WorkIsInSlots /\ DispatchedIsMarked
      /\ CancelledHasBegun
  BY DEF QueueInv
<1>1. /\ up /\ ~up' /\ crashes < MaxCrashes /\ crashes' = crashes + 1
      /\ queue' = <<>> /\ marker' = None /\ slot' = [k \in Kinds |-> None]
      /\ resolving' = FALSE /\ stop' = {} /\ cancels' = {}
      /\ disp' = "off" /\ checked' = None /\ clearing' = FALSE
      /\ UNCHANGED <<file, forgotten>>
  BY DEF Crash
<1>2. \A j \in Jobs :
        /\ fate[j] = "live" => fate'[j] = "lost"
        /\ fate[j] = "dispatched" => fate'[j] = "killed"
        /\ fate[j] \notin {"live", "dispatched"} => fate'[j] = fate[j]
  BY DEF Crash
<1>3. Types'
  <2>1. fate' \in [Jobs -> Fates]
    <3>1. \A j \in Jobs : fate'[j] \in Fates
      BY <1>0, <1>2 DEF Types, Fates
    <3>2. fate' = [j \in Jobs |-> fate'[j]]
      BY DEF Crash
    <3>3. QED
      BY <3>1, <3>2
  <2>2. crashes' \in 0..MaxCrashes
    BY <1>0, <1>1 DEF Types
  <2>3. slot' \in [Kinds -> Jobs \cup {None}] /\ \A k \in Kinds : slot'[k] = None
    BY <1>1
  <2>4. queue' \in Seq(Jobs) /\ (file \in Seq(Jobs))' /\ (forgotten \subseteq Jobs)'
    BY <1>0, <1>1 DEF Types
  <2>5. /\ marker' \in Jobs \cup {None} /\ checked' \in Jobs \cup {None}
        /\ resolving' \in BOOLEAN /\ clearing' \in BOOLEAN /\ up' \in BOOLEAN
        /\ stop' \subseteq Kinds /\ cancels' \subseteq Kinds \cup Jobs
        /\ disp' \in {"off", "poll", "check", "go"}
    <3>1. up' = FALSE
      BY DEF Crash
    <3>2. QED
      BY <1>1, <3>1
  <2>6. \A k \in Kinds : slot'[k] # None => KindOf[slot'[k]] = k
    BY <2>3
  <2> HIDE QueueAssumption
  <2>7. QED
    BY <2>1, <2>2, <2>3, <2>4, <2>5, <2>6 DEF Types
<1>4. FileIsSaved'
  BY <1>0, <1>1 DEF FileIsSaved, Once
<1>5. ToSet(file) = Queued \cup ({marker} \ {None})
  BY <1>0, <1>1, FileHolds
<1>6. WaitingIsQueued'
  BY <1>0, <1>1, <1>2, <1>5 DEF WaitingIsQueued
<1>7. WorkIsInSlots'
  BY <1>0, <1>1, <1>2 DEF WorkIsInSlots, Types
<1>8. DispatchedIsMarked'
  BY <1>0, <1>1, <1>2, <1>5 DEF DispatchedIsMarked, Types
<1>9. CancelledHasBegun'
  BY <1>0, <1>1, <1>2 DEF CancelledHasBegun, Types
<1>10. QED
  BY <1>3, <1>4, <1>6, <1>7, <1>8, <1>9 DEF QueueInv

\* So does a restart of the program.
LEMMA RestartKeeps ==
  ASSUME QueueInv, Restart
  PROVE  QueueInv'
<1> USE QueueAssumption
<1>0. /\ Types /\ FileIsSaved /\ WaitingIsQueued /\ WorkIsInSlots /\ DispatchedIsMarked
      /\ CancelledHasBegun
  BY DEF QueueInv
<1>1. /\ ~up /\ up' /\ queue' = Collapsed(file) /\ file' = queue'
      /\ disp' \in {"off", "poll"}
      /\ UNCHANGED <<marker, slot, resolving, stop, cancels, checked, clearing, crashes, forgotten>>
      /\ marker = None
  BY <1>0 DEF Restart, FileIsSaved
<1>2. queue' \in Seq(Jobs) /\ Once(queue') /\ Queued' \subseteq ToSet(file)
  <2> DEFINE P == {p \in DOMAIN file : p = 1 \/ PrintOf[file[p - 1]] # PrintOf[file[p]]}
  <2>1. /\ Pick(file, P) \in Seq(Jobs) /\ Once(Pick(file, P))
        /\ ToSet(Pick(file, P)) = {file[p] : p \in DOMAIN file \cap P}
    BY <1>0, PickedHolds DEF Types, FileIsSaved
  <2>2. {file[p] : p \in DOMAIN file \cap P} \subseteq ToSet(file)
    BY DEF ToSet
  <2>3. QED
    BY <1>1, <2>1, <2>2 DEF Collapsed, Queued
<1>3. ToSet(file)' = Queued'
  BY <1>1 DEF Queued
<1>4. \A j \in Jobs :
        /\ j \in Queued' => fate'[j] = "waiting"
        /\ j \notin Queued' /\ j \in ToSet(file) => fate'[j] = "merged"
        /\ j \notin ToSet(file) => fate'[j] = fate[j]
  BY <1>2 DEF Restart, Queued
<1>5. Types'
  <2>1. fate' \in [Jobs -> Fates]
    <3>1. \A j \in Jobs : fate'[j] \in Fates
      BY <1>0, <1>4 DEF Types, Fates
    <3>2. fate' = [j \in Jobs |-> fate'[j]]
      BY DEF Restart
    <3>3. QED
      BY <3>1, <3>2
  <2>2. QED
    BY <1>0, <1>1, <1>2, <2>1 DEF Types
<1>6. FileIsSaved'
  BY <1>1, <1>2 DEF FileIsSaved, Saved
<1>7. WaitingIsQueued'
  BY <1>0, <1>1, <1>2, <1>4 DEF WaitingIsQueued
<1>8. WorkIsInSlots'
  BY <1>0, <1>1, <1>2, <1>4 DEF WorkIsInSlots, WaitingIsQueued
<1>9. DispatchedIsMarked'
  <2>1. \A j \in Jobs \ forgotten : fate'[j] \notin {"dispatched", "killed"}
    BY <1>0, <1>1, <1>2, <1>4 DEF DispatchedIsMarked
  <2>2. QED
    BY <1>1, <2>1 DEF DispatchedIsMarked
<1>10. CancelledHasBegun'
  BY <1>0, <1>1, <1>2, <1>3, <1>4 DEF CancelledHasBegun, FileIsSaved, Types
<1>11. QED
  BY <1>5, <1>6, <1>7, <1>8, <1>9, <1>10 DEF QueueInv

\* The file, the queue and what became of each request agree in every state.
THEOREM LedgerHolds == Spec => []QueueInv
<1>1. Init => QueueInv
  <2> SUFFICES ASSUME Init PROVE QueueInv
    OBVIOUS
  <2> USE QueueAssumption
  <2>1. Types
    <3>1. fate \in [Jobs -> Fates] /\ crashes \in 0..MaxCrashes
      BY DEF Init, Fates
    <3>2. slot \in [Kinds -> Jobs \cup {None}] /\ \A k \in Kinds : slot[k] = None
      BY DEF Init
    <3>3. queue \in Seq(Jobs) /\ file \in Seq(Jobs)
      BY DEF Init
    <3>4. QED
      BY <3>1, <3>2, <3>3 DEF Init, Types
  <2>2. FileIsSaved /\ WaitingIsQueued /\ WorkIsInSlots /\ DispatchedIsMarked /\ CancelledHasBegun
    BY DEF Init, FileIsSaved, Once, Saved, WaitingIsQueued, Queued, ToSet, WorkIsInSlots,
       DispatchedIsMarked, CancelledHasBegun
  <2>3. QED
    BY <2>1, <2>2 DEF QueueInv
<1>2. QueueInv /\ [Next]_vars => QueueInv'
  BY QuietKeeps, EnqueueKeeps, CancelKeeps, DispatcherKeeps, CrashKeeps, RestartKeeps
     DEF Next, Dispatcher
<1>3. QED
  BY <1>1, <1>2, PTL DEF Spec

\* Every variable keeps its type, and no request stands twice in what a restart would
\* find.
THEOREM QueueTypeCorrect == Spec => []TypeOK
<1>1. QueueInv => TypeOK
  <2> SUFFICES ASSUME QueueInv PROVE TypeOK
    OBVIOUS
  <2>1. Once(Saved(marker, queue))
    <3>1. CASE up
      BY <3>1 DEF QueueInv, FileIsSaved
    <3>2. CASE ~up
      BY <3>2 DEF QueueInv, FileIsSaved, Saved, Once
    <3>3. QED
      BY <3>1, <3>2
  <2>2. QED
    BY <2>1 DEF QueueInv, Types, TypeOK, Once
<1>2. QED
  BY <1>1, LedgerHolds, PTL

\* For any requests, any number of crashes and any mix of cancels: what waited, was
\* started from the queue or was killed at work is on file.
THEOREM NoneIsLost == Spec => []PromisedIsOnFile
<1>1. QueueInv => PromisedIsOnFile
  <2> SUFFICES ASSUME QueueInv, NEW j \in Jobs, j \notin forgotten,
                      fate[j] \in {"waiting", "dispatched", "killed"}
               PROVE  j \in ToSet(file)
    BY DEF PromisedIsOnFile
  <2>1. CASE up
    BY <2>1, FileHolds, QueueAssumption DEF QueueInv, WaitingIsQueued, DispatchedIsMarked
  <2>2. CASE ~up
    BY <2>2, QueueAssumption DEF QueueInv, FileIsSaved, WaitingIsQueued, DispatchedIsMarked
  <2>3. QED
    BY <2>1, <2>2 DEF QueueInv, Types
<1>2. QED
  BY <1>1, LedgerHolds, PTL

\* And what was taken back, could not be started, or was stopped by a cancel that is
\* over is not.
THEOREM NoneReturns == Spec => []AnsweredStaysDown
<1>1. QueueInv => AnsweredStaysDown
  <2> SUFFICES ASSUME QueueInv, NEW j \in Jobs,
                      fate[j] \in {"dropped", "refused"} \/ j \in forgotten
               PROVE  j \notin ToSet(file)
    BY DEF AnsweredStaysDown
  <2>1. CASE up
    BY <2>1, FileHolds DEF QueueInv, WaitingIsQueued, CancelledHasBegun
  <2>2. CASE ~up
    BY <2>2 DEF QueueInv, WaitingIsQueued, CancelledHasBegun
  <2>3. QED
    BY <2>1, <2>2 DEF QueueInv, Types
<1>2. QED
  BY <1>1, LedgerHolds, PTL

------------------------------------------------------------------------------
(* The tagging worker (TaggingRun)                                           *)

IdsAreFresh ==
    /\ handle <= active
    /\ status # "idle" => active > 0
    /\ \A r \in Runs : r > active => task[r] = "none"

\* The task of a run has got as far as the start of its process.
HasBegun(r) == task[r] \notin {"none", "scheduled", "setup"}

ProcessFollowsTask ==
    /\ \A r \in Runs : ~HasBegun(r) \/ task[r] = "unstarted" => proc[r] = "none"
    /\ handle # 0 => HasBegun(handle)

WaitsForItsOwn ==
    \A w \in waits : w[1] <= active /\ HasBegun(w[2]) /\ (crossed \/ w[1] = w[2])

StoppedIsPast ==
    crossed \/ \A r \in stopped : r < active \/ (r = active /\ HasBegun(r))

RunInv == /\ RunTypeOK
        /\ IdsAreFresh
        /\ ProcessFollowsTask
        /\ WaitsForItsOwn
        /\ StoppedIsPast
        /\ LiveWorkerIsHeld

\* The first state of a tagging run.
LEMMA RunInitInv == RunInit => RunInv
<1> SUFFICES ASSUME RunInit PROVE RunInv
  OBVIOUS
<1>1. mail \in [Runs -> Seq({"running"} \cup Over)]
  BY DEF RunInit
<1>2. flag \in BOOLEAN /\ crossed \in BOOLEAN
  BY DEF RunInit
<1>3. RunTypeOK
  BY <1>1, <1>2, BoundsAssumption DEF RunInit, RunTypeOK, Status, TaskPc
<1>4. QED
  BY <1>3 DEF RunInit, RunInv, IdsAreFresh, ProcessFollowsTask, WaitsForItsOwn,
     StoppedIsPast, LiveWorkerIsHeld, Watched, Alive, Runs, HasBegun

\* The flags, and the queues between workers and relay loops.
LEMMA MailKeeps ==
  ASSUME RunInv, RunNext
  PROVE  /\ flag' \in BOOLEAN /\ crossed' \in BOOLEAN
         /\ mail' \in [Runs -> Seq({"running"} \cup Over)]
<1> USE DEF RunInv, RunTypeOK, shared, worker
<1>1. flag' \in BOOLEAN /\ crossed' \in BOOLEAN
  BY DEF RunNext, StartTagging, CancelBeforeSpawn, CancelAsks, ResetProgress, ScheduleFails,
     TaskStep, EnterTask, SetupFails, Spawn, StartFails, MonitorFails, PassCancel, RelayReport, EndRelay, Cleanup,
     WorkerStep, WorkerReports, WorkerFinishes, WorkerExits, Dies, IsHeard, CancelStep, CancelTerminates,
     CancelGivesUp, CancelSettles
<1>2. ASSUME NEW r \in Runs, NEW report \in {"running"} \cup Over, Put(r, report)
      PROVE  mail' \in [Runs -> Seq({"running"} \cup Over)]
  BY <1>2 DEF Put
<1>3. ASSUME NEW r \in Runs, WorkerStep(r)
      PROVE  mail' \in [Runs -> Seq({"running"} \cup Over)]
  BY <1>2, <1>3 DEF WorkerStep, WorkerReports, WorkerFinishes, WorkerExits, Dies, IsHeard, LastReport, Over
<1>4. ASSUME NEW r \in Runs, RelayReport(r)
      PROVE  mail' \in [Runs -> Seq({"running"} \cup Over)]
  <2>1. Tail(mail[r]) \in Seq({"running"} \cup Over)
    BY <1>4 DEF RelayReport
  <2>2. QED
    BY <1>4, <2>1 DEF RelayReport
<1>c. ASSUME NEW r \in Runs, Cleanup(r)
      PROVE  mail' \in [Runs -> Seq({"running"} \cup Over)]
  BY <1>c DEF Cleanup
<1>5. ASSUME UNCHANGED mail PROVE mail' \in [Runs -> Seq({"running"} \cup Over)]
  <2>1. mail \in [Runs -> Seq({"running"} \cup Over)]
    OBVIOUS
  <2> HIDE DEF RunInv, RunTypeOK
  <2>2. QED
    BY <1>5, <2>1
<1>6. QED
  BY <1>1, <1>3, <1>4, <1>c, <1>5
  DEF RunNext, StartTagging, CancelBeforeSpawn, CancelAsks, ResetProgress, ScheduleFails,
     TaskStep, EnterTask, SetupFails, Spawn, StartFails, MonitorFails, PassCancel, EndRelay, Cleanup,
     CancelStep, CancelTerminates, Dies, CancelGivesUp, CancelSettles

\* The type of everything else.
OthersTypeOK ==
    /\ status \in Status
    /\ active \in 0..MaxRuns /\ pending \in 0..MaxRuns /\ handle \in 0..MaxRuns
    /\ task \in [Runs -> TaskPc]
    /\ proc \in [Runs -> {"none", "alive", "dead"}]
    /\ event \subseteq Runs /\ sent \subseteq Runs /\ seen \subseteq Runs
    /\ waits \subseteq Runs \X Runs
    /\ stopped \subseteq Runs

\* Every step keeps the types of all but the mail.
LEMMA OthersKeep == ASSUME RunInv, RunNext PROVE OthersTypeOK'
<1> USE BoundsAssumption
        DEF RunInv, RunTypeOK, OthersTypeOK, Status, Over, TaskPc, Runs, shared, worker, Alive, Apply
<1>1. CASE StartTagging
  BY <1>1 DEF StartTagging
<1>2. CASE CancelBeforeSpawn
  BY <1>2 DEF CancelBeforeSpawn, IdsAreFresh
<1>3. CASE CancelAsks
  BY <1>3 DEF CancelAsks, IdsAreFresh
<1>4. CASE ResetProgress
  BY <1>4 DEF ResetProgress, Withdrawn, IsPending
<1>5. ASSUME NEW w \in waits, CancelStep(w) PROVE OthersTypeOK'
  <2>1. w[1] \in Runs /\ w[2] \in Runs
    OBVIOUS
  <2>2. CASE CancelTerminates(w)
    BY <2>1, <2>2 DEF CancelTerminates, Dies
  <2>3. CASE CancelGivesUp(w)
    BY <2>1, <2>3 DEF CancelGivesUp
  <2>4. CASE CancelSettles(w)
    <3>1. stopped' \subseteq Runs /\ waits' \subseteq Runs \X Runs
      BY <2>1, <2>4 DEF CancelSettles
    <3>2. status' \in Status /\ handle' \in 0..MaxRuns
      BY <2>4 DEF CancelSettles
    <3>3. UNCHANGED <<active, pending, task, proc, event, sent, seen>>
      BY <2>4 DEF CancelSettles
    <3>4. QED
      BY <3>1, <3>2, <3>3
  <2>5. QED
    BY <1>5, <2>2, <2>3, <2>4 DEF CancelStep
<1>6. ASSUME NEW r \in Runs, ScheduleFails(r) \/ EnterTask(r) \/ SetupFails(r)
                               \/ StartFails(r) \/ MonitorFails(r)
      PROVE  OthersTypeOK'
  <2>1. CASE ScheduleFails(r)
    BY <2>1 DEF ScheduleFails
  <2>2. CASE EnterTask(r)
    BY <2>2 DEF EnterTask
  <2>3. CASE SetupFails(r)
    BY <2>3 DEF SetupFails
  <2>4. CASE StartFails(r)
    BY <2>4 DEF StartFails
  <2>5. CASE MonitorFails(r)
    BY <2>5 DEF MonitorFails
  <2>6. QED
    BY <1>6, <2>1, <2>2, <2>3, <2>4, <2>5
<1>7. ASSUME NEW r \in Runs, Spawn(r) PROVE OthersTypeOK'
  <2>1. task' \in [Runs -> TaskPc] /\ proc' \in [Runs -> {"none", "alive", "dead"}]
    BY <1>7 DEF Spawn
  <2>2. /\ status' \in Status /\ handle' \in 0..MaxRuns /\ pending' \in 0..MaxRuns
        /\ UNCHANGED <<active, event, sent, seen, waits, stopped>>
    BY <1>7 DEF Spawn
  <2>3. QED
    BY <2>1, <2>2
<1>8. ASSUME NEW r \in Runs, PassCancel(r) \/ EndRelay(r) \/ Cleanup(r) PROVE OthersTypeOK'
  <2>1. CASE PassCancel(r)
    BY <2>1 DEF PassCancel
  <2>2. CASE EndRelay(r)
    BY <2>2 DEF EndRelay
  <2>3. CASE Cleanup(r)
    BY <2>3 DEF Cleanup
  <2>4. QED
    BY <1>8, <2>1, <2>2, <2>3
<1>9. ASSUME NEW r \in Runs, RelayReport(r) PROVE OthersTypeOK'
  <2>1. Head(mail[r]) \in {"running"} \cup Over
    BY <1>9 DEF RelayReport
  <2>2. QED
    BY <1>9, <2>1 DEF RelayReport
<1>10. ASSUME NEW r \in Runs, WorkerStep(r) PROVE OthersTypeOK'
  BY <1>10 DEF WorkerStep, WorkerReports, WorkerFinishes, WorkerExits, Dies, IsHeard
<1>11. QED
  BY <1>1, <1>2, <1>3, <1>4, <1>5, <1>6, <1>7, <1>8, <1>9, <1>10 DEF RunNext, TaskStep

\* Every step keeps the types.
LEMMA TypeKeeps == ASSUME RunInv, RunNext PROVE RunTypeOK'
BY MailKeeps, OthersKeep DEF RunTypeOK, OthersTypeOK

\* No step lets a run get ahead of the current id.
LEMMA IdsKeep == ASSUME RunInv, RunNext PROVE IdsAreFresh'
<1> USE BoundsAssumption DEF RunInv, RunTypeOK, Runs, shared, worker, Apply, IdsAreFresh
<1>1. CASE StartTagging \/ CancelBeforeSpawn
  BY <1>1 DEF StartTagging, CancelBeforeSpawn
<1>2. CASE CancelAsks \/ ResetProgress
  BY <1>2 DEF CancelAsks, ResetProgress
<1>3. ASSUME NEW w \in waits, CancelStep(w) PROVE IdsAreFresh'
  BY <1>3 DEF CancelStep, CancelTerminates, Dies, CancelGivesUp, CancelSettles
<1>4. ASSUME NEW r \in Runs, ScheduleFails(r) \/ EnterTask(r) \/ SetupFails(r) \/ Spawn(r)
                               \/ StartFails(r) \/ MonitorFails(r)
      PROVE  IdsAreFresh'
  BY <1>4 DEF ScheduleFails, EnterTask, SetupFails, Spawn, StartFails, MonitorFails
<1>5. ASSUME NEW r \in Runs, PassCancel(r) \/ RelayReport(r) \/ EndRelay(r) \/ Cleanup(r)
      PROVE  IdsAreFresh'
  BY <1>5 DEF PassCancel, RelayReport, EndRelay, Cleanup
<1>6. ASSUME NEW r \in Runs, WorkerStep(r) PROVE IdsAreFresh'
  BY <1>6 DEF WorkerStep, WorkerReports, WorkerFinishes, WorkerExits, Dies, IsHeard
<1>7. QED
  BY <1>1, <1>2, <1>3, <1>4, <1>5, <1>6 DEF RunNext, TaskStep

\* A task that has got as far as the start of its process does not go back.
LEMMA BegunStays ==
  ASSUME RunInv, RunNext
  PROVE  \A q \in Runs : HasBegun(q) => task'[q] \notin {"none", "scheduled", "setup"}
<1> USE DEF RunInv, RunTypeOK, shared, worker, HasBegun
<1>1. CASE StartTagging
  BY <1>1, BoundsAssumption DEF StartTagging, IdsAreFresh, Runs
<1>2. CASE CancelBeforeSpawn \/ CancelAsks \/ ResetProgress
  BY <1>2 DEF CancelBeforeSpawn, CancelAsks, ResetProgress
<1>3. ASSUME NEW w \in waits, CancelStep(w) PROVE task' = task
  BY <1>3 DEF CancelStep, CancelTerminates, CancelGivesUp, CancelSettles
<1>4. ASSUME NEW r \in Runs, ScheduleFails(r) \/ TaskStep(r)
      PROVE  \A q \in Runs : HasBegun(q) => task'[q] \notin {"none", "scheduled", "setup"}
  BY <1>4 DEF ScheduleFails, TaskStep, EnterTask, SetupFails, Spawn, StartFails, MonitorFails,
     PassCancel, RelayReport, EndRelay, Cleanup
<1>5. ASSUME NEW r \in Runs, WorkerStep(r) PROVE task' = task
  BY <1>5 DEF WorkerStep, WorkerReports, WorkerFinishes, WorkerExits
<1>6. QED
  BY <1>1, <1>2, <1>3, <1>4, <1>5 DEF RunNext

\* A process exists only once the task of its run has got to its start, and so
\* does the handle.
LEMMA ProcessKeeps == ASSUME RunInv, RunNext PROVE ProcessFollowsTask'
<1> USE DEF RunInv, RunTypeOK, shared, worker, ProcessFollowsTask, HasBegun
<1>1. CASE StartTagging
  <2>1. active + 1 \in Runs /\ task[active + 1] = "none"
    BY <1>1, BoundsAssumption DEF StartTagging, IdsAreFresh, Runs
  <2>2. proc' = proc /\ handle' \in {0, handle}
    BY <1>1 DEF StartTagging
  <2>3. task' = [task EXCEPT ![active + 1] = "scheduled"]
    BY <1>1 DEF StartTagging
  <2>4. \A r \in Runs : ~HasBegun(r)' \/ task'[r] = "unstarted" => proc'[r] = "none"
    BY <2>1, <2>2, <2>3
  <2>5. handle' # 0 => HasBegun(handle)'
    <3> SUFFICES ASSUME handle' # 0 PROVE HasBegun(handle)'
      OBVIOUS
    <3>1. handle' = handle /\ handle \in Runs
      BY <2>2, BoundsAssumption DEF Runs
    <3>2. QED
      BY <3>1, <2>1, <2>3
  <2>6. QED
    BY <2>4, <2>5
<1>2. CASE CancelBeforeSpawn \/ CancelAsks \/ ResetProgress
  BY <1>2 DEF CancelBeforeSpawn, CancelAsks, ResetProgress
<1>3. ASSUME NEW w \in waits, CancelStep(w) PROVE ProcessFollowsTask'
  <2>1. task' = task /\ handle' \in {0, handle}
    BY <1>3 DEF CancelStep, CancelTerminates, CancelGivesUp, CancelSettles
  <2>2. proc' = proc \/ (Dies(w[2]) /\ w[2] \in Runs)
    BY <1>3 DEF CancelStep, CancelTerminates, CancelGivesUp, CancelSettles
  <2>3. QED
    BY <2>1, <2>2 DEF Dies, Alive
<1>4. ASSUME NEW r \in Runs, ScheduleFails(r) \/ TaskStep(r) PROVE ProcessFollowsTask'
  BY <1>4, BoundsAssumption
  DEF TaskStep, ScheduleFails, EnterTask, SetupFails, Spawn, StartFails, MonitorFails,
     PassCancel, RelayReport, EndRelay, Cleanup, Runs
<1>5. ASSUME NEW r \in Runs, WorkerStep(r) PROVE ProcessFollowsTask'
  BY <1>5 DEF WorkerStep, WorkerReports, WorkerFinishes, WorkerExits, Dies, IsHeard, Alive
<1>6. QED
  BY <1>1, <1>2, <1>3, <1>4, <1>5 DEF RunNext

\* A cancel waits for the process of its own run, as long as none has crossed.
LEMMA WaitsKeep == ASSUME RunInv, RunNext PROVE WaitsForItsOwn'
<1> SUFFICES ASSUME NEW w \in waits'
             PROVE  w[1] <= active' /\ HasBegun(w[2])' /\ (crossed' \/ w[1] = w[2])
  BY DEF WaitsForItsOwn
<1> USE DEF RunInv, RunTypeOK, shared, worker
<1>1. /\ active' \in {active, active + 1} /\ active \in Nat
      /\ waits' \subseteq waits \/ CancelAsks
      /\ crossed => crossed'
  BY BoundsAssumption
  DEF RunNext, StartTagging, CancelBeforeSpawn, CancelAsks, ResetProgress, ScheduleFails,
     TaskStep, EnterTask, SetupFails, Spawn, StartFails, MonitorFails, PassCancel, RelayReport, EndRelay, Cleanup,
     WorkerStep, WorkerReports, WorkerFinishes, WorkerExits, CancelStep, CancelTerminates,
     CancelGivesUp, CancelSettles
<1>2. CASE w \in waits
  <2>1. w[1] \in Nat /\ w[2] \in Runs
    BY <1>2 DEF Runs
  <2>2. w[1] <= active /\ HasBegun(w[2]) /\ (crossed \/ w[1] = w[2])
    BY <1>2 DEF WaitsForItsOwn
  <2>3. HasBegun(w[2])'
    BY <2>1, <2>2, BegunStays DEF HasBegun
  <2> HIDE DEF RunInv, RunTypeOK
  <2>4. QED
    BY <1>1, <2>1, <2>2, <2>3
<1>3. CASE w \notin waits
  <2>1. CancelAsks
    BY <1>1, <1>3
  <2>2. w = <<active, handle>> /\ active' = active /\ handle # 0 /\ task' = task
    BY <1>3, <2>1 DEF CancelAsks
  <2>3. crossed' <=> (crossed \/ handle # active)
    BY <2>1 DEF CancelAsks
  <2>4. HasBegun(handle)
    BY <2>2 DEF ProcessFollowsTask
  <2>5. HasBegun(w[2])'
    BY <2>2, <2>4 DEF HasBegun
  <2> HIDE DEF RunInv, RunTypeOK
  <2>6. QED
    BY <1>1, <2>2, <2>3, <2>5
<1>4. QED
  BY <1>2, <1>3

\* A run that has been stopped is left behind, or past the start of its process.
LEMMA StoppedKeeps == ASSUME RunInv, RunNext PROVE StoppedIsPast'
<1> SUFFICES ASSUME ~crossed', NEW r \in stopped'
             PROVE  r < active' \/ (r = active' /\ HasBegun(r)')
  BY DEF StoppedIsPast
<1> USE DEF RunInv, RunTypeOK, shared, worker
<1>1. ~crossed
  BY DEF RunNext, StartTagging, CancelBeforeSpawn, CancelAsks, ResetProgress, ScheduleFails,
     TaskStep, EnterTask, SetupFails, Spawn, StartFails, MonitorFails, PassCancel, RelayReport, EndRelay, Cleanup,
     WorkerStep, WorkerReports, WorkerFinishes, WorkerExits, CancelStep, CancelTerminates,
     CancelGivesUp, CancelSettles
<1>2. active \in Nat /\ stopped \subseteq Nat /\ stopped \subseteq Runs /\ active' \in {active, active + 1}
  BY BoundsAssumption
  DEF Runs, RunNext, StartTagging, CancelBeforeSpawn, CancelAsks, ResetProgress, ScheduleFails,
     TaskStep, EnterTask, SetupFails, Spawn, StartFails, MonitorFails, PassCancel, RelayReport, EndRelay, Cleanup,
     WorkerStep, WorkerReports, WorkerFinishes, WorkerExits, CancelStep, CancelTerminates,
     CancelGivesUp, CancelSettles
<1>3. CASE r \in stopped
  <2>1. r < active \/ (r = active /\ HasBegun(r))
    BY <1>1, <1>3 DEF StoppedIsPast
  <2>2. HasBegun(r) => HasBegun(r)'
    BY <1>2, <1>3, BegunStays DEF HasBegun
  <2> HIDE DEF RunInv, RunTypeOK
  <2>3. QED
    BY <1>2, <1>3, <2>1, <2>2
<1>4. CASE r \notin stopped
  <2>1. \/ active' = active + 1 /\ r = active
        \/ \E w \in waits : r = w[1] /\ active' = active
    BY <1>4
    DEF RunNext, StartTagging, CancelBeforeSpawn, CancelAsks, ResetProgress, Withdrawn, ScheduleFails,
     TaskStep, EnterTask, SetupFails, Spawn, StartFails, MonitorFails, PassCancel, RelayReport, EndRelay, Cleanup,
     WorkerStep, WorkerReports, WorkerFinishes, WorkerExits, CancelStep, CancelTerminates,
     CancelGivesUp, CancelSettles
  <2>2. CASE active' = active + 1 /\ r = active
    BY <1>2, <2>2
  <2>3. ASSUME NEW w \in waits, r = w[1], active' = active
        PROVE  r < active' \/ (r = active' /\ HasBegun(r)')
    <3>1. w[1] \in Nat /\ w[1] \in Runs /\ w[1] <= active /\ HasBegun(w[1])
      BY <1>1 DEF WaitsForItsOwn, Runs
    <3>2. HasBegun(r)'
      BY <2>3, <3>1, BegunStays DEF HasBegun
    <3> HIDE DEF RunInv, RunTypeOK
    <3>3. QED
      BY <1>2, <2>3, <3>1, <3>2
  <2>4. QED
    BY <2>1, <2>2, <2>3
<1>5. QED
  BY <1>3, <1>4

\* A watched worker is the one the service holds, as long as no cancel has crossed.
LEMMA HeldKeeps == ASSUME RunInv, RunNext PROVE LiveWorkerIsHeld'
<1> SUFFICES ASSUME ~crossed', NEW r \in Runs, proc'[r] = "alive", task'[r] = "relay"
             PROVE  handle' = r /\ active' = r
  BY DEF LiveWorkerIsHeld, Watched, Alive
<1> USE DEF RunInv, RunTypeOK, shared, worker
<1>1. ~crossed
  BY DEF RunNext, StartTagging, CancelBeforeSpawn, CancelAsks, ResetProgress, ScheduleFails,
     TaskStep, EnterTask, SetupFails, Spawn, StartFails, MonitorFails, PassCancel, RelayReport, EndRelay, Cleanup,
     WorkerStep, WorkerReports, WorkerFinishes, WorkerExits, CancelStep, CancelTerminates,
     CancelGivesUp, CancelSettles
<1>r. r \in Nat /\ r # 0
  BY BoundsAssumption DEF Runs
<1>2. \A q \in Runs : proc[q] = "alive" /\ task[q] = "relay" => handle = q /\ active = q
  BY <1>1, BoundsAssumption DEF LiveWorkerIsHeld, Watched, Alive, Runs
<1>3. CASE StartTagging
  BY <1>2, <1>3, <1>r DEF StartTagging, RunIsBusy, Alive
<1>4. CASE CancelBeforeSpawn \/ CancelAsks \/ ResetProgress
  BY <1>2, <1>4, <1>r DEF CancelBeforeSpawn, CancelAsks, ResetProgress, Alive
<1>5. ASSUME NEW w \in waits, CancelStep(w) PROVE handle' = r /\ active' = r
  <2>1. w[1] \in Runs /\ w[1] = w[2]
    BY <1>1 DEF WaitsForItsOwn
  <2>2. QED
    BY <1>2, <1>5, <1>r, <2>1
    DEF CancelStep, CancelTerminates, Dies, CancelGivesUp, CancelSettles, Alive
<1>6. ASSUME NEW q \in Runs, Spawn(q) PROVE handle' = r /\ active' = r
  BY <1>2, <1>6 DEF Spawn
<1>7. ASSUME NEW q \in Runs, StartFails(q) PROVE handle' = r /\ active' = r
  BY <1>2, <1>7 DEF StartFails
<1>8. ASSUME NEW q \in Runs, ScheduleFails(q) \/ EnterTask(q) \/ SetupFails(q) \/ MonitorFails(q)
                               \/ PassCancel(q) \/ RelayReport(q) \/ EndRelay(q)
      PROVE  handle' = r /\ active' = r
  BY <1>2, <1>8 DEF ScheduleFails, EnterTask, SetupFails, MonitorFails, PassCancel, RelayReport, EndRelay
<1>9. ASSUME NEW q \in Runs, Cleanup(q) PROVE handle' = r /\ active' = r
  BY <1>2, <1>9 DEF Cleanup
<1>10. ASSUME NEW q \in Runs, WorkerStep(q) PROVE handle' = r /\ active' = r
  BY <1>2, <1>10 DEF WorkerStep, WorkerReports, WorkerFinishes, WorkerExits, Dies, Alive
<1>11. QED
  BY <1>3, <1>4, <1>5, <1>6, <1>7, <1>8, <1>9, <1>10 DEF RunNext, TaskStep

\* In every reachable state RunInv holds.
THEOREM RunInvariance == RunSpec => []RunInv
<1>1. RunInv /\ [RunNext]_runVars => RunInv'
  <2> SUFFICES ASSUME RunInv, [RunNext]_runVars PROVE RunInv'
    OBVIOUS
  <2>1. CASE UNCHANGED runVars
    BY <2>1 DEF runVars, shared, worker, RunInv, RunTypeOK, Alive, IdsAreFresh, HasBegun,
       ProcessFollowsTask, WaitsForItsOwn, StoppedIsPast, LiveWorkerIsHeld, Watched
  <2>2. CASE RunNext
    BY <2>2, TypeKeeps, IdsKeep, ProcessKeeps, WaitsKeep, StoppedKeeps, HeldKeeps DEF RunInv
  <2>3. QED
    BY <2>1, <2>2
<1>2. QED
  BY <1>1, RunInitInv, PTL DEF RunSpec

\* Every variable of the tagging run keeps its type.
THEOREM RunTypeCorrect == RunSpec => []RunTypeOK
<1>1. RunInv => RunTypeOK
  BY DEF RunInv
<1>2. QED
  BY <1>1, RunInvariance, PTL

\* A live worker whose monitor is at work is the one the service holds, until a
\* cancel has met the process of an earlier run (progress.py:187-222).
THEOREM WorkerIsHeld == RunSpec => []LiveWorkerIsHeld
<1>1. RunInv => LiveWorkerIsHeld
  BY DEF RunInv
<1>2. QED
  BY <1>1, RunInvariance, PTL

\* Until then there is one watched worker at most.
THEOREM OneWorker == RunSpec => [](crossed \/ AtMostOneWorker)
<1>1. RunInv => crossed \/ AtMostOneWorker
  BY DEF RunInv, LiveWorkerIsHeld, AtMostOneWorker
<1>2. QED
  BY <1>1, RunInvariance, PTL

\* Nor does a run spawn once its cancel has answered or a reset has withdrawn it
\* (jobs.py:137-165).
THEOREM StoppedForGood == RunSpec => StoppedStaysStopped
<1> DEFINE Stays == crossed \/ \A r \in stopped : proc[r] = "none" => proc'[r] = "none"
<1>1. RunInv /\ [RunNext]_runVars => [Stays]_runVars
  <2> SUFFICES ASSUME RunInv, RunNext, ~crossed, NEW r \in stopped, proc[r] = "none"
               PROVE  proc'[r] = "none"
    OBVIOUS
  <2>1. r \in Runs /\ (r # active \/ HasBegun(r))
    BY BoundsAssumption DEF RunInv, RunTypeOK, StoppedIsPast, Runs
  <2>2. ASSUME NEW q \in Runs, Spawn(q) PROVE proc'[r] = "none"
    BY <2>1, <2>2 DEF Spawn, HasBegun, RunInv, RunTypeOK
  <2>3. ASSUME NEW q \in Runs, Dies(q) PROVE proc'[r] = "none"
    BY <2>1, <2>3 DEF Dies, Alive, RunInv, RunTypeOK
  <2>4. \/ proc' = proc
        \/ \E q \in Runs : Spawn(q) \/ Dies(q)
    BY DEF RunNext, StartTagging, CancelBeforeSpawn, CancelAsks, ResetProgress,
       ScheduleFails, TaskStep, EnterTask, SetupFails, StartFails, MonitorFails, PassCancel, RelayReport,
       EndRelay, Cleanup, WorkerStep, WorkerReports, WorkerFinishes, WorkerExits,
       CancelStep, CancelTerminates, CancelGivesUp, CancelSettles, worker, RunInv, RunTypeOK
  <2>5. QED
    BY <2>2, <2>3, <2>4
<1>2. QED
  BY <1>1, RunInvariance, PTL DEF RunSpec, StoppedStaysStopped

------------------------------------------------------------------------------
(* The lease and the models on the GPU (AiRuntime, GpuModels)                *)

\* Only waiters sleep, and nobody is ahead of itself.
SleepersWait == \A t \in Threads : (t \in asleep => Waiting(t)) /\ t \notin ahead[t]

LeaseInv == LeaseTypeOK /\ LeaseIsExclusive /\ HeadIsAwake /\ TicketsFormALine /\ SleepersWait

\* The first state of the lease.
LEMMA LeaseInitInv == LeaseInit => LeaseInv
<1> SUFFICES ASSUME LeaseInit PROVE LeaseInv
  OBVIOUS
<1> USE DEF LeaseInit
<1>1. LeaseTypeOK
  BY DEF LeaseTypeOK, Stages, Ranks
<1>2. LeaseIsExclusive
  BY NamesAssumption DEF LeaseIsExclusive
<1>3. HeadIsAwake /\ TicketsFormALine /\ SleepersWait
  BY DEF HeadIsAwake, TicketsFormALine, SleepersWait, Waiting
<1>4. QED
  BY <1>1, <1>2, <1>3 DEF LeaseInv

\* Each step of a lease keeps every variable within its type.
LEMMA StepTypes ==
  ASSUME LeaseTypeOK, [LeaseNext]_lease PROVE LeaseTypeOK'
<1> USE DEF LeaseTypeOK, Stages, Ranks
<1>1. ASSUME NEW t \in Threads, NEW p \in Ranks, Enter(t, p) PROVE LeaseTypeOK'
  BY <1>1 DEF Enter, TakeGate, Waiting
<1>2. ASSUME NEW t \in Threads, Wake(t) PROVE LeaseTypeOK'
  BY <1>2 DEF Wake, TakeGate, DropTicket, Waiting
<1>3. ASSUME NEW t \in Threads, GiveUp(t) PROVE LeaseTypeOK'
  BY <1>3 DEF GiveUp, DropTicket
<1>4. ASSUME NEW t \in Threads, Nest(t) \/ Unnest(t) PROVE LeaseTypeOK'
  BY <1>4 DEF Nest, Unnest
<1>5. ASSUME NEW t \in Threads, LockFile(t) \/ UnlockFile(t) PROVE LeaseTypeOK'
  BY <1>5 DEF LockFile, UnlockFile
<1>6. ASSUME NEW t \in Threads, FileBusy(t) \/ Leave(t) PROVE LeaseTypeOK'
  BY <1>6 DEF FileBusy, Leave, FreeGate
<1>7. CASE ChildTakes \/ ChildLeaves
  BY <1>7 DEF ChildTakes, ChildLeaves
<1>8. CASE UNCHANGED lease
  BY <1>8 DEF lease
<1>9. QED
  BY <1>1, <1>2, <1>3, <1>4, <1>5, <1>6, <1>7, <1>8 DEF LeaseNext, LeaseStep

\* The gate lets one thread past, and the file is its own while it is inside.
LEMMA StepExclusive ==
  ASSUME LeaseTypeOK, LeaseIsExclusive, [LeaseNext]_lease PROVE LeaseIsExclusive'
<1> USE NamesAssumption DEF LeaseTypeOK, LeaseIsExclusive, Stages
<1>1. ASSUME NEW t \in Threads, NEW p \in Ranks, Enter(t, p) PROVE LeaseIsExclusive'
  BY <1>1 DEF Enter, TakeGate
<1>2. ASSUME NEW t \in Threads, Wake(t) PROVE LeaseIsExclusive'
  BY <1>2 DEF Wake, TakeGate, Waiting, Admitted
<1>3. ASSUME NEW t \in Threads, GiveUp(t) PROVE LeaseIsExclusive'
  BY <1>3 DEF GiveUp, Waiting
<1>4. ASSUME NEW t \in Threads, Nest(t) \/ Unnest(t) PROVE LeaseIsExclusive'
  BY <1>4 DEF Nest, Unnest
<1>5. ASSUME NEW t \in Threads, LockFile(t) \/ UnlockFile(t) PROVE LeaseIsExclusive'
  BY <1>5 DEF LockFile, UnlockFile
<1>6. ASSUME NEW t \in Threads, FileBusy(t) \/ Leave(t) PROVE LeaseIsExclusive'
  BY <1>6 DEF FileBusy, Leave, FreeGate
<1>7. CASE ChildTakes \/ ChildLeaves
  BY <1>7 DEF ChildTakes, ChildLeaves
<1>8. CASE UNCHANGED lease
  BY <1>8 DEF lease
<1>9. QED
  BY <1>1, <1>2, <1>3, <1>4, <1>5, <1>6, <1>7, <1>8 DEF LeaseNext, LeaseStep

\* Tickets stay a line whose members wait, and only waiters sleep.
LEMMA StepTickets ==
  ASSUME LeaseTypeOK, TicketsFormALine, SleepersWait, [LeaseNext]_lease
  PROVE  TicketsFormALine' /\ SleepersWait'
<1> USE DEF LeaseTypeOK, TicketsFormALine, SleepersWait, Stages, Ranks, Waiting
<1>1. ASSUME NEW t \in Threads, NEW p \in Ranks, Enter(t, p)
      PROVE  TicketsFormALine' /\ SleepersWait'
  BY <1>1 DEF Enter, TakeGate
<1>2. ASSUME NEW t \in Threads, Wake(t) PROVE TicketsFormALine' /\ SleepersWait'
  BY <1>2 DEF Wake, TakeGate, DropTicket, Admitted
<1>3. ASSUME NEW t \in Threads, GiveUp(t) PROVE TicketsFormALine' /\ SleepersWait'
  BY <1>3 DEF GiveUp, DropTicket
<1>4. ASSUME NEW t \in Threads, Nest(t) \/ Unnest(t)
      PROVE  TicketsFormALine' /\ SleepersWait'
  BY <1>4 DEF Nest, Unnest
<1>5. ASSUME NEW t \in Threads, LockFile(t) \/ UnlockFile(t)
      PROVE  TicketsFormALine' /\ SleepersWait'
  BY <1>5 DEF LockFile, UnlockFile
<1>6. ASSUME NEW t \in Threads, FileBusy(t) \/ Leave(t)
      PROVE  TicketsFormALine' /\ SleepersWait'
  BY <1>6 DEF FileBusy, Leave, FreeGate
<1>7. CASE ChildTakes \/ ChildLeaves
  BY <1>7 DEF ChildTakes, ChildLeaves
<1>8. CASE UNCHANGED lease
  BY <1>8 DEF lease
<1>9. QED
  BY <1>1, <1>2, <1>3, <1>4, <1>5, <1>6, <1>7, <1>8 DEF LeaseNext, LeaseStep

\* Whoever goes to sleep has seen that it may not pass; whoever lets somebody
\* pass wakes everybody.
LEMMA StepHeadIsAwake ==
  ASSUME LeaseTypeOK, LeaseIsExclusive, HeadIsAwake, SleepersWait, [LeaseNext]_lease
  PROVE  HeadIsAwake'
<1> USE NamesAssumption DEF LeaseTypeOK, HeadIsAwake, Stages, Waiting, Admitted
<1>1. ASSUME NEW t \in Threads, NEW p \in Ranks, Enter(t, p) PROVE HeadIsAwake'
  BY <1>1 DEF Enter, TakeGate, SleepersWait
<1>2. ASSUME NEW t \in Threads, Wake(t) PROVE HeadIsAwake'
  BY <1>2 DEF Wake, TakeGate, DropTicket
<1>3. ASSUME NEW t \in Threads, GiveUp(t) PROVE HeadIsAwake'
  BY <1>3 DEF GiveUp
<1>4. ASSUME NEW t \in Threads, Nest(t) \/ Unnest(t) PROVE HeadIsAwake'
  BY <1>4 DEF Nest, Unnest
<1>5. ASSUME NEW t \in Threads, LockFile(t) \/ UnlockFile(t) PROVE HeadIsAwake'
  BY <1>5 DEF LockFile, UnlockFile
<1>6. ASSUME NEW t \in Threads, FileBusy(t) \/ Leave(t) PROVE HeadIsAwake'
  BY <1>6 DEF FileBusy, Leave, FreeGate
<1>7. CASE ChildTakes \/ ChildLeaves
  BY <1>7 DEF ChildTakes, ChildLeaves
<1>8. CASE UNCHANGED lease
  BY <1>8 DEF lease
<1>9. QED
  BY <1>1, <1>2, <1>3, <1>4, <1>5, <1>6, <1>7, <1>8 DEF LeaseNext, LeaseStep

\* The inductive invariant of the lease: types, exclusion, awake heads, one line.
THEOREM LeaseInvariance == LeaseSpec => []LeaseInv
<1>1. LeaseInv /\ [LeaseNext]_lease => LeaseInv'
  BY StepTypes, StepExclusive, StepTickets, StepHeadIsAwake DEF LeaseInv
<1>2. QED
  BY LeaseInitInv, <1>1, PTL DEF LeaseSpec

\* Every variable of the lease keeps its type (_VramGate, AiRuntimeLease).
THEOREM LeaseTypeCorrect == LeaseSpec => []LeaseTypeOK
<1>1. LeaseInv => LeaseTypeOK
  BY DEF LeaseInv
<1>2. QED
  BY LeaseInvariance, <1>1, PTL

\* At most one thread of the process is past the gate, and while it works under
\* the lease the lock file is its own.
THEOREM LeaseExcludes == LeaseSpec => []LeaseIsExclusive
<1>1. LeaseInv => LeaseIsExclusive
  BY DEF LeaseInv
<1>2. QED
  BY LeaseInvariance, <1>1, PTL

\* The waiter whose turn it is has always been notified.
THEOREM WakeUpsAreKept == LeaseSpec => []HeadIsAwake
<1>1. LeaseInv => HeadIsAwake
  BY DEF LeaseInv
<1>2. QED
  BY LeaseInvariance, <1>1, PTL

-----------------------------------------------------------------------------
\* Every step of a thread is a step of the lease, or leaves the lease alone.
LEMMA StepsUseTheLease == [GpuNext]_gpuVars => [LeaseNext]_lease
<1> SUFFICES ASSUME [GpuNext]_gpuVars PROVE [LeaseNext]_lease
  OBVIOUS
<1> USE DEF LeaseNext, LeaseStep
<1>1. CASE UNCHANGED gpuVars
  BY <1>1 DEF gpuVars
<1>2. CASE OtherProcess
  BY <1>2 DEF OtherProcess
<1>3. ASSUME NEW t \in Threads, Request(t) PROVE [LeaseNext]_lease
  <2>1. 50 \in Ranks /\ 100 \in Ranks /\ Lanes \subseteq Ranks
    BY KindAssumption DEF Ranks
  <2>2. AskStyle(t) \/ DropSession(t) => UNCHANGED lease
    BY DEF AskStyle, DropSession
  <2>3. QED
    BY <1>3, <2>1, <2>2 DEF Request, NextBatch, AskFree, AskSweep, AskTag
<1>4. ASSUME NEW t \in Threads, Step(t) PROVE [LeaseNext]_lease
  <2>1. 50 \in Ranks /\ {0, 100} \subseteq Ranks
    BY DEF Ranks
  <2>2. TakeLoadLock(t) => UNCHANGED lease \/ Enter(t, 50)
    BY DEF TakeLoadLock
  <2>3. \A p \in {0, 100} : AskBatch(t, p) => Enter(t, p)
    BY DEF AskBatch
  <2>4. BuildFirst(t) \/ EndLoad(t) \/ LookAtModel(t) \/ Forward(t) \/ LoadTagger(t)
        \/ Infer(t) \/ RemakeSession(t) \/ DropTagger(t) \/ ForgetTagger(t) \/ ReleaseIdle(t)
        => UNCHANGED lease
    BY DEF BuildFirst, EndLoad, LookAtModel, Forward, LoadTagger, Infer, RemakeSession,
           DropTagger, ForgetTagger, ReleaseIdle
  <2>5. TakeReloadLock(t) \/ Rebuild(t) => Nest(t) \/ Unnest(t)
    BY DEF TakeReloadLock, Rebuild
  <2>6. Lease(t) \/ EndLease(t) \/ Refused(t)
        => Wake(t) \/ LockFile(t) \/ UnlockFile(t) \/ Leave(t) \/ FileBusy(t) \/ GiveUp(t)
    BY DEF Lease, EndLease, Refused
  <2>7. QED
    BY <1>4, <2>1, <2>2, <2>3, <2>4, <2>5, <2>6 DEF Step
<1>5. QED
  BY <1>1, <1>2, <1>3, <1>4 DEF GpuNext

\* The threads of the program use the lease as its specification says.
THEOREM LeaseIsUsedProperly == GpuSpec => LeaseSpec
<1>1. GpuInit => LeaseInit
  BY DEF GpuInit
<1>2. QED
  BY <1>1, StepsUseTheLease, PTL DEF GpuSpec, LeaseSpec

-----------------------------------------------------------------------------
\* A thread that works on a model is inside its lease.
WorkersAreInside ==
    \A t \in Threads : pc[t] \in {"reload", "build", "forward", "infer"} => Inside(t)

\* A thread waits for the lease before it does anything under it.
WaitersHaveNotStarted ==
    \A t \in Threads : stage[t] \in {"waiting", "locking"} =>
                          pc[t] \in {"load", "batch", "tag", "free", "sweep"}

\* _load_lock belongs to the thread that loads the encoder, until the end of
\* its cleanup.
LoadersHoldTheLock ==
    \A t \in Threads : pc[t] \in {"load", "loaded", "failed", "build"} <=> loadLock = t

\* While a thread loads the encoder or has failed to, there is none.
NothingWhileLoading ==
    \A t \in Threads : pc[t] \in {"load", "failed", "build", "reload"} => ~Loaded("csd")

WorkHasItsModel ==
    \A t \in Threads : /\ pc[t] = "forward" => Loaded("csd")
                       /\ pc[t] = "infer" => hasLoaded = "yes"

\* The tagger says it is loaded and is not: a refresh was there.
OnlyARefreshLoses == hasLoaded = "yes" => Loaded("tagger") \/ lost

ThreadInv == /\ loadLock \in Threads \cup {NoThread}
             /\ pc \in [Threads -> StylePcs \cup TagPcs \cup SweepPcs \cup RefreshPcs]
             /\ WorkersAreInside
             /\ WaitersHaveNotStarted
             /\ LoadersHoldTheLock

ModelTypes == /\ place \in [Models -> {"none", "gpu", "cpu"}]
              /\ hasLoaded \in {"never", "no", "yes"} /\ lost \in BOOLEAN

ModelInv == ModelTypes /\ NothingWhileLoading /\ WorkHasItsModel /\ OnlyARefreshLoses

WorkInv == ThreadInv /\ ModelInv

\* The first state of the models.
LEMMA InitWork == GpuInit => WorkInv
BY NamesAssumption
   DEF GpuInit, LeaseInit, WorkInv, ThreadInv, ModelInv, ModelTypes, WorkersAreInside,
       WaitersHaveNotStarted, LoadersHoldTheLock, NothingWhileLoading, WorkHasItsModel,
       OnlyARefreshLoses, StylePcs, TagPcs, SweepPcs, RefreshPcs

\* Each step keeps the threads' places in order: inside the lease, or waiting
\* for it, or with the load lock.
LEMMA StepThreads ==
  ASSUME ThreadInv, LeaseTypeOK, LeaseIsExclusive, [GpuNext]_gpuVars PROVE ThreadInv'
<1> USE NamesAssumption
    DEF ThreadInv, WorkersAreInside, WaitersHaveNotStarted, LoadersHoldTheLock, LeaseTypeOK,
        LeaseIsExclusive, StylePcs, TagPcs, SweepPcs, RefreshPcs, Inside, GoesTo
<1>1. ASSUME NEW t \in Threads, AskStyle(t) \/ DropSession(t) \/ RemakeSession(t)
      PROVE  ThreadInv'
  BY <1>1 DEF AskStyle, DropSession, RemakeSession, lease
<1>2. ASSUME NEW t \in Threads, NEW p \in Ranks, AskBatch(t, p) \/ AskTag(t, p)
      PROVE  ThreadInv'
  BY <1>2 DEF AskBatch, AskTag, Enter, TakeGate
<1>3. ASSUME NEW t \in Threads, NextBatch(t) \/ AskFree(t) \/ AskSweep(t) PROVE ThreadInv'
  BY <1>3 DEF NextBatch, AskFree, AskSweep, Enter, TakeGate
<1>4. ASSUME NEW t \in Threads, TakeLoadLock(t) PROVE ThreadInv'
  BY <1>4 DEF TakeLoadLock, Enter, TakeGate, lease
<1>5. ASSUME NEW t \in Threads, BuildFirst(t) \/ EndLoad(t) PROVE ThreadInv'
  BY <1>5 DEF BuildFirst, EndLoad, lease
<1>6. ASSUME NEW t \in Threads, LookAtModel(t) \/ Forward(t) PROVE ThreadInv'
  BY <1>6 DEF LookAtModel, Forward, lease
<1>7. ASSUME NEW t \in Threads, TakeReloadLock(t) \/ Rebuild(t) PROVE ThreadInv'
  BY <1>7 DEF TakeReloadLock, Nest, Rebuild, Unnest
<1>8. ASSUME NEW t \in Threads, LoadTagger(t) \/ Infer(t) PROVE ThreadInv'
  BY <1>8 DEF LoadTagger, Infer, lease
<1>9. ASSUME NEW t \in Threads, DropTagger(t) \/ ForgetTagger(t) \/ ReleaseIdle(t)
      PROVE  ThreadInv'
  BY <1>9 DEF DropTagger, ForgetTagger, ReleaseIdle, lease
<1>10. ASSUME NEW t \in Threads, Lease(t) PROVE ThreadInv'
  BY <1>10 DEF Lease, Wake, TakeGate, LockFile, UnlockFile, Waiting
<1>11. ASSUME NEW t \in Threads, EndLease(t) PROVE ThreadInv'
  BY <1>11 DEF EndLease, Leave, FreeGate, EndsRequest
<1>12. ASSUME NEW t \in Threads, Refused(t) PROVE ThreadInv'
  BY <1>12 DEF Refused, FileBusy, FreeGate, GiveUp, Waiting, EndsRequest
<1>13. CASE OtherProcess
  BY <1>13 DEF OtherProcess, ChildTakes, ChildLeaves
<1>14. CASE UNCHANGED gpuVars
  BY <1>14 DEF gpuVars, lease
<1>15. ASSUME NEW t \in Threads, Request(t) PROVE ThreadInv'
  BY <1>1, <1>2, <1>3, <1>15, KindAssumption DEF Request
<1>16. ASSUME NEW t \in Threads, Step(t) PROVE ThreadInv'
  <2>1. {0, 100} \subseteq Ranks
    BY DEF Ranks
  <2>2. QED
    BY <1>1, <1>2, <1>4, <1>5, <1>6, <1>7, <1>8, <1>9, <1>10, <1>11, <1>12, <1>16, <2>1
       DEF Step
<1>17. QED
  BY <1>13, <1>14, <1>15, <1>16 DEF GpuNext

\* Threads inside the lease are one and the same.
LEMMA OneInside ==
  ASSUME LeaseIsExclusive, NEW t \in Threads, NEW u \in Threads, Inside(t), Inside(u)
  PROVE  t = u
BY DEF LeaseIsExclusive, Inside

\* Each step that moves a model keeps it for whoever works with it.
LEMMA StepModels ==
  ASSUME WorkInv, LeaseIsExclusive, [GpuNext]_gpuVars PROVE ModelInv'
<1> USE OneInside
    DEF WorkInv, ThreadInv, ModelInv, ModelTypes, NothingWhileLoading, WorkHasItsModel,
        OnlyARefreshLoses, Models, Loaded, GoesTo, models
<1>1. ASSUME NEW t \in Threads, UNCHANGED models,
             UNCHANGED pc \/ \E p : /\ GoesTo(t, p)
                                   /\ p \notin {"load", "failed", "build", "reload", "forward",
                                                 "infer"}
      PROVE  ModelInv'
  BY <1>1
<1>2. ASSUME NEW t \in Threads, TakeLoadLock(t) \/ LookAtModel(t) \/ TakeReloadLock(t)
      PROVE  ModelInv'
  BY <1>2 DEF TakeLoadLock, LookAtModel, TakeReloadLock
<1>3. ASSUME NEW t \in Threads, BuildFirst(t) \/ Rebuild(t) \/ EndLoad(t)
      PROVE  ModelInv'
  <2>1. \A u \in Threads :
           /\ BuildFirst(t) \/ Rebuild(t) => (u # t => pc[u] \notin {"reload", "forward", "infer"})
           /\ u # t => pc[u] \notin {"load", "failed", "build"}
    BY <1>3 DEF BuildFirst, Rebuild, EndLoad, WorkersAreInside, LoadersHoldTheLock
  <2>2. CASE EndLoad(t)
    BY <1>3, <2>1, <2>2 DEF EndLoad, Unload, TaggerLeaves
  <2>3. CASE BuildFirst(t) \/ Rebuild(t)
    <3>1. ASSUME EncoderBuilt, pc'[t] \in {"loaded", "forward"}, GoesTo(t, pc'[t])
          PROVE  ModelInv'
      <4>1. ModelTypes' /\ Loaded("csd")' /\ OnlyARefreshLoses'
        <5>1. CASE Claim("csd", "gpu", {"csd"}) /\ TaggerLeaves(residents)
          <6>1. place' = [n \in Models |-> IF n = "csd" THEN "gpu"
                                          ELSE IF n \in residents THEN "none" ELSE place[n]]
            BY <5>1 DEF Claim
          <6>2. /\ hasLoaded' \in {"never", "no", "yes"} /\ lost' \in BOOLEAN
                /\ hasLoaded' = "yes" => "tagger" \notin residents /\ hasLoaded = "yes"
                /\ lost /\ "tagger" \notin residents => lost'
            BY <5>1 DEF TaggerLeaves
          <6>3. QED
            BY <6>1, <6>2
        <5>2. CASE OnCpu("csd") /\ UNCHANGED <<hasLoaded, lost>>
          BY <5>2 DEF OnCpu
        <5>3. QED
          BY <3>1, <5>1, <5>2 DEF EncoderBuilt
      <4>2. QED
        BY <2>1, <2>3, <3>1, <4>1
    <3>2. ASSUME NEW listed, EncoderFails(listed), pc'[t] \in {"failed", "done"},
                 GoesTo(t, pc'[t])
          PROVE  ModelInv'
      BY <1>3, <2>1, <2>3, <3>2 DEF EncoderFails, Claim, Unload, TaggerLeaves
    <3>3. QED
      BY <2>3, <3>1, <3>2 DEF BuildFirst, Rebuild
  <2>4. QED
    BY <1>3, <2>2, <2>3
<1>4. ASSUME NEW t \in Threads, LoadTagger(t) PROVE ModelInv'
  <2>1. CASE hasLoaded = "yes"
    BY <1>4, <2>1 DEF LoadTagger
  <2>2. CASE hasLoaded # "yes"
    <3>1. \A u \in Threads : u # t => pc[u] \notin {"forward", "infer"}
      BY <1>4 DEF LoadTagger, WorkersAreInside
    <3>2. \/ place' = place
          \/ \E where \in {"none", "gpu", "cpu"} :
               place' = [n \in Models |-> IF n = "tagger" THEN where
                                         ELSE IF n \in residents THEN "none" ELSE place[n]]
          \/ place' = [place EXCEPT !["tagger"] = "cpu"]
      BY <1>4, <2>2 DEF LoadTagger, Claim, OnCpu
    <3>3. ModelTypes' /\ (~Loaded("csd") => ~Loaded("csd")')
      BY <1>4, <2>2, <3>2 DEF LoadTagger
    <3>4. (hasLoaded' = "yes" => place'["tagger"] # "none") /\ GoesTo(t, pc'[t])
          /\ (pc'[t] = "infer" => hasLoaded' = "yes") /\ pc'[t] \in {"infer", "done"}
      BY <1>4, <2>2 DEF LoadTagger, Claim, OnCpu
    <3>5. QED
      BY <3>1, <3>3, <3>4
  <2>3. QED
    BY <2>1, <2>2
<1>5. ASSUME NEW t \in Threads, Infer(t) PROVE ModelInv'
  BY <1>5 DEF Infer
<1>6. ASSUME NEW t \in Threads, DropSession(t) \/ RemakeSession(t) PROVE ModelInv'
  BY <1>6 DEF DropSession, RemakeSession
<1>7. ASSUME NEW t \in Threads, DropTagger(t) PROVE ModelInv'
  BY <1>7 DEF DropTagger, TaggerLeaves, WorkersAreInside
<1>8. ASSUME NEW t \in Threads, ForgetTagger(t) PROVE ModelInv'
  BY <1>8 DEF ForgetTagger
<1>9. ASSUME NEW t \in Threads, ReleaseIdle(t) PROVE ModelInv'
  <2>1. \A u \in Threads : pc[u] \notin {"forward", "infer"}
    BY <1>9 DEF ReleaseIdle, WorkersAreInside
  <2>2. CASE UNCHANGED models
    BY <1>9, <2>2 DEF ReleaseIdle
  <2>3. ASSUME NEW m \in Models, Unload(m) PROVE ModelInv'
    <3>1. ModelTypes' /\ (\A n \in Models : ~Loaded(n) => ~Loaded(n)')
      BY <2>3 DEF Unload, TaggerLeaves
    <3>2. OnlyARefreshLoses'
      BY <2>3 DEF Unload, TaggerLeaves
    <3>3. QED
      BY <1>9, <2>1, <3>1, <3>2 DEF ReleaseIdle
  <2>4. QED
    BY <1>9, <2>2, <2>3 DEF ReleaseIdle
<1>10. ASSUME NEW t \in Threads, Refused(t) PROVE ModelInv'
  <2>1. CASE pc[t] = "load"
    BY <1>10, <2>1 DEF Refused
  <2>2. CASE pc[t] # "load"
    BY <1>1, <1>10, <2>2 DEF Refused, EndsRequest
  <2>3. QED
    BY <2>1, <2>2
<1>11. ASSUME NEW t \in Threads, Request(t) PROVE ModelInv'
  BY <1>1, <1>6, <1>11
     DEF Request, AskStyle, NextBatch, AskFree, AskSweep, AskTag
<1>12. ASSUME NEW t \in Threads,
              Forward(t) \/ Lease(t) \/ EndLease(t) \/ \E p \in {0, 100} : AskBatch(t, p)
       PROVE  ModelInv'
  BY <1>1, <1>12 DEF Forward, Lease, EndLease, AskBatch, EndsRequest
<1>13. ASSUME NEW t \in Threads, Step(t) PROVE ModelInv'
  BY <1>2, <1>3, <1>4, <1>5, <1>6, <1>7, <1>8, <1>9, <1>10, <1>12, <1>13 DEF Step
<1>14. CASE OtherProcess \/ UNCHANGED gpuVars
  BY <1>14 DEF OtherProcess, gpuVars
<1>15. QED
  BY <1>11, <1>13, <1>14 DEF GpuNext

\* Each step keeps both, whatever the other threads are doing.
LEMMA StepWork ==
  ASSUME WorkInv, LeaseTypeOK, LeaseIsExclusive, [GpuNext]_gpuVars PROVE WorkInv'
BY StepThreads, StepModels DEF WorkInv

\* No claim, sweep, release or failed load takes a model from a thread that is
\* at work with it, for any number of threads: the encoder is there, and the
\* tagger's session is missing only after a refresh of the session itself.
THEOREM WorkFindsItsModel == GpuSpec => []ForwardFindsItsModel
<1>1. GpuSpec => [](LeaseTypeOK /\ LeaseIsExclusive)
  BY LeaseIsUsedProperly, LeaseTypeCorrect, LeaseExcludes, PTL
<1>2. GpuSpec => []WorkInv
  BY InitWork, StepWork, <1>1, PTL DEF GpuSpec
<1>3. WorkInv /\ LeaseIsExclusive => ForwardFindsItsModel
  BY DEF WorkInv, ThreadInv, ModelInv, WorkersAreInside, WorkHasItsModel, OnlyARefreshLoses,
         LeaseIsExclusive, ForwardFindsItsModel, Inside
<1>4. QED
  BY <1>1, <1>2, <1>3, PTL

-----------------------------------------------------------------------------
\* Every thread is where threads of its kind can be.
PlaceOfKind ==
    \A t \in Threads : /\ Kind[t] = "style" => pc[t] \in StylePcs
                       /\ Kind[t] = "tag" => pc[t] \in TagPcs
                       /\ Kind[t] = "sweep" => pc[t] \in SweepPcs
                       /\ Kind[t] = "refresh" => pc[t] \in RefreshPcs

\* A thread of one kind stays at the places of that kind.
LEMMA StepKinds ==
  ASSUME WorkInv, residents \subseteq Models, PlaceOfKind, [GpuNext]_gpuVars
  PROVE  residents' \subseteq Models /\ PlaceOfKind'
<1> USE KindAssumption
    DEF WorkInv, ThreadInv, PlaceOfKind, StylePcs, TagPcs, SweepPcs, RefreshPcs, Models, GoesTo, models,
        EndsRequest
<1>1. ASSUME NEW t \in Threads, Request(t) PROVE residents' \subseteq Models /\ PlaceOfKind'
  <2>1. CASE AskStyle(t) \/ NextBatch(t)
    BY <2>1 DEF AskStyle, NextBatch
  <2>2. CASE AskFree(t) \/ AskSweep(t) \/ DropSession(t) \/ \E p \in Lanes : AskTag(t, p)
    BY <2>2 DEF AskFree, AskSweep, DropSession, AskTag
  <2>3. QED
    BY <1>1, <2>1, <2>2 DEF Request
<1>2. ASSUME NEW t \in Threads, TakeLoadLock(t) \/ AskBatch(t, 0) \/ AskBatch(t, 100)
             \/ LookAtModel(t) \/ TakeReloadLock(t) \/ Forward(t)
      PROVE  residents' \subseteq Models /\ PlaceOfKind'
  BY <1>2 DEF TakeLoadLock, AskBatch, LookAtModel, TakeReloadLock, Forward
<1>3. ASSUME NEW t \in Threads, BuildFirst(t) PROVE residents' \subseteq Models /\ PlaceOfKind'
  BY <1>3 DEF BuildFirst, EncoderBuilt, EncoderFails, Claim, OnCpu, Unload
<1>4. ASSUME NEW t \in Threads, EndLoad(t) PROVE residents' \subseteq Models /\ PlaceOfKind'
  BY <1>4 DEF EndLoad, Unload
<1>5. ASSUME NEW t \in Threads, Rebuild(t) PROVE residents' \subseteq Models /\ PlaceOfKind'
  BY <1>5 DEF Rebuild, EncoderBuilt, EncoderFails, Claim, OnCpu, Unload
<1>6. ASSUME NEW t \in Threads, LoadTagger(t) PROVE residents' \subseteq Models /\ PlaceOfKind'
  BY <1>6 DEF LoadTagger, Claim, OnCpu
<1>7. ASSUME NEW t \in Threads,
             Infer(t) \/ RemakeSession(t) \/ DropTagger(t) \/ ForgetTagger(t)
      PROVE  residents' \subseteq Models /\ PlaceOfKind'
  BY <1>7 DEF Infer, RemakeSession, DropTagger, ForgetTagger
<1>8. ASSUME NEW t \in Threads, ReleaseIdle(t) PROVE residents' \subseteq Models /\ PlaceOfKind'
  BY <1>8 DEF ReleaseIdle, Unload
<1>9. ASSUME NEW t \in Threads, Lease(t) \/ EndLease(t) \/ Refused(t)
      PROVE  residents' \subseteq Models /\ PlaceOfKind'
  <2>1. CASE UNCHANGED <<models, pc>>
    BY <2>1
  <2>2. CASE UNCHANGED models /\ EndsRequest(t)
    BY <2>2
  <2>3. CASE UNCHANGED models /\ pc[t] = "load" /\ GoesTo(t, "failed")
    BY <2>3
  <2>4. QED
    BY <1>9, <2>1, <2>2, <2>3 DEF Lease, EndLease, Refused
<1>10. CASE OtherProcess \/ UNCHANGED gpuVars
  BY <1>10 DEF OtherProcess, gpuVars
<1>11. QED
  BY <1>1, <1>2, <1>3, <1>4, <1>5, <1>6, <1>7, <1>8, <1>9, <1>10 DEF GpuNext, Step

\* Leases, models, the registry and every thread's place keep their types.
THEOREM GpuTypeCorrect == GpuSpec => []GpuTypeOK
<1>1. GpuSpec => [](LeaseTypeOK /\ LeaseIsExclusive)
  BY LeaseIsUsedProperly, LeaseTypeCorrect, LeaseExcludes, PTL
<1>2. GpuSpec => []WorkInv
  BY InitWork, StepWork, <1>1, PTL DEF GpuSpec
<1> DEFINE ModelKinds == residents \subseteq Models /\ PlaceOfKind
<1>3. GpuInit => ModelKinds
  BY KindAssumption DEF GpuInit, PlaceOfKind, StylePcs, TagPcs, SweepPcs, RefreshPcs
<1>4. WorkInv /\ ModelKinds /\ [GpuNext]_gpuVars => ModelKinds'
  BY StepKinds
<1>5. LeaseTypeOK /\ WorkInv /\ ModelKinds => GpuTypeOK
  BY KindAssumption DEF WorkInv, ThreadInv, ModelInv, ModelTypes, PlaceOfKind, GpuTypeOK
<1> HIDE DEF ModelKinds
<1>6. QED
  BY <1>1, <1>2, <1>3, <1>4, <1>5, PTL DEF GpuSpec

-----------------------------------------------------------------------------
\* The encoder on the GPU is always registered, and a tagger that shares the
\* GPU with it is one the registry does not have.
THEOREM OnlyTheTaggerGoesUnlisted == GpuSpec => []UnlistedIsTheTagger
<1> DEFINE Inv == /\ place \in [Models -> {"none", "gpu", "cpu"}]
                  /\ ~ {"tagger", "csd"} \subseteq residents
                  /\ UnlistedIsTheTagger
<1>1. GpuInit => Inv
  BY DEF GpuInit, Models, UnlistedIsTheTagger
<1>2. Inv /\ [GpuNext]_gpuVars => Inv'
  <2> SUFFICES ASSUME Inv, [GpuNext]_gpuVars PROVE Inv'
    OBVIOUS
  <2> USE DEF Models, UnlistedIsTheTagger, models
  <2>1. ASSUME UNCHANGED models PROVE Inv'
    BY <2>1
  <2>2. ASSUME NEW t \in Threads, BuildFirst(t) \/ Rebuild(t) \/ EndLoad(t) PROVE Inv'
    BY <2>2 DEF BuildFirst, Rebuild, EndLoad, EncoderBuilt, EncoderFails, Claim, OnCpu, Unload
  <2>3. ASSUME NEW t \in Threads, LoadTagger(t) PROVE Inv'
    BY <2>3 DEF LoadTagger, Claim, OnCpu
  <2>4. ASSUME NEW t \in Threads, Infer(t) \/ DropSession(t) PROVE Inv'
    BY <2>4 DEF Infer, DropSession
  <2>5. ASSUME NEW t \in Threads, RemakeSession(t) PROVE Inv'
    BY <2>5 DEF RemakeSession
  <2>6. ASSUME NEW t \in Threads, DropTagger(t) \/ ForgetTagger(t) \/ ReleaseIdle(t) PROVE Inv'
    BY <2>6 DEF DropTagger, ForgetTagger, ReleaseIdle, Unload
  <2>7. CASE UNCHANGED gpuVars \/ OtherProcess
    BY <2>1, <2>7 DEF gpuVars, OtherProcess
  <2>8. ASSUME NEW t \in Threads, Request(t) PROVE Inv'
    BY <2>1, <2>4, <2>8 DEF Request, AskStyle, NextBatch, AskFree, AskSweep, AskTag
  <2>9. ASSUME NEW t \in Threads, Step(t) PROVE Inv'
    BY <2>1, <2>2, <2>3, <2>4, <2>5, <2>6, <2>9
       DEF Step, TakeLoadLock, AskBatch, LookAtModel, TakeReloadLock, Forward, Lease, EndLease,
           Refused
  <2>10. QED
    BY <2>7, <2>8, <2>9 DEF GpuNext
<1>3. QED
  BY <1>1, <1>2, PTL DEF GpuSpec

\* A tagger on the GPU goes unregistered only by a release that forgets it too
\* late, by a refresh, and by a load that fails after it forgot itself.
THEOREM UnlistedWays == GpuSpec => UnlistedInThreeWays
<1> DEFINE Way == ~Unlisted /\ Unlisted' =>
                    \E t \in Threads : \/ ForgetTagger(t) \/ RemakeSession(t)
                                       \/ LoadTagger(t) /\ GoesTo(t, "done")
<1>1. WorkInv /\ [GpuNext]_gpuVars => [Way]_gpuVars
  <2> SUFFICES ASSUME WorkInv, GpuNext, ~Unlisted, Unlisted', NEW t \in Threads,
                      ~ForgetTagger(t), ~RemakeSession(t),
                      ~(LoadTagger(t) /\ GoesTo(t, "done")), Request(t) \/ Step(t)
               PROVE  FALSE
    BY DEF GpuNext, OtherProcess, Unlisted, models
  <2> USE DEF WorkInv, ModelInv, ModelTypes, Models, Unlisted, models
  <2>1. CASE UNCHANGED models
    BY <2>1
  <2>2. CASE BuildFirst(t) \/ Rebuild(t) \/ EndLoad(t)
    BY <2>2 DEF BuildFirst, Rebuild, EndLoad, EncoderBuilt, EncoderFails, Claim, OnCpu, Unload
  <2>3. CASE LoadTagger(t)
    BY <2>3 DEF LoadTagger, Claim, OnCpu
  <2>4. CASE Infer(t) \/ DropSession(t) \/ DropTagger(t) \/ ReleaseIdle(t)
    BY <2>4 DEF Infer, DropSession, DropTagger, ReleaseIdle, Unload
  <2>5. QED
    BY <2>1, <2>2, <2>3, <2>4
       DEF Request, AskStyle, NextBatch, AskFree, AskSweep, AskTag, Step, TakeLoadLock, AskBatch,
           LookAtModel, TakeReloadLock, Forward, Lease, EndLease, Refused
<1>2. GpuSpec => [](LeaseTypeOK /\ LeaseIsExclusive)
  BY LeaseIsUsedProperly, LeaseTypeCorrect, LeaseExcludes, PTL
<1>3. GpuSpec => []WorkInv
  BY InitWork, StepWork, <1>2, PTL DEF GpuSpec
<1>4. QED
  BY <1>1, <1>3, PTL DEF GpuSpec, UnlistedInThreeWays
==============================================================================
