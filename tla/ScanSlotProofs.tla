---------------------------- MODULE ScanSlotProofs ----------------------------
(***************************************************************************)
(* Proofs about ScanSlot, for every set of folders and every bound.  IInv  *)
(* says what the slot knows of a thread: one that walks is the current     *)
(* one, holds the slot and is shown as active (WalkerHoldsTheSlot), one    *)
(* that may still enter is shown as active (ClaimIsShown), no id is ahead  *)
(* of its thread (IdsAreFresh), an active slot shows the current run       *)
(* (ActiveIsCurrent), a removed root is remembered (RemovalIsKnown), and   *)
(* nothing is on while the gallery is cleared (ClearingIsAlone).           *)
(***************************************************************************)
EXTENDS ScanSlot, TLAPS

WalkerHoldsTheSlot ==
    \A r \in Runs : thread[r] \in Walking =>
        r = current /\ holder = r /\ status \in Active

ClaimIsShown ==
    \A r \in Runs : r = current /\ thread[r] = "scheduled" => status \in Active

IdsAreFresh == \A r \in Runs : r > current => thread[r] = "none"

ActiveIsCurrent == status \in Active => shown = current

RemovalIsKnown ==
    \A r \in removed :
        /\ thread[r] # "none"
        /\ r = current /\ thread[r] \in Walking \cup {"scheduled"} => suppress

ClearingIsAlone == clearing => status \notin Active

IInv == /\ TypeOK
        /\ WalkerHoldsTheSlot
        /\ ClaimIsShown
        /\ IdsAreFresh
        /\ ActiveIsCurrent
        /\ RemovalIsKnown
        /\ ClearingIsAlone

LEMMA NoneIsARequest == None \in Requests
BY ScanAssumption DEF None, Requests

LEMMA InitInv == Init => IInv
<1> SUFFICES ASSUME Init PROVE IInv
  OBVIOUS
<1>1. suppress \in BOOLEAN /\ clearing \in BOOLEAN
  BY DEF Init
<1>2. request \in [Runs -> Requests] /\ thread \in [Runs -> ThreadPcs]
  BY NoneIsARequest DEF Init, ThreadPcs
<1>3. TypeOK
  BY <1>1, <1>2, ScanAssumption DEF Init, TypeOK
<1>4. QED
  BY <1>3, ScanAssumption DEF Init, IInv, WalkerHoldsTheSlot, ClaimIsShown, IdsAreFresh,
     ActiveIsCurrent, RemovalIsKnown, ClearingIsAlone, Walking, Active, Runs

\* A claim takes an id whose thread does not exist yet.
LEMMA ClaimIsFresh ==
  ASSUME IInv, NEW ask \in Requests, StartScan(ask)
  PROVE  current + 1 \in Runs /\ thread[current + 1] = "none"
BY ScanAssumption DEF IInv, TypeOK, IdsAreFresh, StartScan, Claim, Runs

LEMMA TypeKeeps == ASSUME IInv, Next PROVE TypeOK'
<1> USE ScanAssumption DEF IInv, TypeOK, Active, Terminal, Runs, slotVars, Goes, Rest, Show
<1>1. suppress' \in BOOLEAN /\ clearing' \in BOOLEAN
  BY DEF Next, StartScan, Claim, CancelLive, CancelQueued, Acknowledge, Reset, GoIdle,
     RemoveRoot, ClearStarts, ClearEnds, ThreadStep, WalkStep, EnterThread, LookAtEvent,
     ReportProgress, WalkEnds, WalkStops, RecordRoot, RecordFails, Settle, EndThread
<1>2. ASSUME NEW ask \in Requests, StartScan(ask) PROVE TypeOK'
  <2>1. request' \in [Runs -> Requests] /\ thread' \in [Runs -> ThreadPcs]
    BY <1>2, ClaimIsFresh DEF StartScan, Claim, ThreadPcs
  <2>2. QED
    BY <1>1, <1>2, <2>1, ClaimIsFresh DEF StartScan, Claim
<1>3. CASE CancelLive
  BY <1>1, <1>3 DEF CancelLive, WorkerAlive
<1>4. CASE CancelQueued
  BY <1>1, <1>4 DEF CancelQueued, Invalidate
<1>5. CASE Acknowledge
  BY <1>1, <1>5 DEF Acknowledge, GoIdle
<1>6. CASE Reset
  BY <1>1, <1>6 DEF Reset, Invalidate, GoIdle
<1>7. ASSUME NEW f \in Folders, RemoveRoot(f) PROVE TypeOK'
  BY <1>1, <1>7 DEF RemoveRoot
<1>8. CASE ClearStarts \/ ClearEnds
  BY <1>1, <1>8 DEF ClearStarts, ClearEnds
<1>9. ASSUME NEW r \in Runs, ThreadStep(r) PROVE TypeOK'
  <2>1. thread' \in [Runs -> ThreadPcs]
    BY <1>9 DEF ThreadStep, WalkStep, EnterThread, LookAtEvent, ReportProgress, WalkEnds,
       WalkStops, RecordRoot, RecordFails, Settle, EndThread, ThreadPcs, Walking
  <2>2. CASE EnterThread(r)
    BY <1>1, <2>1, <2>2 DEF EnterThread
  <2>3. CASE LookAtEvent(r) \/ WalkEnds(r)
    BY <1>1, <2>1, <2>3 DEF LookAtEvent, WalkEnds
  <2>4. CASE RecordRoot(r)
    <3>1. roots' \subseteq Folders
      BY <2>4 DEF RecordRoot, Requests
    <3>2. QED
      BY <1>1, <2>1, <2>4, <3>1 DEF RecordRoot
  <2>5. CASE EndThread(r)
    BY <1>1, <2>1, <2>5 DEF EndThread
  <2>6. CASE ReportProgress(r) \/ WalkStops(r) \/ RecordFails(r) \/ Settle(r)
    BY <1>1, <2>1, <2>6 DEF ReportProgress, WalkStops, RecordFails, Settle,
       WalkerHoldsTheSlot, Walking
  <2>7. QED
    BY <1>9, <2>2, <2>3, <2>4, <2>5, <2>6 DEF ThreadStep, WalkStep
<1>10. QED
  BY <1>2, <1>3, <1>4, <1>5, <1>6, <1>7, <1>8, <1>9 DEF Next

\* The five parts that say who has the slot.
HeldBy == WalkerHoldsTheSlot /\ ClaimIsShown /\ IdsAreFresh /\ ActiveIsCurrent /\ ClearingIsAlone

LEMMA HolderKeeps == ASSUME IInv, Next PROVE HeldBy'
<1> USE DEF IInv, TypeOK, Active, Terminal, Walking, Runs, slotVars, Goes, Rest, Show,
        WorkerAlive, HeldBy, WalkerHoldsTheSlot, ClaimIsShown, IdsAreFresh,
        ActiveIsCurrent, ClearingIsAlone
<1>1. ASSUME NEW ask \in Requests, StartScan(ask) PROVE HeldBy'
  BY <1>1, ClaimIsFresh DEF StartScan, Claim
<1>2. CASE CancelLive
  BY <1>2 DEF CancelLive
<1>3. CASE CancelQueued
  BY <1>3 DEF CancelQueued, Invalidate
<1>4. CASE Acknowledge
  BY <1>4 DEF Acknowledge, GoIdle
<1>5. CASE Reset
  BY <1>5 DEF Reset, Invalidate, GoIdle
<1>6. ASSUME NEW f \in Folders, RemoveRoot(f) PROVE HeldBy'
  BY <1>6 DEF RemoveRoot
<1>7. CASE ClearStarts \/ ClearEnds
  BY <1>7 DEF ClearStarts, ClearEnds
<1>8. ASSUME NEW r \in Runs, ThreadStep(r) PROVE HeldBy'
  <2>1. CASE EnterThread(r)
    BY <2>1 DEF EnterThread
  <2>2. CASE WalkStep(r)
    <3>1. CASE LookAtEvent(r) \/ WalkEnds(r)
      <4>1. /\ thread[r] = "walk" /\ thread'[r] \in Walking
            /\ \A q \in Runs : q # r => thread'[q] = thread[q]
            /\ UNCHANGED <<status, shown, current, holder, clearing>>
        BY <3>1 DEF LookAtEvent, WalkEnds
      <4>2. QED
        BY <4>1
    <3>2. CASE ReportProgress(r)
      BY <3>2 DEF ReportProgress
    <3>3. CASE WalkStops(r)
      BY <3>3 DEF WalkStops
    <3>4. QED
      BY <2>2, <3>1, <3>2, <3>3 DEF WalkStep
  <2>3. CASE RecordRoot(r)
    BY <2>3 DEF RecordRoot
  <2>4. CASE RecordFails(r) \/ Settle(r)
    BY <2>4 DEF RecordFails, Settle
  <2>5. CASE EndThread(r)
    BY <2>5 DEF EndThread
  <2>6. QED
    BY <1>8, <2>1, <2>2, <2>3, <2>4, <2>5 DEF ThreadStep
<1>9. QED
  BY <1>1, <1>2, <1>3, <1>4, <1>5, <1>6, <1>7, <1>8 DEF Next

LEMMA RemovalKeeps == ASSUME IInv, Next PROVE RemovalIsKnown'
<1> USE DEF IInv, TypeOK, Active, Terminal, Walking, Runs, slotVars, Goes, Rest, RemovalIsKnown
<1>1. ASSUME NEW ask \in Requests, StartScan(ask) PROVE RemovalIsKnown'
  BY <1>1, ClaimIsFresh DEF StartScan, Claim
<1>2. CASE CancelLive
  BY <1>2 DEF CancelLive
<1>3. ASSUME CancelQueued \/ Reset PROVE RemovalIsKnown'
  <2>1. current' = current + 1 /\ UNCHANGED <<thread, removed>>
    BY <1>3 DEF CancelQueued, Reset, Invalidate
  <2>2. QED
    BY <2>1 DEF IdsAreFresh
<1>4. CASE Acknowledge
  BY <1>4 DEF Acknowledge, GoIdle, WalkerHoldsTheSlot, ClaimIsShown
<1>5. ASSUME NEW f \in Folders, RemoveRoot(f) PROVE RemovalIsKnown'
  BY <1>5 DEF RemoveRoot, WalkerHoldsTheSlot, ClaimIsShown, ActiveIsCurrent
<1>6. CASE ClearStarts \/ ClearEnds
  BY <1>6 DEF ClearStarts, ClearEnds
<1>7. ASSUME NEW r \in Runs, ThreadStep(r) PROVE RemovalIsKnown'
  BY <1>7 DEF ThreadStep, WalkStep, EnterThread, LookAtEvent, ReportProgress, WalkEnds,
     WalkStops, RecordRoot, RecordFails, Settle, EndThread
<1>8. QED
  BY <1>1, <1>2, <1>3, <1>4, <1>5, <1>6, <1>7 DEF Next

LEMMA StepKeeps == ASSUME IInv, Next PROVE IInv'
BY TypeKeeps, HolderKeeps, RemovalKeeps DEF IInv, HeldBy

\* In every reachable state IInv holds.
THEOREM Invariance == Spec => []IInv
<1>1. IInv /\ [Next]_vars => IInv'
  <2> SUFFICES ASSUME IInv, UNCHANGED vars PROVE IInv'
    BY StepKeeps
  <2>1. QED
    BY DEF vars, slotVars, IInv, TypeOK, WalkerHoldsTheSlot, ClaimIsShown,
       IdsAreFresh, ActiveIsCurrent, RemovalIsKnown, ClearingIsAlone
<1>2. QED
  BY <1>1, InitInv, PTL DEF Spec

\* Every variable of the scan slot keeps its type.
THEOREM TypeCorrect == Spec => []TypeOK
<1>1. IInv => TypeOK
  BY DEF IInv
<1>2. QED
  BY <1>1, Invariance, PTL

\* No order of claims, cancels, resets and late threads lets two threads walk
\* at once (scan.py:157-182).
THEOREM OneScanner == Spec => []AtMostOneScanner
<1>1. IInv => AtMostOneScanner
  BY DEF IInv, WalkerHoldsTheSlot, AtMostOneScanner
<1>2. QED
  BY <1>1, Invariance, PTL

\* A root that was removed while a scan of it was on is not registered again by
\* that scan (library.py:152-167, scan.py:503-514).
THEOREM RemovalIsFinal == Spec => RemovedRootStaysRemoved
<1> DEFINE Stays == \A r \in removed :
          thread[r] = "walked" /\ thread'[r] = "recorded" /\ request[r].folder \notin roots =>
              request[r].folder \notin roots'
<1>1. IInv /\ [Next]_vars => [Stays]_vars
  <2> SUFFICES ASSUME IInv, Next PROVE Stays
    OBVIOUS
  <2> SUFFICES ASSUME NEW r \in removed, thread[r] = "walked", thread'[r] = "recorded",
                      request[r].folder \notin roots
               PROVE  request[r].folder \notin roots'
    OBVIOUS
  <2> USE DEF IInv, TypeOK, Runs
  <2>1. suppress /\ r \in Runs
    BY DEF WalkerHoldsTheSlot, RemovalIsKnown, Walking
  <2>2. RecordRoot(r)
    <3>1. CASE \E ask \in Requests : StartScan(ask)
      BY <3>1 DEF StartScan, Claim
    <3>2. CASE CancelLive \/ CancelQueued \/ Acknowledge \/ Reset \/ ClearStarts \/ ClearEnds
      BY <3>2 DEF CancelLive, CancelQueued, Acknowledge, Reset, ClearStarts, ClearEnds
    <3>3. CASE \E f \in Folders : RemoveRoot(f)
      BY <3>3 DEF RemoveRoot
    <3>4. ASSUME NEW q \in Runs, ThreadStep(q), ~RecordRoot(q) PROVE FALSE
      BY <3>4 DEF ThreadStep, WalkStep, EnterThread, LookAtEvent, ReportProgress, WalkEnds,
         WalkStops, RecordFails, Settle, EndThread, Goes
    <3>5. ASSUME NEW q \in Runs, RecordRoot(q) PROVE q = r
      BY <3>5 DEF RecordRoot, Goes
    <3>6. QED
      BY <3>1, <3>2, <3>3, <3>4, <3>5 DEF Next
  <2>3. QED
    BY <2>1, <2>2 DEF RecordRoot
<1>2. QED
  BY <1>1, Invariance, PTL DEF Spec, RemovedRootStaysRemoved

\* The result of a scan the user asked for is not written over by a refresh or
\* by a late thread (scan.py:183-201).
THEOREM ResultStays == Spec => ManualResultSurvives
<1> DEFINE Survives == ManualPending =>
          \/ <<status', shown'>> = <<status, shown>>
          \/ status' = "idle"
          \/ status' = "starting" /\ request'[shown'].manual
<1>1. IInv /\ [Next]_vars => [Survives]_vars
  <2> SUFFICES ASSUME IInv, Next, ManualPending PROVE Survives
    OBVIOUS
  <2> USE DEF IInv, TypeOK, Runs, Active, Terminal, ManualPending
  <2>1. ASSUME NEW ask \in Requests, StartScan(ask) PROVE Survives
    <3>1. ask.manual /\ current + 1 \in Runs
      BY <2>1, ScanAssumption DEF StartScan, Claim
    <3>2. QED
      BY <2>1, <3>1 DEF StartScan, Claim
  <2>2. CASE CancelLive \/ CancelQueued \/ Acknowledge \/ Reset
    BY <2>2 DEF CancelLive, CancelQueued, Acknowledge, Reset, GoIdle
  <2>3. CASE (\E f \in Folders : RemoveRoot(f)) \/ ClearStarts \/ ClearEnds
    BY <2>3 DEF RemoveRoot, ClearStarts, ClearEnds, slotVars
  <2>4. ASSUME NEW r \in Runs, ThreadStep(r) PROVE Survives
    <3>1. thread[r] \notin Walking
      BY DEF WalkerHoldsTheSlot
    <3>2. EnterThread(r) \/ EndThread(r)
      BY <2>4, <3>1 DEF ThreadStep, WalkStep, LookAtEvent, ReportProgress, WalkEnds,
         WalkStops, RecordRoot, RecordFails, Settle, Goes, Walking
    <3>3. QED
      BY <3>2 DEF EnterThread, EndThread, Show
  <2>5. QED
    BY <2>1, <2>2, <2>3, <2>4 DEF Next
<1>2. QED
  BY <1>1, Invariance, PTL DEF Spec, ManualResultSurvives

\* Scans implement the gate: no thread reads or writes pictures while the gallery
\* is being cleared, and clearing starts only when none does (sorting.py:785).
THEOREM Refinement == Spec => ImplementsGate
<1> DEFINE on == {r \in Runs : thread[r] \in Walking}
<1>1. Init => Gate!Init
  BY DEF Init, Gate!Init, Walking
<1>2. IInv /\ [Next]_vars => [Gate!Next]_<<on, clearing>>
  <2> SUFFICES ASSUME IInv, [Next]_vars PROVE [Gate!Next]_<<on, clearing>>
    OBVIOUS
  <2>1. clearing => on = {}
    BY DEF IInv, WalkerHoldsTheSlot, ClearingIsAlone
  <2>2. CASE UNCHANGED vars
    BY <2>2 DEF vars
  <2>3. CASE ClearStarts
    <3>1. on = {}
      BY <2>3 DEF ClearStarts, IInv, WalkerHoldsTheSlot
    <3>2. QED
      BY <2>3, <3>1 DEF ClearStarts, Gate!Next, Gate!StartClearing
  <2>4. CASE ClearEnds
    <3>1. on' = {}
      BY <2>1, <2>4 DEF ClearEnds
    <3>2. QED
      BY <2>4, <3>1 DEF ClearEnds, Gate!Next, Gate!EndClearing
  <2>5. CASE Next /\ ~ClearStarts /\ ~ClearEnds
    <3>1. UNCHANGED clearing
      BY <2>5 DEF Next, StartScan, Claim, CancelLive, CancelQueued, Acknowledge, Reset,
         RemoveRoot, ThreadStep, WalkStep, EnterThread, LookAtEvent, ReportProgress,
         WalkEnds, WalkStops, RecordRoot, RecordFails, Settle, EndThread, Rest
    <3>2. clearing => on' = {}
      <4>1. IInv'
        BY <2>5, StepKeeps
      <4>2. QED
        BY <3>1, <4>1 DEF IInv, WalkerHoldsTheSlot, ClearingIsAlone
    <3>3. Gate!JobsChange
      BY <3>1, <3>2 DEF Gate!JobsChange
    <3>4. QED
      BY <3>3 DEF Gate!Next
  <2>6. QED
    BY <2>2, <2>3, <2>4, <2>5
<1>3. QED
  BY <1>1, <1>2, Invariance, PTL DEF Spec, ImplementsGate, Gate!Spec
=============================================================================
