--------------------------- MODULE BatchSlotProofs ---------------------------
(***************************************************************************)
(* Proofs about BatchSlot, for every set of runs and every bound.  IInv    *)
(* says who may write the status next: a busy status names an alive run    *)
(* that is current (BusySlotHasItsWorker), an alive current run implies a  *)
(* busy status (HoldersAreShown), ids are never shared (IdsAreFresh), and  *)
(* a sort that once worked late is past its last chance (LateSortIsOut).   *)
(***************************************************************************)
EXTENDS BatchSlot, TLAPS

\* Claims, cancels, resets and worker steps keep every variable within its type.
THEOREM TypeCorrect == Spec => []TypeOK
<1>1. Init => TypeOK
  <2> SUFFICES ASSUME Init PROVE TypeOK
    OBVIOUS
  <2>1. left \in [Runs -> Nat]
    BY FilesAssumption DEF Init
  <2>2. QED
    BY <2>1 DEF Init, TypeOK, Statuses, Busy, Settled, Pcs
<1>2. TypeOK /\ [Next]_vars => TypeOK'
  <2> SUFFICES ASSUME TypeOK, [Next]_vars PROVE TypeOK'
    OBVIOUS
  <2> USE DEF TypeOK, Statuses, Busy, Settled, Pcs, slot, ghosts, Goes
  <2>1. CASE UNCHANGED vars
    BY <2>1 DEF vars
  <2>2. ASSUME NEW r \in Runs, Check(r) \/ NothingToMove(r) \/ RefuseUndo(r) PROVE TypeOK'
    BY <2>2 DEF Check, NothingToMove, RefuseUndo
  <2>3. ASSUME NEW r \in Runs, ClaimSort(r) \/ ClaimUndo(r) PROVE TypeOK'
    BY <2>3 DEF ClaimSort, ClaimUndo, Take
  <2>4. ASSUME NEW r \in Runs, ReadJournal(r) PROVE TypeOK'
    BY <2>4, FilesAssumption DEF ReadJournal
  <2>5. ASSUME NEW r \in Runs, StartWork(r) \/ EndFile(r) PROVE TypeOK'
    BY <2>5 DEF StartWork, EndFile
  <2>6. ASSUME NEW r \in Runs, BeginFile(r) \/ PassOver(r) PROVE TypeOK'
    BY <2>6 DEF BeginFile, PassOver
  <2>7. ASSUME NEW r \in Runs, SeeCancel(r) \/ Complete(r) \/ Fail(r) PROVE TypeOK'
    BY <2>7 DEF SeeCancel, Complete, Fail, Report
  <2>8. ASSUME NEW r \in Runs, Close(r) PROVE TypeOK'
    BY <2>8 DEF Close
  <2>9. CASE Cancel
    BY <2>9 DEF Cancel
  <2>10. CASE Reset
    BY <2>10 DEF Reset
  <2>11. QED
    BY <2>1, <2>2, <2>3, <2>4, <2>5, <2>6, <2>7, <2>8, <2>9, <2>10
    DEF Next, Ask, Work
<1>3. QED
  BY <1>1, <1>2, PTL DEF Spec

-----------------------------------------------------------------------------
\* A run gets its id when it claims the slot, and ids only grow.
IdsAreFresh ==
    /\ \A r \in Runs : mine[r] <= epoch
    /\ \A r \in Runs : Alive(r) => mine[r] > 0
    /\ \A r, q \in Runs : mine[r] = mine[q] /\ mine[r] > 0 => r = q
    /\ \A r \in Runs : pc[r] \in {"new", "checked"} => mine[r] = 0

\* An alive run that is current is shown as busy.
HoldersAreShown == \A r \in Runs : Alive(r) /\ Current(r) => status \in Busy

\* A sort that took up a file after it lost the slot works on that file or is
\* done, and never holds the slot again.
LateSortIsOut ==
    /\ \A r \in late \cap Sorts : mine[r] < epoch /\ pc[r] \in {"file", "closing", "ended"}
    /\ AbandonedSortStops

IInv == /\ TypeOK
        /\ BusySlotHasItsWorker
        /\ CancellingReachedTheWorker
        /\ IdsAreFresh
        /\ HoldersAreShown
        /\ LateSortIsOut

LEMMA InitInv == Init => IInv
<1> SUFFICES ASSUME Init PROVE IInv
  OBVIOUS
<1>1. TypeOK
  <2>1. left \in [Runs -> Nat]
    BY FilesAssumption DEF Init
  <2>2. QED
    BY <2>1 DEF Init, TypeOK, Statuses, Busy, Settled, Pcs
<1>2. QED
  BY <1>1 DEF Init, IInv, BusySlotHasItsWorker, CancellingReachedTheWorker,
     IdsAreFresh, HoldersAreShown, LateSortIsOut, AbandonedSortStops, Busy, Alive

\* The parts every step must keep, with the definitions they stand on.
LEMMA RequestKeeps ==
  ASSUME IInv, TypeOK', NEW r \in Runs, Ask(r)
  PROVE  IInv'
<1> USE RunsAssumption DEF IInv, TypeOK, Busy, slot, ghosts, Goes, Current, Alive, Runs
<1>1. CASE Check(r) \/ NothingToMove(r) \/ ReadJournal(r) \/ RefuseUndo(r)
  BY <1>1 DEF Check, NothingToMove, ReadJournal, RefuseUndo, BusySlotHasItsWorker,
     CancellingReachedTheWorker, IdsAreFresh, HoldersAreShown, LateSortIsOut,
     AbandonedSortStops
<1>2. CASE ClaimSort(r) \/ ClaimUndo(r)
  <2>1. /\ pc[r] = "checked" /\ pc' = [pc EXCEPT ![r] = "queued"]
        /\ epoch' = epoch + 1 /\ mine' = [mine EXCEPT ![r] = epoch + 1]
        /\ event' = r /\ status' = "running"
        /\ UNCHANGED <<stopped, left, late, tooLate>>
    BY <1>2 DEF ClaimSort, ClaimUndo, Take
  <2>2. BusySlotHasItsWorker' /\ CancellingReachedTheWorker' /\ HoldersAreShown'
    BY <2>1 DEF BusySlotHasItsWorker, CancellingReachedTheWorker, HoldersAreShown
  <2>3. IdsAreFresh'
    BY <2>1 DEF IdsAreFresh
  <2>4. LateSortIsOut'
    BY <2>1 DEF LateSortIsOut, AbandonedSortStops
  <2>5. QED
    BY <2>2, <2>3, <2>4
<1>3. QED
  BY <1>1, <1>2 DEF Ask

LEMMA WorkKeeps ==
  ASSUME IInv, TypeOK', NEW r \in Runs, Work(r)
  PROVE  IInv'
<1> USE RunsAssumption DEF IInv, TypeOK, Busy, slot, ghosts, Goes, Current, Alive, Runs
<1>1. CASE StartWork(r)
  BY <1>1 DEF StartWork, BusySlotHasItsWorker, CancellingReachedTheWorker,
     IdsAreFresh, HoldersAreShown, LateSortIsOut, AbandonedSortStops
<1>2. CASE BeginFile(r)
  <2>1. BusySlotHasItsWorker' /\ CancellingReachedTheWorker' /\ IdsAreFresh'
        /\ HoldersAreShown'
    BY <1>2 DEF BeginFile, BusySlotHasItsWorker, CancellingReachedTheWorker,
       IdsAreFresh, HoldersAreShown
  <2>2. LateSortIsOut'
    <3>1. r \in Sorts => r \notin late
      BY <1>2 DEF BeginFile, LateSortIsOut
    <3>2. ~Current(r) => mine[r] < epoch
      BY DEF IdsAreFresh
    <3>3. QED
      BY <1>2, <3>1, <3>2 DEF BeginFile, LateSortIsOut, AbandonedSortStops
  <2>3. QED
    BY <2>1, <2>2
<1>3. CASE EndFile(r) \/ PassOver(r)
  BY <1>3 DEF EndFile, PassOver, BusySlotHasItsWorker, CancellingReachedTheWorker,
     IdsAreFresh, HoldersAreShown, LateSortIsOut, AbandonedSortStops
<1>4. CASE SeeCancel(r) \/ Complete(r) \/ Fail(r)
  <2>1. /\ pc[r] = "working" /\ pc' = [pc EXCEPT ![r] = "closing"]
        /\ status' = status \/ (Current(r) /\ status' \in {"cancelled", "done", "error"})
        /\ Current(r) => status' \in {"cancelled", "done", "error"}
        /\ UNCHANGED <<epoch, event, stopped, mine, left, late, tooLate>>
    BY <1>4 DEF SeeCancel, Complete, Fail, Report
  <2>2. BusySlotHasItsWorker' /\ CancellingReachedTheWorker'
    BY <2>1 DEF BusySlotHasItsWorker, CancellingReachedTheWorker
  <2>3. IdsAreFresh' /\ LateSortIsOut'
    BY <2>1 DEF IdsAreFresh, LateSortIsOut, AbandonedSortStops
  <2>4. HoldersAreShown'
    BY <2>1 DEF HoldersAreShown, IdsAreFresh
  <2>5. QED
    BY <2>2, <2>3, <2>4
<1>5. CASE Close(r)
  BY <1>5 DEF Close, BusySlotHasItsWorker, CancellingReachedTheWorker,
     IdsAreFresh, HoldersAreShown, LateSortIsOut, AbandonedSortStops
<1>6. QED
  BY <1>1, <1>2, <1>3, <1>4, <1>5 DEF Work

LEMMA UserKeeps ==
  ASSUME IInv, TypeOK', Cancel \/ Reset
  PROVE  IInv'
<1> USE RunsAssumption DEF IInv, TypeOK, Busy, slot, ghosts, Goes, Current, Alive, Runs
<1>1. CASE Cancel
  BY <1>1 DEF Cancel, BusySlotHasItsWorker, CancellingReachedTheWorker,
     IdsAreFresh, HoldersAreShown, LateSortIsOut, AbandonedSortStops
<1>2. CASE Reset
  BY <1>2 DEF Reset, BusySlotHasItsWorker, CancellingReachedTheWorker,
     IdsAreFresh, HoldersAreShown, LateSortIsOut, AbandonedSortStops
<1>3. QED
  BY <1>1, <1>2

\* In every reachable state IInv holds.
THEOREM Invariance == Spec => []IInv
<1>1. IInv /\ TypeOK' /\ [Next]_vars => IInv'
  <2> SUFFICES ASSUME IInv, TypeOK', [Next]_vars PROVE IInv'
    OBVIOUS
  <2>1. CASE UNCHANGED vars
    BY <2>1 DEF vars, slot, ghosts, IInv, TypeOK, BusySlotHasItsWorker,
       CancellingReachedTheWorker, IdsAreFresh, HoldersAreShown, LateSortIsOut,
       AbandonedSortStops, Alive, Current
  <2>2. QED
    BY <2>1, RequestKeeps, WorkKeeps, UserKeeps DEF Next
<1>2. QED
  BY <1>1, InitInv, TypeCorrect, PTL DEF Spec

\* A busy slot always names an alive worker that will free it, and its cancel
\* event is the one a cancel sets: no order of starts, undos, cancels and resets
\* strands the slot (batch_move.py:286-307).
THEOREM SlotIsHeld == Spec => []BusySlotHasItsWorker
<1>1. IInv => BusySlotHasItsWorker
  BY DEF IInv
<1>2. QED
  BY <1>1, Invariance, PTL

\* Whenever the slot shows "cancelling", its worker has been told (state.py:584).
THEOREM CancelIsDelivered == Spec => []CancellingReachedTheWorker
<1>1. IInv => CancellingReachedTheWorker
  BY DEF IInv
<1>2. QED
  BY <1>1, Invariance, PTL

\* A sort run that lost the slot takes up at most one more file
\* (batch_move.py:463-477).
THEOREM LateSortsAreBounded == Spec => []AbandonedSortStops
<1>1. IInv => AbandonedSortStops
  BY DEF IInv, LateSortIsOut
<1>2. QED
  BY <1>1, Invariance, PTL

\* A settled or idle report gives way only to a new claim or a reset, whatever
\* abandoned workers do later (state.py:599-605).
THEOREM ReportsStay == Spec => ReportsAreNotOverwritten
<1>1. IInv /\ [Next]_vars => [(status \notin Busy /\ status' # status) => epoch' # epoch]_vars
  <2> SUFFICES ASSUME IInv, Next, status \notin Busy, status' # status
               PROVE  epoch' # epoch
    BY DEF vars
  <2> USE DEF IInv, TypeOK, slot, ghosts, Goes
  <2>1. ASSUME NEW r \in Runs, Ask(r) PROVE epoch' # epoch
    BY <2>1 DEF Ask, Check, ClaimSort, NothingToMove, ReadJournal, ClaimUndo,
       RefuseUndo, Take
  <2>2. ASSUME NEW r \in Runs, Work(r) PROVE epoch' # epoch
    <3>1. ~(Alive(r) /\ Current(r))
      BY DEF HoldersAreShown
    <3>2. QED
      BY <2>2, <3>1 DEF Work, StartWork, BeginFile, EndFile, PassOver, SeeCancel, Complete,
         Fail, Close, Report, Alive
  <2>3. CASE Cancel
    BY <2>3 DEF Cancel
  <2>4. CASE Reset
    BY <2>4 DEF Reset
  <2>5. QED
    BY <2>1, <2>2, <2>3, <2>4 DEF Next
<1>2. QED
  BY <1>1, Invariance, PTL DEF Spec, ReportsAreNotOverwritten
=============================================================================
