---------------------------- MODULE SortingProofs ----------------------------
(* Proofs about manual sorting: slot mode (SortSession), for any set of       *)
(* pictures, lists, effects and starters, and the bracket and cull modes      *)
(* (Workbench), for any lists, modes and answers.                             *)
(*                                                                            *)
(* Slot mode.  TypedInv types the session, its file and the action that holds *)
(* the lock.  OrderInv adds that history and redo stack name pictures in the  *)
(* order of the list, with room for the cursor between them.  Where no        *)
(* picture goes missing and no session is cleared, the two stacks are the     *)
(* list itself (AlignedInv), the file is the session after every save         *)
(* (SavedInv), and effects and entries differ by one effect per crash         *)
(* (LedgerInv).                                                               *)
(*                                                                            *)
(* Bracket and cull.  PlacesFit lays history and redo stack out as one line   *)
(* and says that each entry follows from the entries before it, as the places *)
(* of the session follow from the history: undo and redo only move along the  *)
(* line, and a read may pass only pictures whose row says they are broken.    *)
EXTENDS SortSession, Workbench, SubsequenceProofs

------------------------------------------------------------------------------
(* Slot mode: types                                                           *)

NoRepeats(l) == \A p, q \in 1..Len(l) : l[p] = l[q] => p = q

SessionOK(f) ==
    /\ f.active \in BOOLEAN /\ f.slots \in BOOLEAN
    /\ f.ids \in Seq(Images) /\ NoRepeats(f.ids)
    /\ f.index \in Nat
    /\ f.history \in Seq(Entries) /\ f.redo \in Seq(Entries)

Actions == {"move", "collect", "skip"}

FileOK == disk # None => SessionOK(disk)
LibraryOK ==
    /\ image \in [Images -> {"ok", "nofile", "norow"}]
    /\ applied \in SUBSET (Images \X Actions) /\ base \in SUBSET (Images \X Actions)

\* A sort action that holds the lock is about the entry its stack or cursor shows.
PendingOK ==
    \/ pending = None
    \/ /\ pending # None
       /\ pending.entry \in Entries
       /\ pending.kind \in {"decide", "undo", "redo"}
       /\ pending.kind = "decide" =>
             /\ index < Len(ids) /\ pending.entry.image = ids[index + 1]
             /\ pending.entry.action \in Keys
       /\ pending.kind = "undo" => history # <<>> /\ pending.entry = Last(history)
       /\ pending.kind = "redo" => redo # <<>> /\ pending.entry = Last(redo)

RequestsOK ==
    \A s \in Starters : \/ request[s] = None
                        \/ request[s].ids \in Lists /\ request[s] # None
RequestsAre == request = [s \in Starters |-> request[s]]

CountsOK == unsaved \in Nat /\ crashes \in Nat /\ saved \in BOOLEAN

TypedInv == /\ SessionOK(Persisted) /\ FileOK /\ LibraryOK /\ PendingOK
            /\ RequestsAre /\ RequestsOK /\ CountsOK

\* The lists a start may select have no repeats.
LEMMA ListsAreOK ==
  ASSUME NEW l \in Lists
  PROVE  l \in Seq(Images) /\ NoRepeats(l)
BY ListsAssumption DEF NoRepeats

\* The lists and stacks of an empty session.
LEMMA EmptySession ==
  /\ NoRepeats(<<>>) /\ <<>> \in Seq(Images) /\ <<>> \in Seq(Entries)
BY DEF NoRepeats

\* A saved session is not the absence of one.
LEMMA NoneIsNoFile ==
  ASSUME NEW x \in BOOLEAN, NEW l \in Seq(Images), NEW n \in Nat,
         NEW h \in Seq(Entries), NEW r \in Seq(Entries), NEW s \in BOOLEAN
  PROVE  [active |-> x, ids |-> l, index |-> n, history |-> h, redo |-> r, slots |-> s] # None
BY NoneAssumption

\* A save writes the session as it is after the step, or leaves the old file.
LEMMA SaveTypes ==
  ASSUME FileOK, CountsOK, SessionOK(Persisted)', Save, UNCHANGED crashes
  PROVE  FileOK' /\ CountsOK'
<1>1. Persisted' # None
  BY NoneIsNoFile DEF SessionOK, Persisted
<1>2. FileOK'
  BY <1>1 DEF FileOK, Save
<1>3. CountsOK'
  <2>1. unsaved' \in Nat /\ crashes' \in Nat
    BY DEF CountsOK, Save
  <2>2. saved' \in BOOLEAN
    BY Zenon DEF CountsOK, Save
  <2>3. QED
    BY <2>1, <2>2 DEF CountsOK
<1>4. QED
  BY <1>2, <1>3

\* A part of a list without repeats has no repeats.
LEMMA PickOfList ==
  ASSUME NEW l \in Seq(Images), NoRepeats(l), NEW P
  PROVE  Pick(l, P) \in Seq(Images) /\ NoRepeats(Pick(l, P))
<1>1. Pick(l, P) \in Seq(Images)
  BY PickTakes
<1>2. PICK at : TakenFrom(Pick(l, P), l, P, Len(l), at)
  BY PickTakes
<1>3. ASSUME NEW p \in 1..Len(Pick(l, P)), NEW q \in 1..Len(Pick(l, P)), Pick(l, P)[p] = Pick(l, P)[q]
      PROVE  p = q
  <2>1. at[p] \in 1..Len(l) /\ at[q] \in 1..Len(l) /\ l[at[p]] = l[at[q]]
    BY <1>2, <1>3 DEF TakenFrom
  <2>2. at[p] = at[q]
    BY <2>1 DEF NoRepeats
  <2>3. ~(p < q) /\ ~(q < p)
    BY <1>2, <2>1, <2>2 DEF TakenFrom
  <2>4. Len(Pick(l, P)) \in Nat
    BY <1>1
  <2>5. QED
    BY <2>3, <2>4
<1>4. QED
  BY <1>1, <1>3 DEF NoRepeats

\* A session read back from its file is one again.
LEMMA RestoredIsOK ==
  ASSUME NEW f, SessionOK(f)
  PROVE  SessionOK(Restored(f)) 
<1> DEFINE rows == {p \in DOMAIN f.ids : Present(f.ids[p])}
           behind == {p \in rows : p <= f.index}
<1>1. f.ids \in Seq(Images) /\ NoRepeats(f.ids) /\ f.history \in Seq(Entries) /\ f.redo \in Seq(Entries)
      /\ f.slots \in BOOLEAN
  BY DEF SessionOK
<1>2. Cardinality(behind) \in Nat
  <2>1. IsFiniteSet(DOMAIN f.ids)
    BY <1>1, FS_Interval
  <2>2. behind \subseteq DOMAIN f.ids
    OBVIOUS
  <2>3. QED
    BY <2>1, <2>2, FS_Subset, FS_CardinalityType
<1>3. /\ Restored(f).active = TRUE
      /\ Restored(f).slots = f.slots
      /\ Restored(f).ids = Pick(f.ids, rows)
      /\ Restored(f).index = Cardinality(behind)
  BY DEF Restored
<1>4. (\E P : Restored(f).history = Pick(f.history, P)) /\ (\E P : Restored(f).redo = Pick(f.redo, P))
  BY DEF Restored
<1>5. Restored(f).history \in Seq(Entries) /\ Restored(f).redo \in Seq(Entries)
  BY <1>1, <1>4, PickTakes
<1>6. Restored(f).ids \in Seq(Images) /\ NoRepeats(Restored(f).ids)
  BY <1>1, <1>3, PickOfList
<1>7. QED
  BY <1>1, <1>2, <1>3, <1>5, <1>6 DEF SessionOK

------------------------------------------------------------------------------
(* One step *)

\* A step that leaves the session, the file, the library's effects and the lock.
LEMMA ReadsKeepTypes ==
  ASSUME TypedInv, UNCHANGED <<memory, file, library, base, pending, crashes>>,
         RequestsAre' /\ RequestsOK'
  PROVE  TypedInv'
BY DEF TypedInv, memory, file, library, SessionOK, Persisted, FileOK, LibraryOK, PendingOK, CountsOK

\* The first state.
LEMMA InitTyped == Init => TypedInv
<1> SUFFICES ASSUME Init PROVE TypedInv
  OBVIOUS
<1>1. SessionOK(Persisted)
  BY EmptySession DEF Init, SessionOK, Persisted
<1>2. FileOK /\ PendingOK
  BY DEF Init, FileOK, PendingOK
<1>3. LibraryOK
  BY DEF Init, LibraryOK
<1>4. RequestsAre /\ RequestsOK
  BY DEF Init, RequestsAre, RequestsOK
<1>5. unsaved = 0 /\ crashes = 0 /\ saved = TRUE
  BY DEF Init
<1>6. CountsOK
  BY <1>5 DEF CountsOK
<1>7. QED
  BY <1>1, <1>2, <1>3, <1>4, <1>6 DEF TypedInv

\* A start that begins keeps the types.
LEMMA BeginStartTypes ==
  ASSUME TypedInv, NEW s \in Starters, NEW l \in Lists, NEW replace \in BOOLEAN,
         BeginStart(s, l, replace)
  PROVE  TypedInv'
<1>1. [ids |-> l, replace |-> replace] # None
  BY NoneAssumption, ListsAreOK
<1>2. RequestsAre' /\ RequestsOK'
  BY <1>1 DEF BeginStart, TypedInv, RequestsAre, RequestsOK
<1>3. QED
  BY <1>2, ReadsKeepTypes DEF BeginStart

\* A start that commits keeps the types.
LEMMA StartedTypes ==
  ASSUME TypedInv, NEW s \in Starters, CommitStart(s)
  PROVE  TypedInv'
<1>1. request[s].ids \in Seq(Images) /\ NoRepeats(request[s].ids)
  BY ListsAreOK DEF CommitStart, TypedInv, RequestsOK
<1>2. SessionOK(Persisted)'
  BY <1>1, EmptySession DEF CommitStart, SessionOK, Persisted
<1>3. FileOK' /\ CountsOK'
  BY <1>2, SaveTypes DEF CommitStart, TypedInv
<1>4. RequestsAre' /\ RequestsOK'
  BY DEF CommitStart, TypedInv, RequestsAre, RequestsOK
<1>5. LibraryOK'
  BY DEF CommitStart, TypedInv, LibraryOK, library
<1>6. PendingOK'
  BY DEF CommitStart, LockFree, PendingOK
<1>7. QED
  BY <1>2, <1>3, <1>4, <1>5, <1>6 DEF TypedInv

\* Steps that move the cursor on or change the slots, under the lock.
LEMMA SteppedTypes ==
  ASSUME TypedInv, LockFree, UNCHANGED <<active, ids, history, redo, library, base, pending, request, crashes>>,
         index' \in Nat, slots' \in BOOLEAN, Save
  PROVE  TypedInv'
<1>1. SessionOK(Persisted)'
  BY DEF TypedInv, SessionOK, Persisted
<1>2. FileOK' /\ CountsOK'
  BY <1>1, SaveTypes DEF TypedInv
<1>3. LibraryOK' /\ RequestsAre' /\ RequestsOK'
  BY DEF TypedInv, LibraryOK, RequestsAre, RequestsOK, library
<1>4. PendingOK'
  BY DEF LockFree, PendingOK
<1>5. QED
  BY <1>1, <1>2, <1>3, <1>4 DEF TypedInv

\* A sort action begins: its effect is done, the lock stays taken.
Shows(k, e) ==
    /\ k = "decide" => index < Len(ids) /\ e.image = ids[index + 1] /\ e.action \in Keys
    /\ k = "undo" => history # <<>> /\ e = Last(history)
    /\ k = "redo" => redo # <<>> /\ e = Last(redo)

\* So does whatever takes the lock for an entry that stack or cursor shows.
LEMMA BegunTypes ==
  ASSUME TypedInv, NEW e \in Entries, NEW k \in {"decide", "undo", "redo"},
         Holds(k, e), Shows(k, e), applied' \in SUBSET (applied \cup {<<e.image, e.action>>}),
         UNCHANGED <<memory, file, image, base, request, crashes>>
  PROVE  TypedInv'
<1>1. pending' # None /\ pending'.entry = e /\ pending'.kind = k
  BY NoneAssumption DEF Holds
<1>2. PendingOK'
  BY <1>1 DEF PendingOK, Shows, memory, Keys
<1>3. e.image \in Images /\ e.action \in Actions
  BY DEF Entries, Actions
<1>4. LibraryOK'
  BY <1>3 DEF TypedInv, LibraryOK
<1>5. SessionOK(Persisted)' /\ FileOK' /\ CountsOK' /\ RequestsAre' /\ RequestsOK'
  BY DEF TypedInv, SessionOK, Persisted, FileOK, CountsOK, RequestsAre, RequestsOK, memory, file
<1>6. QED
  BY <1>2, <1>4, <1>5 DEF TypedInv

\* The parts of a stack are entries.
LEMMA LastOfEntries ==
  ASSUME NEW h \in Seq(Entries), h # <<>>
  PROVE  Last(h) \in Entries /\ Front(h) \in Seq(Entries)
BY DEF Last, Front

\* A decision, an undo and a redo begin with an entry that is shown.
LEMMA BeginDecideTypes ==
  ASSUME TypedInv, NEW key \in Keys, BeginDecide(key)
  PROVE  TypedInv'
<1> DEFINE e == [action |-> key, image |-> Current, prior |-> <<Current, key>> \in applied]
<1>1. Current \in Images
  BY DEF BeginDecide, Begins, TypedInv, SessionOK, Persisted, Current
<1>2. key \in {"move", "collect", "skip"}
  BY EffectsAssumption DEF Keys
<1>3. (<<Current, key>> \in applied) \in BOOLEAN
  OBVIOUS
<1>4. e \in Entries
  BY <1>1, <1>2, <1>3 DEF Entries
<1>5. Shows("decide", e)
  BY DEF BeginDecide, Shows, Current
<1>6. applied' \in SUBSET (applied \cup {<<e.image, e.action>>})
  BY DEF BeginDecide
<1>7. Holds("decide", e) /\ UNCHANGED <<memory, file, image, base, request, crashes>>
  BY DEF BeginDecide
<1> HIDE DEF e
<1>8. QED
  BY <1>4, <1>5, <1>6, <1>7, BegunTypes

\* An undo begins with the last entry of the history.
LEMMA BeginUndoTypes ==
  ASSUME TypedInv, BeginUndo
  PROVE  TypedInv'
<1>1. Last(history) \in Entries
  BY LastOfEntries DEF BeginUndo, TypedInv, SessionOK, Persisted
<1>2. Shows("undo", Last(history))
  BY DEF BeginUndo, Shows
<1>3. applied' \in SUBSET (applied \cup {<<Last(history).image, Last(history).action>>})
  BY DEF BeginUndo, TakeBack
<1>4. QED
  BY <1>1, <1>2, <1>3, BegunTypes DEF BeginUndo

\* A redo begins with the last entry of the redo stack.
LEMMA BeginRedoTypes ==
  ASSUME TypedInv, BeginRedo
  PROVE  TypedInv'
<1>1. Last(redo) \in Entries
  BY LastOfEntries DEF BeginRedo, TypedInv, SessionOK, Persisted
<1>2. Shows("redo", Last(redo))
  BY DEF BeginRedo, Shows
<1>3. applied' \in SUBSET (applied \cup {<<Last(redo).image, Last(redo).action>>})
  BY DEF BeginRedo
<1>4. QED
  BY <1>1, <1>2, <1>3, BegunTypes DEF BeginRedo

\* A sort action ends with its stacks and its cursor moved.
LEMMA FinishedTypes ==
  ASSUME TypedInv, NEW kind, Finish(kind), index' \in Nat,
         history' \in Seq(Entries), redo' \in Seq(Entries),
         Save \/ UNCHANGED file
  PROVE  TypedInv'
<1>1. SessionOK(Persisted)'
  BY DEF TypedInv, SessionOK, Persisted, Finish
<1>2. FileOK' /\ CountsOK'
  <2>1. CASE Save
    BY <1>1, <2>1, SaveTypes DEF TypedInv, Finish
  <2>2. CASE UNCHANGED file
    BY <2>2 DEF TypedInv, FileOK, CountsOK, file, Finish, SessionOK
  <2>3. QED
    BY <2>1, <2>2
<1>3. LibraryOK' /\ RequestsAre' /\ RequestsOK' /\ PendingOK'
  BY DEF TypedInv, LibraryOK, RequestsAre, RequestsOK, library, Finish, PendingOK
<1>4. QED
  BY <1>1, <1>2, <1>3 DEF TypedInv

\* A sort action ends with the session, and perhaps its file, changed.
LEMMA FinishTypes ==
  ASSUME TypedInv, FinishAction
  PROVE  TypedInv'
<1>1. /\ index \in Nat /\ history \in Seq(Entries) /\ redo \in Seq(Entries)
      /\ <<>> \in Seq(Entries)
  BY EmptySession DEF TypedInv, SessionOK, Persisted
<1>2. CASE FinishDecide
  <2>1. pending.entry \in Entries
    BY <1>2 DEF TypedInv, PendingOK, FinishDecide, Finish
  <2>2. index' \in Nat /\ history' \in Seq(Entries) /\ redo' \in Seq(Entries)
    BY <1>1, <1>2, <2>1 DEF FinishDecide
  <2>3. QED
    BY <1>2, <2>2, FinishedTypes DEF FinishDecide
<1>3. CASE FinishUndo
  <2>1. pending.entry \in Entries /\ history # <<>>
    BY <1>3 DEF TypedInv, PendingOK, FinishUndo, Finish
  <2>2. index' \in Nat /\ history' \in Seq(Entries) /\ redo' \in Seq(Entries)
    BY <1>1, <1>3, <2>1, LastOfEntries DEF FinishUndo
  <2>3. Save \/ UNCHANGED file
    BY <1>3 DEF FinishUndo
  <2>4. QED
    BY <1>3, <2>2, <2>3, FinishedTypes DEF FinishUndo
<1>4. CASE FinishRedo
  <2>1. pending.entry \in Entries /\ redo # <<>>
    BY <1>4 DEF TypedInv, PendingOK, FinishRedo, Finish
  <2>2. index' \in Nat /\ history' \in Seq(Entries) /\ redo' \in Seq(Entries)
    BY <1>1, <1>4, <2>1, LastOfEntries DEF FinishRedo
  <2>3. QED
    BY <1>4, <2>2, FinishedTypes DEF FinishRedo
<1>5. QED
  BY <1>2, <1>3, <1>4 DEF FinishAction

\* A clear keeps the types.
LEMMA ClearTypes == ASSUME TypedInv, Clear PROVE TypedInv'
<1>1. SessionOK(Persisted)'
  BY EmptySession DEF Clear, SessionOK, Persisted
<1>2. FileOK' /\ LibraryOK' /\ PendingOK' /\ RequestsAre' /\ RequestsOK'
  BY DEF Clear, TypedInv, FileOK, SessionOK, LibraryOK, PendingOK, LockFree, RequestsAre,
     RequestsOK, library
<1>3. unsaved' \in Nat /\ crashes' \in Nat /\ saved' = TRUE
  BY DEF Clear, TypedInv, CountsOK
<1>4. QED
  BY <1>1, <1>2, <1>3 DEF TypedInv, CountsOK

\* So does the removal of the file by the loop.
LEMMA RemoveFileTypes == ASSUME TypedInv, RemoveFile PROVE TypedInv'
<1>1. SessionOK(Persisted)' /\ LibraryOK' /\ PendingOK' /\ RequestsAre' /\ RequestsOK'
  BY DEF RemoveFile, TypedInv, SessionOK, Persisted, LibraryOK, PendingOK, RequestsAre,
     RequestsOK, library, memory
<1>2. FileOK'
  BY DEF RemoveFile, FileOK
<1>3. CountsOK'
  BY DEF RemoveFile, TypedInv, CountsOK
<1>4. QED
  BY <1>1, <1>2, <1>3 DEF TypedInv

\* So does a picture that goes or comes back.
LEMMA DamageTypes == ASSUME TypedInv, NEW i \in Images, Damage(i) PROVE TypedInv'
<1>1. LibraryOK'
  BY DEF Damage, TypedInv, LibraryOK
<1>2. SessionOK(Persisted)' /\ FileOK' /\ CountsOK' /\ PendingOK' /\ RequestsAre' /\ RequestsOK'
  BY DEF Damage, TypedInv, SessionOK, Persisted, FileOK, CountsOK, PendingOK, RequestsAre,
     RequestsOK, memory, file
<1>3. QED
  BY <1>1, <1>2 DEF TypedInv

\* So does a restart.
LEMMA CrashTypes == ASSUME TypedInv, CrashAndRestart PROVE TypedInv'
<1>1. RequestsAre' /\ RequestsOK' /\ PendingOK'
  BY DEF CrashAndRestart, RequestsAre, RequestsOK, PendingOK
<1>2. LibraryOK'
  BY DEF CrashAndRestart, TypedInv, LibraryOK, library
<1>3. crashes' \in Nat
  BY DEF CrashAndRestart, TypedInv, CountsOK
<1>4. CASE Resumes
  <2> DEFINE r == Restored(disk)
  <2>1. SessionOK(r)
    BY <1>4, RestoredIsOK DEF TypedInv, FileOK, Resumes
  <2>2. /\ active' = TRUE /\ ids' = r.ids /\ index' = r.index
        /\ history' = r.history /\ redo' = r.redo /\ slots' = r.slots /\ Save
    BY <1>4 DEF CrashAndRestart, Restore
  <2> HIDE DEF r
  <2>3. SessionOK(Persisted)'
    BY <2>1, <2>2 DEF SessionOK, Persisted
  <2>4. Persisted' # None
    BY <2>3, NoneIsNoFile DEF SessionOK, Persisted
  <2>5. FileOK'
    BY <2>2, <2>3, <2>4 DEF FileOK, Save, SessionOK, TypedInv
  <2>6. unsaved' \in Nat
    BY <2>2 DEF Save, TypedInv, CountsOK
  <2>7. saved' \in BOOLEAN
    BY <2>2 DEF Save
  <2>8. QED
    BY <1>1, <1>2, <1>3, <2>3, <2>5, <2>6, <2>7 DEF TypedInv, CountsOK
<1>5. CASE ~Resumes
  <2>1. /\ active' = FALSE /\ ids' = <<>> /\ index' = 0
        /\ history' = <<>> /\ redo' = <<>> /\ slots' = FALSE /\ saved' = TRUE
        /\ disk' = None \/ disk' = disk
        /\ UNCHANGED unsaved
    BY <1>5 DEF CrashAndRestart, Restore
  <2>2. SessionOK(Persisted)'
    BY <2>1, EmptySession DEF SessionOK, Persisted
  <2>3. FileOK'
    BY <2>1 DEF FileOK, TypedInv, SessionOK
  <2>4. QED
    BY <1>1, <1>2, <1>3, <2>1, <2>2, <2>3 DEF TypedInv, CountsOK
<1>6. QED
  BY <1>4, <1>5

\* So does a cursor that is moved on past pictures, and a change of folders.
LEMMA SteppedOnTypes ==
  ASSUME TypedInv, GetAdvance \/ StepOverMissingRow \/ SetFolders
  PROVE  TypedInv'
<1>1. index \in Nat
  BY DEF TypedInv, SessionOK, Persisted
<1>2. slots \in BOOLEAN
  BY DEF TypedInv, SessionOK, Persisted
<1>3. CASE GetAdvance
  BY <1>1, <1>2, <1>3, SteppedTypes DEF GetAdvance
<1>4. CASE StepOverMissingRow
  BY <1>1, <1>2, <1>4, SteppedTypes DEF StepOverMissingRow, Begins
<1>5. CASE SetFolders
  BY <1>1, <1>2, <1>5, SteppedTypes DEF SetFolders
<1>6. QED
  BY <1>3, <1>4, <1>5

\* So does a read of the current picture.
LEMMA ReadsTypes ==
  ASSUME TypedInv, BeginGet \/ GetRead \/ GetLook
  PROVE  TypedInv'
<1>1. RequestsAre' /\ RequestsOK'
  BY DEF BeginGet, GetRead, GetLook, TypedInv, RequestsAre, RequestsOK
<1>2. QED
  BY <1>1, ReadsKeepTypes DEF BeginGet, GetRead, GetLook

\* Every step keeps the types.
LEMMA StepTypes == ASSUME TypedInv, [Next]_vars PROVE TypedInv'
<1>1. ASSUME NEW s \in Starters, NEW l \in Lists, NEW replace \in BOOLEAN, BeginStart(s, l, replace)
      PROVE  TypedInv'
  BY <1>1, BeginStartTypes
<1>2. ASSUME NEW s \in Starters, CommitStart(s) PROVE TypedInv'
  BY <1>2, StartedTypes
<1>3. CASE BeginGet \/ GetRead \/ GetLook
  BY <1>3, ReadsTypes
<1>4. CASE GetAdvance \/ StepOverMissingRow \/ SetFolders
  BY <1>4, SteppedOnTypes
<1>5. ASSUME NEW key \in Keys, BeginDecide(key) PROVE TypedInv'
  BY <1>5, BeginDecideTypes
<1>6. CASE BeginUndo
  BY <1>6, BeginUndoTypes
<1>7. CASE BeginRedo
  BY <1>7, BeginRedoTypes
<1>8. CASE FinishAction
  BY <1>8, FinishTypes
<1>9. CASE Clear
  BY <1>9, ClearTypes
<1>10. CASE RemoveFile
  BY <1>10, RemoveFileTypes
<1>11. CASE CrashAndRestart
  BY <1>11, CrashTypes
<1>12. ASSUME NEW i \in Images, Damage(i) PROVE TypedInv'
  BY <1>12, DamageTypes
<1>13. CASE UNCHANGED vars
  <2>1. RequestsAre' /\ RequestsOK'
    BY <1>13 DEF vars, TypedInv, RequestsAre, RequestsOK
  <2>2. QED
    BY <1>13, <2>1, ReadsKeepTypes DEF vars
<1>14. QED
  BY <1>1, <1>2, <1>3, <1>4, <1>5, <1>6, <1>7, <1>8, <1>9, <1>10, <1>11, <1>12, <1>13
     DEF Next, Request, LoopStep

\* The session, its file and the action that holds the lock keep their types.
THEOREM SessionTyped == Spec => []TypedInv
<1>1. Init => TypedInv
  BY InitTyped
<1>2. TypedInv /\ [Next]_vars => TypedInv'
  BY StepTypes
<1>3. QED
  BY <1>1, <1>2, PTL DEF Spec

------------------------------------------------------------------------------
(* The order of what was decided *)

Listed(l, i) == \E p \in 1..Len(l) : l[p] = i
PlaceOf(l, i) == CHOOSE p \in 1..Len(l) : l[p] = i

\* A picture of a list without repeats has one place in it.
LEMMA ListedPlaces ==
  ASSUME NEW l \in Seq(Images), NoRepeats(l)
  PROVE  /\ \A i : Listed(l, i) => PlaceOf(l, i) \in 1..Len(l) /\ l[PlaceOf(l, i)] = i
         /\ \A p \in 1..Len(l) : Listed(l, l[p]) /\ PlaceOf(l, l[p]) = p
<1>1. ASSUME NEW i, Listed(l, i) PROVE PlaceOf(l, i) \in 1..Len(l) /\ l[PlaceOf(l, i)] = i
  BY <1>1 DEF Listed, PlaceOf
<1>2. ASSUME NEW p \in 1..Len(l) PROVE Listed(l, l[p]) /\ PlaceOf(l, l[p]) = p
  <2>1. Listed(l, l[p])
    BY DEF Listed
  <2>2. QED
    BY <1>1, <2>1 DEF NoRepeats
<1>3. QED
  BY <1>1, <1>2

\* The places a of the history and b of the redo stack, with n places behind the cursor:
\* the history goes up and the redo stack on from it, and both leave room for each other.
Ordered(n, a, b) ==
    /\ \A p \in 1..Len(a) : a[p] + Len(a) <= n + p
    /\ \A p \in 1..Len(b) : b[p] + p <= n + Len(b) + 1
    /\ \A p, q \in 1..Len(a) : p < q => a[p] < a[q]
    /\ \A p, q \in 1..Len(b) : p < q => b[q] < b[p]
    /\ \A p \in 1..Len(a), q \in 1..Len(b) : a[p] < b[q]

Numbers == Nat \ {0}

\* Numbers that leave room before n leave room before n + 1.
LEMMA AdvanceKeepsOrder ==
  ASSUME NEW n \in Nat, NEW a \in Seq(Numbers), NEW b \in Seq(Numbers), Ordered(n, a, b)
  PROVE  Ordered(n + 1, a, b)
BY DEF Ordered, Numbers

\* A decision appends the place behind the cursor.
LEMMA DecideKeepsOrder ==
  ASSUME NEW n \in Nat, NEW a \in Seq(Numbers), NEW b \in Seq(Numbers), Ordered(n, a, b)
  PROVE  Ordered(n + 1, Append(a, n + 1), <<>>)
<1>1. n + 1 \in Numbers
  BY DEF Numbers
<1>2. \A p \in 1..Len(a) : a[p] \in Numbers
  OBVIOUS
<1>3. Len(<<>>) = 0 /\ Len(a) \in Nat
  OBVIOUS
<1>4. PICK c : c = Append(a, n + 1)
  OBVIOUS
<1>5. Len(c) = Len(a) + 1 /\ c[Len(a) + 1] = n + 1 /\ \A p \in 1..Len(a) : c[p] = a[p]
  BY <1>1, <1>4, Extends
<1>6. QED
  BY <1>2, <1>3, <1>4, <1>5 DEF Ordered, Numbers

\* An undo moves the last place over and the cursor back.
LEMMA UndoKeepsOrder ==
  ASSUME NEW n \in Nat, NEW a \in Seq(Numbers), NEW b \in Seq(Numbers), Ordered(n, a, b), a # <<>>
  PROVE  n > 0 /\ Ordered(n - 1, Front(a), Append(b, Last(a)))
<1>1. /\ \A p \in 1..Len(a) : a[p] \in Numbers
      /\ \A p \in 1..Len(b) : b[p] \in Numbers
      /\ Len(b) \in Nat
  OBVIOUS
<1>2. PICK c, d : c = Front(a) /\ d = Append(b, Last(a))
  OBVIOUS
<1>3. /\ Len(a) \in Nat \ {0} /\ Len(c) = Len(a) - 1
      /\ \A p \in 1..Len(a) - 1 : c[p] = a[p]
      /\ Last(a) = a[Len(a)] /\ Last(a) \in Numbers
  BY <1>2, Split
<1>4. Len(d) = Len(b) + 1 /\ d[Len(b) + 1] = a[Len(a)] /\ \A p \in 1..Len(b) : d[p] = b[p]
  BY <1>2, <1>3, Extends
<1>5. Len(a) \in 1..Len(a)
  BY <1>3
<1>6. \A p \in 1..Len(c) : p \in 1..Len(a) /\ p < Len(a) /\ c[p] = a[p]
  BY <1>3
<1>7. \A p \in 1..Len(d) : p \in 1..Len(b) \/ p = Len(b) + 1
  BY <1>1, <1>4
<1>8. n > 0
  BY <1>1, <1>3, <1>5 DEF Ordered, Numbers
<1>9. /\ \A p \in 1..Len(c) : c[p] + Len(c) <= n - 1 + p
      /\ \A p, q \in 1..Len(c) : p < q => c[p] < c[q]
  <2>1. \A p \in 1..Len(c) : c[p] + Len(a) <= n + p /\ c[p] \in Nat
    BY <1>1, <1>6 DEF Ordered, Numbers
  <2>2. QED
    BY <1>3, <1>6, <2>1 DEF Ordered
<1>10. ASSUME NEW p \in 1..Len(d) PROVE d[p] + p <= n - 1 + Len(d) + 1
  <2>1. CASE p \in 1..Len(b)
    <3>1. b[p] + p <= n + Len(b) + 1 /\ d[p] = b[p] /\ b[p] \in Nat
      BY <1>1, <1>4, <2>1 DEF Ordered, Numbers
    <3>2. QED
      BY <1>1, <1>4, <3>1
  <2>2. CASE p = Len(b) + 1
    <3>1. a[Len(a)] + Len(a) <= n + Len(a) /\ d[p] = a[Len(a)] /\ a[Len(a)] \in Nat
      BY <1>1, <1>4, <1>5, <2>2 DEF Ordered, Numbers
    <3>2. QED
      BY <1>1, <1>3, <1>4, <2>2, <3>1
  <2>3. QED
    BY <1>7, <2>1, <2>2
<1>11. ASSUME NEW p \in 1..Len(d), NEW q \in 1..Len(d), p < q PROVE d[q] < d[p]
  <2>1. p \in 1..Len(b) /\ d[p] = b[p]
    BY <1>1, <1>4, <1>11
  <2>2. CASE q \in 1..Len(b)
    BY <1>4, <1>11, <2>1, <2>2 DEF Ordered
  <2>3. CASE q = Len(b) + 1
    BY <1>4, <1>5, <2>1, <2>3 DEF Ordered
  <2>4. QED
    BY <1>7, <2>2, <2>3
<1>12. ASSUME NEW p \in 1..Len(c), NEW q \in 1..Len(d) PROVE c[p] < d[q]
  <2>1. CASE q \in 1..Len(b)
    BY <1>4, <1>6, <2>1 DEF Ordered
  <2>2. CASE q = Len(b) + 1
    BY <1>4, <1>5, <1>6, <2>2 DEF Ordered
  <2>3. QED
    BY <1>7, <2>1, <2>2
<1>13. Ordered(n - 1, c, d)
  BY <1>9, <1>10, <1>11, <1>12 DEF Ordered
<1>14. QED
  BY <1>2, <1>8, <1>13

\* A redo moves a place back and the cursor on.
LEMMA RedoKeepsOrder ==
  ASSUME NEW n \in Nat, NEW a \in Seq(Numbers), NEW b \in Seq(Numbers), Ordered(n, a, b), b # <<>>
  PROVE  Ordered(n + 1, Append(a, Last(b)), Front(b))
<1>1. /\ \A p \in 1..Len(a) : a[p] \in Numbers
      /\ \A p \in 1..Len(b) : b[p] \in Numbers
      /\ Len(a) \in Nat
  OBVIOUS
<1>2. PICK c, d : c = Front(b) /\ d = Append(a, Last(b))
  OBVIOUS
<1>3. /\ Len(b) \in Nat \ {0} /\ Len(c) = Len(b) - 1
      /\ \A p \in 1..Len(b) - 1 : c[p] = b[p]
      /\ Last(b) = b[Len(b)] /\ Last(b) \in Numbers
  BY <1>2, Split
<1>4. Len(d) = Len(a) + 1 /\ d[Len(a) + 1] = b[Len(b)] /\ \A p \in 1..Len(a) : d[p] = a[p]
  BY <1>2, <1>3, Extends
<1>5. Len(b) \in 1..Len(b)
  BY <1>3
<1>6. \A p \in 1..Len(c) : p \in 1..Len(b) /\ p < Len(b) /\ c[p] = b[p]
  BY <1>3
<1>7. \A p \in 1..Len(d) : p \in 1..Len(a) \/ p = Len(a) + 1
  BY <1>1, <1>4
<1>8. /\ \A p \in 1..Len(c) : c[p] + p <= n + 1 + Len(c) + 1
      /\ \A p, q \in 1..Len(c) : p < q => c[q] < c[p]
  BY <1>1, <1>3, <1>6 DEF Ordered, Numbers
<1>9. ASSUME NEW p \in 1..Len(d) PROVE d[p] + Len(d) <= n + 1 + p
  <2>1. CASE p \in 1..Len(a)
    <3>1. a[p] + Len(a) <= n + p /\ d[p] = a[p] /\ a[p] \in Nat
      BY <1>1, <1>4, <2>1 DEF Ordered, Numbers
    <3>2. QED
      BY <1>1, <1>4, <3>1
  <2>2. CASE p = Len(a) + 1
    <3>1. b[Len(b)] + Len(b) <= n + Len(b) + 1 /\ d[p] = b[Len(b)] /\ b[Len(b)] \in Nat
      BY <1>1, <1>4, <1>5, <2>2 DEF Ordered, Numbers
    <3>2. QED
      BY <1>1, <1>3, <1>4, <2>2, <3>1
  <2>3. QED
    BY <1>7, <2>1, <2>2
<1>10. ASSUME NEW p \in 1..Len(d), NEW q \in 1..Len(d), p < q PROVE d[p] < d[q]
  <2>1. p \in 1..Len(a) /\ d[p] = a[p]
    BY <1>1, <1>4, <1>10
  <2>2. CASE q \in 1..Len(a)
    BY <1>4, <1>10, <2>1, <2>2 DEF Ordered
  <2>3. CASE q = Len(a) + 1
    BY <1>4, <1>5, <2>1, <2>3 DEF Ordered
  <2>4. QED
    BY <1>7, <2>2, <2>3
<1>11. ASSUME NEW p \in 1..Len(d), NEW q \in 1..Len(c) PROVE d[p] < c[q]
  <2>1. CASE p \in 1..Len(a)
    BY <1>4, <1>6, <2>1 DEF Ordered
  <2>2. CASE p = Len(a) + 1
    BY <1>4, <1>5, <1>6, <2>2 DEF Ordered
  <2>3. QED
    BY <1>7, <2>1, <2>2
<1>12. Ordered(n + 1, d, c)
  BY <1>8, <1>9, <1>10, <1>11 DEF Ordered
<1>13. QED
  BY <1>2, <1>12

PlacesOf(l, h) == [p \in 1..Len(h) |-> PlaceOf(l, h[p].image)]
AllListed(l, h) == \A p \in 1..Len(h) : Listed(l, h[p].image)

\* The places of a stack are numbers.
LEMMA PlacesType ==
  ASSUME NEW l \in Seq(Images), NoRepeats(l), NEW h \in Seq(Entries), AllListed(l, h)
  PROVE  PlacesOf(l, h) \in Seq(Numbers) /\ Len(PlacesOf(l, h)) = Len(h)
<1>1. \A p \in 1..Len(h) : PlaceOf(l, h[p].image) \in Numbers
  BY ListedPlaces DEF AllListed, Numbers
<1>2. Len(h) \in Nat
  OBVIOUS
<1>3. QED
  BY <1>1, <1>2 DEF PlacesOf

\* An empty stack has no places.
LEMMA PlacesOfNothing == ASSUME NEW l PROVE PlacesOf(l, <<>>) = <<>> /\ AllListed(l, <<>>)
BY DEF PlacesOf, AllListed

\* One more entry, one more place.
LEMMA PlacesOfMore ==
  ASSUME NEW l \in Seq(Images), NoRepeats(l), NEW h \in Seq(Entries), AllListed(l, h),
         NEW e \in Entries, Listed(l, e.image)
  PROVE  /\ AllListed(l, Append(h, e))
         /\ PlacesOf(l, Append(h, e)) = Append(PlacesOf(l, h), PlaceOf(l, e.image))
<1> DEFINE g == Append(h, e)
           s == PlacesOf(l, g)
           t == Append(PlacesOf(l, h), PlaceOf(l, e.image))
<1>1. g \in Seq(Entries) /\ Len(g) = Len(h) + 1 /\ g[Len(h) + 1] = e /\ \A p \in 1..Len(h) : g[p] = h[p]
  BY Extends
<1>2. Len(h) \in Nat
  OBVIOUS
<1> HIDE DEF g
<1>3. AllListed(l, g)
  <2>1. ASSUME NEW p \in 1..Len(g) PROVE Listed(l, g[p].image)
    <3>1. CASE p \in 1..Len(h)
      BY <1>1, <3>1 DEF AllListed
    <3>2. CASE p = Len(h) + 1
      BY <1>1, <3>2
    <3>3. QED
      BY <1>1, <1>2, <3>1, <3>2
  <2>2. QED
    BY <2>1 DEF AllListed
<1>4. s \in Seq(Numbers) /\ Len(s) = Len(g) /\ PlacesOf(l, h) \in Seq(Numbers)
      /\ Len(PlacesOf(l, h)) = Len(h)
  BY <1>1, <1>3, PlacesType
<1>5. PlaceOf(l, e.image) \in Numbers
  BY ListedPlaces DEF Numbers
<1>6. t \in Seq(Numbers) /\ Len(t) = Len(h) + 1 /\ t[Len(h) + 1] = PlaceOf(l, e.image)
      /\ \A p \in 1..Len(h) : t[p] = PlacesOf(l, h)[p]
  BY <1>4, <1>5, Extends
<1>7. ASSUME NEW p \in 1..Len(s) PROVE s[p] = t[p]
  <2>0. s[p] = PlaceOf(l, g[p].image)
    BY <1>4 DEF PlacesOf
  <2>1. CASE p \in 1..Len(h)
    <3>1. PlacesOf(l, h)[p] = PlaceOf(l, h[p].image)
      BY <2>1 DEF PlacesOf
    <3>2. QED
      BY <1>1, <1>6, <2>0, <2>1, <3>1
  <2>2. CASE p = Len(h) + 1
    BY <1>1, <1>6, <2>0, <2>2
  <2>3. QED
    BY <1>1, <1>2, <1>4, <2>1, <2>2
<1> HIDE DEF s, t
<1>8. s = t
  BY <1>1, <1>4, <1>6, <1>7, SeqEqual
<1>9. QED
  BY <1>3, <1>8 DEF s, t, g

\* One entry less, one place less.
LEMMA PlacesOfLess ==
  ASSUME NEW l \in Seq(Images), NoRepeats(l), NEW h \in Seq(Entries), AllListed(l, h), h # <<>>
  PROVE  /\ AllListed(l, Front(h)) /\ Listed(l, Last(h).image)
         /\ PlacesOf(l, h) # <<>>
         /\ PlacesOf(l, Front(h)) = Front(PlacesOf(l, h))
         /\ PlaceOf(l, Last(h).image) = Last(PlacesOf(l, h))
<1> DEFINE g == Front(h)
           P == PlacesOf(l, h)
           s == PlacesOf(l, g)
<1>1. /\ g \in Seq(Entries) /\ Len(h) \in Nat \ {0} /\ Len(g) = Len(h) - 1
      /\ Last(h) = h[Len(h)] /\ \A p \in 1..Len(h) - 1 : g[p] = h[p]
  BY Split
<1> HIDE DEF g
<1>2. AllListed(l, g) /\ Listed(l, Last(h).image)
  BY <1>1 DEF AllListed
<1>3. P \in Seq(Numbers) /\ Len(P) = Len(h) /\ s \in Seq(Numbers) /\ Len(s) = Len(g)
  BY <1>1, <1>2, PlacesType
<1>4. P # <<>>
  BY <1>1, <1>3
<1>5. \A p \in 1..Len(h) : P[p] = PlaceOf(l, h[p].image)
  BY DEF PlacesOf
<1>6. \A p \in 1..Len(g) : s[p] = PlaceOf(l, g[p].image)
  BY DEF PlacesOf
<1> HIDE DEF P, s
<1>7. /\ Front(P) \in Seq(Numbers) /\ Len(Front(P)) = Len(h) - 1
      /\ Last(P) = P[Len(h)] /\ \A p \in 1..Len(h) - 1 : Front(P)[p] = P[p]
  BY <1>3, <1>4, Split
<1>8. ASSUME NEW p \in 1..Len(s) PROVE s[p] = Front(P)[p]
  <2>1. p \in 1..Len(h) - 1 /\ p \in 1..Len(h) /\ p \in 1..Len(g)
    BY <1>1, <1>3
  <2>2. QED
    BY <1>1, <1>5, <1>6, <1>7, <2>1
<1>9. s = Front(P)
  BY <1>1, <1>3, <1>7, <1>8, SeqEqual
<1>10. Last(P) = PlaceOf(l, Last(h).image)
  BY <1>1, <1>5, <1>7
<1>11. QED
  BY <1>2, <1>4, <1>9, <1>10 DEF P, s, g

\* History and redo stack follow the list up to the cursor.
InOrder(l, n, h, r) ==
    /\ AllListed(l, h) /\ AllListed(l, r)
    /\ Ordered(n, PlacesOf(l, h), PlacesOf(l, r))

OrderInv == crashes = 0 => InOrder(ids, index, history, redo)

\* Empty stacks are in order.
LEMMA NothingInOrder ==
  ASSUME NEW l, NEW n
  PROVE  InOrder(l, n, <<>>, <<>>)
<1>1. Ordered(n, <<>>, <<>>)
  BY DEF Ordered
<1>2. QED
  BY <1>1, PlacesOfNothing DEF InOrder

\* A sort action keeps the stacks in order.
LEMMA FinishInOrder ==
  ASSUME TypedInv, FinishAction, InOrder(ids, index, history, redo)
  PROVE  InOrder(ids', index', history', redo')
<1> DEFINE a == PlacesOf(ids, history)
           b == PlacesOf(ids, redo)
<1>1. /\ ids \in Seq(Images) /\ NoRepeats(ids) /\ index \in Nat
      /\ history \in Seq(Entries) /\ redo \in Seq(Entries)
  BY DEF TypedInv, SessionOK, Persisted
<1>2. AllListed(ids, history) /\ AllListed(ids, redo) /\ Ordered(index, a, b)
  BY DEF InOrder
<1>3. a \in Seq(Numbers) /\ b \in Seq(Numbers)
  BY <1>1, <1>2, PlacesType
<1> HIDE DEF a, b
<1>4. CASE FinishDecide
  <2>1. /\ pending.entry \in Entries /\ index < Len(ids) /\ pending.entry.image = ids[index + 1]
    BY <1>4 DEF FinishDecide, Finish, TypedInv, PendingOK
  <2>2. index + 1 \in 1..Len(ids)
    BY <1>1, <2>1
  <2>3. Listed(ids, pending.entry.image) /\ PlaceOf(ids, pending.entry.image) = index + 1
    BY <1>1, <2>1, <2>2, ListedPlaces
  <2>4. Ordered(index + 1, Append(a, index + 1), <<>>)
    BY <1>1, <1>2, <1>3, DecideKeepsOrder
  <2>5. InOrder(ids, index + 1, Append(history, pending.entry), <<>>)
    BY <1>1, <1>2, <2>1, <2>3, <2>4, PlacesOfMore, PlacesOfNothing DEF InOrder, a
  <2>6. /\ ids' = ids /\ index' = index + 1 /\ history' = Append(history, pending.entry)
        /\ redo' = <<>>
    BY <1>4 DEF FinishDecide, Finish
  <2>7. QED
    BY <2>5, <2>6
<1>5. CASE FinishUndo
  <2>1. history # <<>> /\ pending.entry = Last(history) /\ Last(history) \in Entries
    BY <1>1, <1>5, LastOfEntries DEF FinishUndo, Finish, TypedInv, PendingOK
  <2>2. /\ AllListed(ids, Front(history)) /\ Listed(ids, Last(history).image)
        /\ a # <<>> /\ PlacesOf(ids, Front(history)) = Front(a)
        /\ PlaceOf(ids, Last(history).image) = Last(a)
    BY <1>1, <1>2, <2>1, PlacesOfLess DEF a
  <2>3. /\ AllListed(ids, Append(redo, Last(history)))
        /\ PlacesOf(ids, Append(redo, Last(history))) = Append(b, Last(a))
    BY <1>1, <1>2, <2>1, <2>2, PlacesOfMore DEF b
  <2>4. index > 0 /\ Ordered(index - 1, Front(a), Append(b, Last(a)))
    BY <1>1, <1>2, <1>3, <2>2, UndoKeepsOrder
  <2>5. InOrder(ids, index - 1, Front(history), Append(redo, Last(history)))
    BY <2>2, <2>3, <2>4 DEF InOrder
  <2>6. /\ ids' = ids /\ index' = index - 1 /\ history' = Front(history)
        /\ redo' = Append(redo, Last(history))
    BY <1>1, <1>5, <2>1, <2>4 DEF FinishUndo, Finish
  <2>7. QED
    BY <2>5, <2>6
<1>6. CASE FinishRedo
  <2>1. redo # <<>> /\ pending.entry = Last(redo) /\ Last(redo) \in Entries
    BY <1>1, <1>6, LastOfEntries DEF FinishRedo, Finish, TypedInv, PendingOK
  <2>2. /\ AllListed(ids, Front(redo)) /\ Listed(ids, Last(redo).image)
        /\ b # <<>> /\ PlacesOf(ids, Front(redo)) = Front(b)
        /\ PlaceOf(ids, Last(redo).image) = Last(b)
    BY <1>1, <1>2, <2>1, PlacesOfLess DEF b
  <2>3. /\ AllListed(ids, Append(history, Last(redo)))
        /\ PlacesOf(ids, Append(history, Last(redo))) = Append(a, Last(b))
    BY <1>1, <1>2, <2>1, <2>2, PlacesOfMore DEF a
  <2>4. Ordered(index + 1, Append(a, Last(b)), Front(b))
    BY <1>1, <1>2, <1>3, <2>2, RedoKeepsOrder
  <2>5. InOrder(ids, index + 1, Append(history, Last(redo)), Front(redo))
    BY <2>2, <2>3, <2>4 DEF InOrder
  <2>6. /\ ids' = ids /\ index' = index + 1 /\ history' = Append(history, Last(redo))
        /\ redo' = Front(redo)
    BY <1>1, <1>6, <2>1 DEF FinishRedo, Finish
  <2>7. QED
    BY <2>5, <2>6
<1>7. QED
  BY <1>4, <1>5, <1>6 DEF FinishAction

\* Moving the cursor on leaves history and redo stack in order.
LEMMA AdvanceInOrder ==
  ASSUME TypedInv, InOrder(ids, index, history, redo), index' = index + 1,
         UNCHANGED <<ids, history, redo>>
  PROVE  InOrder(ids', index', history', redo')
<1>1. /\ ids \in Seq(Images) /\ NoRepeats(ids) /\ index \in Nat
      /\ history \in Seq(Entries) /\ redo \in Seq(Entries)
  BY DEF TypedInv, SessionOK, Persisted
<1>2. AllListed(ids, history) /\ AllListed(ids, redo)
  BY DEF InOrder
<1>3. InOrder(ids, index + 1, history, redo)
  BY <1>1, <1>2, PlacesType, AdvanceKeepsOrder DEF InOrder
<1>4. QED
  BY <1>3

\* Before the first restart every step keeps the stacks in order.
LEMMA StepInOrder ==
  ASSUME TypedInv, OrderInv, [Next]_vars
  PROVE  OrderInv'
<1>1. CASE CrashAndRestart
  BY <1>1 DEF CrashAndRestart, TypedInv, CountsOK, OrderInv
<1>2. CASE FinishAction
  BY <1>2, FinishInOrder DEF OrderInv, FinishAction, FinishDecide, FinishUndo, FinishRedo, Finish
<1>3. CASE GetAdvance \/ StepOverMissingRow
  BY <1>3, AdvanceInOrder DEF OrderInv, GetAdvance, StepOverMissingRow
<1>4. CASE Clear \/ \E s \in Starters : CommitStart(s)
  <2>1. history' = <<>> /\ redo' = <<>>
    BY <1>4 DEF Clear, CommitStart
  <2>2. InOrder(ids', index', <<>>, <<>>)
    BY NothingInOrder
  <2>3. QED
    BY <2>1, <2>2 DEF OrderInv
<1>5. CASE UNCHANGED <<ids, index, history, redo, crashes>>
  BY <1>5 DEF OrderInv
<1>6. QED
  <2>1. CASE Request
    BY <1>3, <1>4, <1>5, <2>1
       DEF Request, BeginStart, BeginGet, BeginUndo, BeginRedo, SetFolders, BeginDecide, memory
  <2>2. CASE LoopStep
    BY <1>3, <1>5, <2>2 DEF LoopStep, GetRead, GetLook, RemoveFile, memory
  <2>3. CASE \E i \in Images : Damage(i)
    BY <1>5, <2>3 DEF Damage, memory
  <2>4. CASE UNCHANGED vars
    BY <1>5, <2>4 DEF vars, memory
  <2>5. QED
    BY <1>1, <1>2, <1>4, <2>1, <2>2, <2>3, <2>4 DEF Next

\* Entries in order are about different pictures, all of them behind the cursor.
LEMMA InOrderDecidedOnce ==
  ASSUME TypedInv, OrderInv
  PROVE  DecidedOnceBehindCursor
<1> SUFFICES ASSUME crashes = 0, NEW p \in 1..Len(history)
             PROVE  /\ \A q \in 1..Len(history) : history[p].image = history[q].image => p = q
                    /\ \E k \in 1..Len(ids) : k <= index /\ ids[k] = history[p].image
  <2>1. DOMAIN history = 1..Len(history) /\ DOMAIN ids = 1..Len(ids)
    BY DEF TypedInv, SessionOK, Persisted
  <2>2. QED
    BY <2>1 DEF DecidedOnceBehindCursor
<1> DEFINE a == PlacesOf(ids, history)
<1>1. /\ ids \in Seq(Images) /\ NoRepeats(ids) /\ index \in Nat
      /\ history \in Seq(Entries)
  BY DEF TypedInv, SessionOK, Persisted
<1>2. AllListed(ids, history) /\ Ordered(index, a, PlacesOf(ids, redo))
  BY DEF InOrder, OrderInv
<1>3. a \in Seq(Numbers) /\ Len(a) = Len(history)
  BY <1>1, <1>2, PlacesType
<1>4. \A q \in 1..Len(history) : a[q] = PlaceOf(ids, history[q].image)
  BY DEF PlacesOf
<1> HIDE DEF a
<1>5. ASSUME NEW q \in 1..Len(history), history[p].image = history[q].image PROVE p = q
  <2>1. a[p] = a[q] /\ a[p] \in Nat
    BY <1>3, <1>4, <1>5 DEF Numbers
  <2>2. ~(p < q) /\ ~(q < p)
    BY <1>2, <1>3, <2>1 DEF Ordered
  <2>3. QED
    BY <1>1, <2>2
<1>6. a[p] \in 1..Len(ids) /\ ids[a[p]] = history[p].image
  BY <1>1, <1>2, <1>4, ListedPlaces DEF AllListed
<1>7. a[p] <= index
  <2>1. a[p] + Len(a) <= index + p /\ Len(a) \in Nat /\ p \in 1..Len(a)
    BY <1>2, <1>3 DEF Ordered
  <2>2. QED
    BY <1>1, <1>6, <2>1
<1>8. QED
  BY <1>5, <1>6, <1>7

\* No picture is decided twice in one session, and a decided one lies behind the
\* cursor (session.py:535-715), whatever list, keys, threads and failures there are.
THEOREM DecidedOnce == Spec => []DecidedOnceBehindCursor
<1>1. Init => OrderInv
  BY NothingInOrder DEF Init, OrderInv
<1>2. TypedInv /\ OrderInv /\ [Next]_vars => OrderInv'
  BY StepInOrder
<1>3. TypedInv /\ OrderInv => DecidedOnceBehindCursor
  BY InOrderDecidedOnce
<1>4. QED
  BY <1>1, <1>2, <1>3, SessionTyped, PTL DEF Spec

------------------------------------------------------------------------------
(* A library in which no picture goes missing, and no session cleared *)

\* No picture is ever passed over, and no session file ever removed by the loop.
CalmInv == /\ \A i \in Images : image[i] = "ok"
           /\ loop \notin {"advance", "unlink"}
           /\ loop = "look" => looked \in Images

\* History and redo stack name the list's pictures in their order.
Aligned(x, l, n, h, r) ==
    /\ n = Len(h) /\ Len(h) + Len(r) <= Len(l)
    /\ \A p \in 1..Len(h) : h[p].image = l[p]
    /\ \A p \in 1..Len(r) : r[p].image = l[Len(h) + Len(r) - p + 1]
    /\ ~x => l = <<>>

AlignedInv ==
    /\ Aligned(active, ids, index, history, redo)
    /\ disk # None => Aligned(disk.active, disk.ids, disk.index, disk.history, disk.redo)

SavedInv == /\ unsaved = 0 /\ active => disk = Persisted
            /\ ~active => disk = None \/ disk.active = FALSE

\* Where no picture goes missing, none is ever passed over.
LEMMA CalmStep ==
  ASSUME Failures = {}, Clears = FALSE, TypedInv, CalmInv, [Next]_vars
  PROVE  CalmInv'
<1>1. CASE UNCHANGED <<image, loop, looked>>
  BY <1>1 DEF CalmInv
<1>2. ~Clear /\ \A i \in Images : ~Damage(i)
  BY DEF Clear, Damage
<1>3. CASE BeginGet \/ RemoveFile \/ CrashAndRestart
  BY <1>3 DEF CalmInv, BeginGet, RemoveFile, CrashAndRestart, library
<1>5. CASE GetRead
  BY <1>5 DEF CalmInv, GetRead, library, Unfinished, Current, TypedInv, SessionOK, Persisted
<1>4. CASE GetLook
  BY <1>4 DEF CalmInv, GetLook, library
<1>6. QED
  <2>1. CASE Request
    BY <1>1, <1>2, <1>3, <2>1
       DEF Request, BeginStart, BeginUndo, BeginRedo, SetFolders, StepOverMissingRow, BeginDecide, library
  <2>2. CASE LoopStep
    BY <1>1, <1>3, <1>4, <1>5, <2>2 DEF LoopStep, CalmInv, GetAdvance
  <2>3. CASE FinishAction
    BY <1>1, <2>3 DEF FinishAction, FinishDecide, FinishUndo, FinishRedo, Finish, library
  <2>4. CASE \E s \in Starters : CommitStart(s)
    BY <1>1, <2>4 DEF CommitStart, library
  <2>5. CASE UNCHANGED vars
    BY <1>1, <2>5 DEF vars, library
  <2>6. QED
    BY <1>2, <1>3, <2>1, <2>2, <2>3, <2>4, <2>5 DEF Next

\* Where the entries of two stacks go in one list.
LEMMA Room ==
  ASSUME NEW H \in Nat, NEW R \in Nat, NEW N \in Nat, H + R <= N
  PROVE  /\ \A p \in 1..H : p \in 1..N
         /\ \A p \in 1..R : H + R - p + 1 \in 1..N /\ H + R - p + 1 > H
         /\ \A p : p \in 1..H <=> p \in 1..N /\ p <= H
OBVIOUS

\* The restore finds every picture where the file has it, and keeps every entry.
LEMMA RestoredIsSame ==
  ASSUME NEW f, SessionOK(f), Aligned(f.active, f.ids, f.index, f.history, f.redo), CalmInv
  PROVE  /\ Restored(f).active = TRUE /\ Restored(f).slots = f.slots
         /\ Restored(f).ids = f.ids /\ Restored(f).index = f.index
         /\ Restored(f).history = f.history /\ Restored(f).redo = f.redo
<1> DEFINE position == Positions(f.ids)
           rows == {p \in DOMAIN f.ids : Present(f.ids[p])}
           known(e) == e.image \in ToSet(f.ids) /\ Present(e.image)
           past == {k \in DOMAIN f.history :
                      known(f.history[k]) /\ position[f.history[k].image] <= f.index}
           decided == {e.image : e \in {x \in ToSet(f.history) : known(x)}}
           ahead == {k \in DOMAIN f.redo :
                       /\ known(f.redo[k]) /\ f.redo[k].image \notin decided
                       /\ position[f.redo[k].image] > f.index}
           behind == {p \in rows : p <= f.index}
<1>1. /\ f.ids \in Seq(Images) /\ NoRepeats(f.ids) /\ f.index \in Nat
      /\ f.history \in Seq(Entries) /\ f.redo \in Seq(Entries)
  BY DEF SessionOK
<1>2. /\ Restored(f).active = TRUE
      /\ Restored(f).slots = f.slots
      /\ Restored(f).ids = Pick(f.ids, rows)
      /\ Restored(f).index = Cardinality(behind)
      /\ Restored(f).history = Pick(f.history, past)
      /\ Restored(f).redo = Pick(f.redo, ahead)
  BY DEF Restored
<1>3. /\ Len(f.ids) \in Nat /\ DOMAIN f.ids = 1..Len(f.ids)
      /\ Len(f.history) \in Nat /\ DOMAIN f.history = 1..Len(f.history)
      /\ Len(f.redo) \in Nat /\ DOMAIN f.redo = 1..Len(f.redo)
  BY <1>1
<1>4. \A p \in 1..Len(f.ids) : /\ f.ids[p] \in Images /\ Present(f.ids[p])
                               /\ f.ids[p] \in ToSet(f.ids)
  BY <1>1 DEF CalmInv, Present, ToSet
<1>5. \A p \in 1..Len(f.ids) : position[f.ids[p]] = p
  <2>1. ASSUME NEW p \in 1..Len(f.ids) PROVE position[f.ids[p]] = p
    <3>1. position[f.ids[p]] = CHOOSE q \in 1..Len(f.ids) : f.ids[q] = f.ids[p]
      BY <1>4 DEF Positions
    <3>2. QED
      BY <1>1, <3>1 DEF NoRepeats
  <2>2. QED
    BY <2>1
<1>6. /\ f.index = Len(f.history) /\ Len(f.history) + Len(f.redo) <= Len(f.ids)
      /\ \A p \in 1..Len(f.history) : f.history[p].image = f.ids[p]
      /\ \A p \in 1..Len(f.redo) : f.redo[p].image = f.ids[Len(f.history) + Len(f.redo) - p + 1]
  BY DEF Aligned
<1>7. Pick(f.ids, rows) = f.ids
  <2>1. DOMAIN f.ids \subseteq rows
    BY <1>3, <1>4
  <2>2. QED
    BY <1>1, <2>1, PickAll
<1>8. Cardinality(behind) = f.index
  <2>1. \A p : p \in 1..f.index <=> p \in 1..Len(f.ids) /\ p <= f.index
    BY <1>3, <1>6, Room
  <2>2. \A p : p \in behind <=> p \in 1..Len(f.ids) /\ p <= f.index
    BY <1>3, <1>4
  <2>3. behind = 1..f.index
    BY <2>1, <2>2
  <2> HIDE DEF behind
  <2>4. Cardinality(1..f.index) = f.index
    BY <1>1, CountTo
  <2>5. QED
    BY <2>3, <2>4
<1>9. \A p \in 1..Len(f.history) : p \in 1..Len(f.ids)
  BY <1>3, <1>6, Room
<1>10. Pick(f.history, past) = f.history
  <2>1. ASSUME NEW p \in 1..Len(f.history) PROVE p \in past
    <3>1. f.history[p].image = f.ids[p] /\ position[f.ids[p]] = p /\ known(f.history[p])
      BY <1>4, <1>5, <1>6, <1>9
    <3>2. QED
      BY <1>3, <1>6, <3>1
  <2> HIDE DEF past
  <2>2. DOMAIN f.history \subseteq past
    BY <1>3, <2>1
  <2>3. QED
    BY <1>1, <2>2, PickAll
<1>11. Pick(f.redo, ahead) = f.redo
  <2>1. ASSUME NEW p \in 1..Len(f.redo) PROVE p \in ahead
    <3>1. PICK q : q = Len(f.history) + Len(f.redo) - p + 1
      OBVIOUS
    <3>2. q \in 1..Len(f.ids) /\ q > f.index /\ q \in Nat
      <4>1. q \in 1..Len(f.ids) /\ q > Len(f.history)
        BY <1>3, <1>6, <3>1, Room
      <4>2. QED
        BY <1>6, <4>1
    <3>3. f.redo[p].image = f.ids[q] /\ position[f.ids[q]] = q /\ known(f.redo[p])
      BY <1>4, <1>5, <1>6, <3>1, <3>2
    <3>4. f.redo[p].image \notin decided
      <4>1. ASSUME NEW x \in ToSet(f.history), x.image = f.redo[p].image PROVE FALSE
        <5>1. PICK k \in 1..Len(f.history) : x = f.history[k]
          BY <1>3 DEF ToSet
        <5>2. f.ids[k] = f.ids[q] /\ k \in 1..Len(f.ids) /\ k <= f.index
          BY <1>3, <1>6, <1>9, <3>3, <4>1, <5>1
        <5>3. QED
          BY <1>1, <3>2, <5>2 DEF NoRepeats
      <4>2. QED
        BY <4>1
    <3>5. QED
      BY <1>3, <3>2, <3>3, <3>4
  <2> HIDE DEF ahead
  <2>2. DOMAIN f.redo \subseteq ahead
    BY <1>3, <2>1
  <2>3. QED
    BY <1>1, <2>2, PickAll
<1>12. QED
  BY <1>2, <1>7, <1>8, <1>10, <1>11

\* A decision is about the picture at the cursor.
LEMMA DecideAligns ==
  ASSUME NEW x, NEW l \in Seq(Images), NEW n \in Nat, NEW h \in Seq(Entries), NEW r \in Seq(Entries),
         Aligned(x, l, n, h, r), n < Len(l), NEW e \in Entries, e.image = l[n + 1]
  PROVE  Aligned(x, l, n + 1, Append(h, e), <<>>)
<1>1. PICK c : c = Append(h, e)
  OBVIOUS
<1>2. Len(c) = Len(h) + 1 /\ c[Len(h) + 1] = e /\ \A p \in 1..Len(h) : c[p] = h[p]
  BY <1>1, Extends
<1>3. Len(h) \in Nat /\ Len(l) \in Nat /\ Len(<<>>) = 0
  OBVIOUS
<1>4. \A p \in 1..Len(c) : p \in 1..Len(h) \/ p = Len(h) + 1
  BY <1>2, <1>3
<1>5. \A p \in 1..Len(c) : c[p].image = l[p]
  BY <1>2, <1>4 DEF Aligned
<1>6. Aligned(x, l, n + 1, c, <<>>)
  BY <1>2, <1>3, <1>5 DEF Aligned
<1>7. QED
  BY <1>1, <1>6

\* An undo goes back to the picture of its entry.
LEMMA UndoAligns ==
  ASSUME NEW x, NEW l \in Seq(Images), NEW n \in Nat, NEW h \in Seq(Entries), NEW r \in Seq(Entries),
         Aligned(x, l, n, h, r), h # <<>>
  PROVE  n > 0 /\ Aligned(x, l, n - 1, Front(h), Append(r, Last(h)))
<1>1. PICK c, d : c = Front(h) /\ d = Append(r, Last(h))
  OBVIOUS
<1>2. /\ Len(h) \in Nat \ {0} /\ Len(c) = Len(h) - 1 /\ Last(h) = h[Len(h)] /\ Last(h) \in Entries
      /\ \A p \in 1..Len(h) - 1 : c[p] = h[p]
  BY <1>1, Split
<1>3. Len(d) = Len(r) + 1 /\ d[Len(r) + 1] = h[Len(h)] /\ \A p \in 1..Len(r) : d[p] = r[p]
  BY <1>1, <1>2, Extends
<1>4. Len(r) \in Nat /\ Len(l) \in Nat /\ n = Len(h) /\ Len(h) + Len(r) <= Len(l)
  BY DEF Aligned
<1>5. \A p \in 1..Len(c) : p \in 1..Len(h) /\ c[p] = h[p]
  BY <1>2
<1>6. \A p \in 1..Len(c) : c[p].image = l[p]
  BY <1>5 DEF Aligned
<1>7. Len(c) + Len(d) = Len(h) + Len(r) /\ Len(c) + Len(d) <= Len(l)
  BY <1>2, <1>3, <1>4
<1>8. ASSUME NEW p \in 1..Len(d) PROVE d[p].image = l[Len(c) + Len(d) - p + 1]
  <2>1. CASE p \in 1..Len(r)
    <3>1. d[p] = r[p] /\ r[p].image = l[Len(h) + Len(r) - p + 1]
      BY <1>3, <2>1 DEF Aligned
    <3>2. QED
      BY <1>7, <3>1
  <2>2. CASE p = Len(r) + 1
    <3>1. Len(h) + Len(r) - p + 1 = Len(h) /\ Len(h) \in 1..Len(h)
      BY <1>2, <1>4, <2>2
    <3>2. d[p].image = l[Len(h)]
      BY <1>3, <2>2, <3>1 DEF Aligned
    <3>3. QED
      BY <1>7, <3>1, <3>2
  <2>3. QED
    BY <1>3, <1>4, <2>1, <2>2
<1>9. n > 0 /\ n - 1 = Len(c)
  BY <1>2, <1>4
<1>10. Aligned(x, l, n - 1, c, d)
  BY <1>6, <1>7, <1>8, <1>9 DEF Aligned
<1>11. QED
  BY <1>1, <1>9, <1>10

\* A redo is about the picture at the cursor.
LEMMA RedoAligns ==
  ASSUME NEW x, NEW l \in Seq(Images), NEW n \in Nat, NEW h \in Seq(Entries), NEW r \in Seq(Entries),
         Aligned(x, l, n, h, r), r # <<>>
  PROVE  /\ Last(r).image = l[Len(h) + 1]
         /\ Aligned(x, l, n + 1, Append(h, Last(r)), Front(r))
<1>1. PICK c, d : c = Append(h, Last(r)) /\ d = Front(r)
  OBVIOUS
<1>2. /\ Len(r) \in Nat \ {0} /\ Len(d) = Len(r) - 1 /\ Last(r) = r[Len(r)] /\ Last(r) \in Entries
      /\ \A p \in 1..Len(r) - 1 : d[p] = r[p]
  BY <1>1, Split
<1>3. Len(c) = Len(h) + 1 /\ c[Len(h) + 1] = r[Len(r)] /\ \A p \in 1..Len(h) : c[p] = h[p]
  BY <1>1, <1>2, Extends
<1>4. Len(h) \in Nat /\ Len(l) \in Nat /\ n = Len(h) /\ Len(h) + Len(r) <= Len(l)
  BY DEF Aligned
<1>5. \A p \in 1..Len(d) : p \in 1..Len(r) /\ d[p] = r[p]
  BY <1>2
<1>6. Len(c) + Len(d) = Len(h) + Len(r) /\ Len(c) + Len(d) <= Len(l)
  BY <1>2, <1>3, <1>4
<1>7. \A p \in 1..Len(d) : d[p].image = l[Len(c) + Len(d) - p + 1]
  BY <1>5, <1>6 DEF Aligned
<1>8. r[Len(r)].image = l[Len(h) + 1]
  <2>1. Len(h) + Len(r) - Len(r) + 1 = Len(h) + 1 /\ Len(r) \in 1..Len(r)
    BY <1>2, <1>4
  <2>2. r[Len(r)].image = l[Len(h) + Len(r) - Len(r) + 1]
    BY <2>1 DEF Aligned
  <2>3. QED
    BY <2>1, <2>2
<1>9. ASSUME NEW p \in 1..Len(c) PROVE c[p].image = l[p]
  <2>1. CASE p \in 1..Len(h)
    BY <1>3, <2>1 DEF Aligned
  <2>2. CASE p = Len(h) + 1
    BY <1>3, <1>8, <2>2
  <2>3. QED
    BY <1>3, <1>4, <2>1, <2>2
<1>10. Aligned(x, l, n + 1, c, d)
  BY <1>3, <1>4, <1>6, <1>7, <1>9 DEF Aligned
<1>11. QED
  BY <1>1, <1>2, <1>8, <1>10

\* Empty stacks fit every list.
LEMMA NothingAligns ==
  ASSUME NEW x, NEW l \in Seq(Images), ~x => l = <<>>
  PROVE  Aligned(x, l, 0, <<>>, <<>>)
BY DEF Aligned

\* The session in memory is aligned after the step, and so is what was saved of it.
LEMMA SaveAligns ==
  ASSUME AlignedInv, Save, Aligned(active', ids', index', history', redo')
  PROVE  AlignedInv'
BY DEF AlignedInv, Save, Persisted

\* A save that succeeds writes the session.
LEMMA SaveSaves ==
  ASSUME SavedInv, CountsOK, Save
  PROVE  unsaved' = 0 => disk' = Persisted'
BY DEF Save, CountsOK

\* A sort action keeps the stacks along the list, and saves.
LEMMA FinishAligns ==
  ASSUME TypedInv, CalmInv, AlignedInv, FinishAction
  PROVE  AlignedInv' /\ Save
<1>1. /\ ids \in Seq(Images) /\ index \in Nat
      /\ history \in Seq(Entries) /\ redo \in Seq(Entries)
      /\ Aligned(active, ids, index, history, redo)
  BY DEF TypedInv, SessionOK, Persisted, AlignedInv
<1>2. CASE FinishDecide
  <2>1. /\ pending.entry \in Entries /\ index < Len(ids) /\ pending.entry.image = ids[index + 1]
    BY <1>2 DEF FinishDecide, Finish, TypedInv, PendingOK
  <2>2. Aligned(active, ids, index + 1, Append(history, pending.entry), <<>>)
    BY <1>1, <2>1, DecideAligns
  <2>3. Aligned(active', ids', index', history', redo') /\ Save
    BY <1>2, <2>2 DEF FinishDecide, Finish
  <2>4. QED
    BY <2>3, SaveAligns
<1>3. CASE FinishUndo
  <2>1. history # <<>> /\ pending.entry = Last(history)
    BY <1>3 DEF FinishUndo, Finish, TypedInv, PendingOK
  <2>2. index > 0 /\ Aligned(active, ids, index - 1, Front(history), Append(redo, Last(history)))
    BY <1>1, <2>1, UndoAligns
  <2>3. Aligned(active', ids', index', history', redo') /\ index' = index - 1 /\ ids' = ids
    BY <1>1, <1>3, <2>1, <2>2 DEF FinishUndo, Finish
  <2>4. index' < Len(ids)
    <3>1. index = Len(history) /\ Len(history) + Len(redo) <= Len(ids) /\ Len(redo) \in Nat
      BY <1>1 DEF Aligned
    <3>2. Len(ids) \in Nat
      BY <1>1
    <3>3. QED
      BY <1>1, <2>3, <3>1, <3>2
  <2>5. QED
    BY <1>3, <2>3, <2>4, SaveAligns DEF FinishUndo
<1>4. CASE FinishRedo
  <2>1. redo # <<>> /\ pending.entry = Last(redo)
    BY <1>4 DEF FinishRedo, Finish, TypedInv, PendingOK
  <2>2. Aligned(active, ids, index + 1, Append(history, Last(redo)), Front(redo))
    BY <1>1, <2>1, RedoAligns
  <2>3. Aligned(active', ids', index', history', redo') /\ Save
    BY <1>4, <2>1, <2>2 DEF FinishRedo, Finish
  <2>4. QED
    BY <2>3, SaveAligns
<1>5. QED
  BY <1>2, <1>3, <1>4 DEF FinishAction

\* A restart resumes the session on file as it was, or starts without one.
LEMMA CrashResumes ==
  ASSUME TypedInv, CalmInv, AlignedInv, CrashAndRestart, Resumes
  PROVE  /\ active' = TRUE /\ active' = disk.active /\ ids' = disk.ids /\ index' = disk.index
         /\ history' = disk.history /\ redo' = disk.redo /\ slots' = disk.slots /\ Save
<1>1. /\ SessionOK(disk) /\ disk.active = TRUE
      /\ Aligned(disk.active, disk.ids, disk.index, disk.history, disk.redo)
  BY DEF TypedInv, FileOK, AlignedInv, Resumes, SessionOK
<1> DEFINE r == Restored(disk)
<1>2. /\ r.ids = disk.ids /\ r.index = disk.index /\ r.history = disk.history
      /\ r.redo = disk.redo /\ r.slots = disk.slots
  BY <1>1, RestoredIsSame
<1>3. /\ active' = TRUE /\ ids' = r.ids /\ index' = r.index
      /\ history' = r.history /\ redo' = r.redo /\ slots' = r.slots /\ Save
  BY DEF CrashAndRestart, Restore
<1> HIDE DEF r
<1>4. QED
  BY <1>1, <1>2, <1>3

\* A restart that resumes nothing leaves an empty session.
LEMMA CrashForgets ==
  ASSUME TypedInv, CalmInv, AlignedInv, CrashAndRestart, ~Resumes
  PROVE  /\ active' = FALSE /\ ids' = <<>> /\ index' = 0 /\ history' = <<>> /\ redo' = <<>>
         /\ saved' = TRUE /\ base' = applied /\ UNCHANGED <<unsaved, applied>>
         /\ disk' = None \/ disk' = disk
         /\ disk # None => disk.ids = <<>>
<1>1. ASSUME disk # None PROVE disk.ids = <<>>
  <2>1. CASE disk.active
    <3>1. disk.ids \in Seq(Images)
      BY <1>1 DEF TypedInv, FileOK, SessionOK
    <3>2. ~\E i \in ToSet(disk.ids) : Present(i)
      BY <1>1, <2>1 DEF Resumes
    <3>3. Len(disk.ids) \in Nat /\ \A p \in 1..Len(disk.ids) : disk.ids[p] \in Images
      BY <3>1
    <3>4. \A p \in 1..Len(disk.ids) : disk.ids[p] \in ToSet(disk.ids) /\ Present(disk.ids[p])
      BY <3>1, <3>3 DEF ToSet, CalmInv, Present
    <3>5. ~(1 \in 1..Len(disk.ids))
      BY <3>2, <3>4
    <3>6. QED
      BY <3>1, <3>5
  <2>2. CASE ~disk.active
    BY <1>1, <2>2 DEF AlignedInv, Aligned
  <2>3. QED
    BY <2>1, <2>2
<1>2. QED
  BY <1>1 DEF CrashAndRestart, Restore, library

\* Every step keeps the stacks along the list.
LEMMA AlignedStep ==
  ASSUME Failures = {}, Clears = FALSE, TypedInv, CalmInv, AlignedInv, [Next]_vars
  PROVE  AlignedInv'
<1>1. CASE UNCHANGED <<active, ids, index, history, redo, disk>>
  BY <1>1 DEF AlignedInv
<1>2. CASE FinishAction
  BY <1>2, FinishAligns
<1>3. CASE \E s \in Starters : CommitStart(s)
  <2>1. PICK s \in Starters : CommitStart(s)
    BY <1>3
  <2>2. request[s].ids \in Seq(Images)
    BY <2>1, ListsAreOK DEF CommitStart, TypedInv, RequestsOK
  <2>3. Aligned(TRUE, request[s].ids, 0, <<>>, <<>>)
    BY <2>2, NothingAligns
  <2>4. Aligned(active', ids', index', history', redo') /\ Save
    BY <2>1, <2>3 DEF CommitStart
  <2>5. QED
    BY <2>4, SaveAligns
<1>4. CASE SetFolders
  <2>1. Aligned(active', ids', index', history', redo') /\ Save
    BY <1>4 DEF SetFolders, AlignedInv
  <2>2. QED
    BY <2>1, SaveAligns
<1>5. CASE CrashAndRestart
  <2>1. CASE Resumes
    <3>1. Aligned(active', ids', index', history', redo') /\ Save
      BY <1>5, <2>1, CrashResumes DEF AlignedInv, Resumes
    <3>2. QED
      BY <3>1, SaveAligns
  <2>2. CASE ~Resumes
    <3>1. /\ active' = FALSE /\ ids' = <<>> /\ index' = 0 /\ history' = <<>> /\ redo' = <<>>
          /\ disk' = None \/ disk' = disk
      BY <1>5, <2>2, CrashForgets
    <3>2. Aligned(FALSE, <<>>, 0, <<>>, <<>>)
      BY NothingAligns, EmptySession
    <3>3. Aligned(active', ids', index', history', redo')
      BY <3>1, <3>2
    <3>4. QED
      BY <3>1, <3>3 DEF AlignedInv
  <2>3. QED
    BY <2>1, <2>2
<1>6. ~Clear /\ (\A i \in Images : ~Damage(i)) /\ ~GetAdvance /\ ~RemoveFile /\ ~StepOverMissingRow
  <2>1. ~GetAdvance /\ ~RemoveFile
    BY DEF CalmInv, GetAdvance, RemoveFile
  <2>2. ~StepOverMissingRow
    BY DEF CalmInv, StepOverMissingRow, Present, Begins, Current, TypedInv, SessionOK, Persisted
  <2>3. QED
    BY <2>1, <2>2 DEF Clear, Damage
<1>7. QED
  <2>1. CASE Request
    BY <1>1, <1>4, <1>6, <2>1
       DEF Request, BeginStart, BeginGet, BeginUndo, BeginRedo, BeginDecide, memory, file
  <2>2. CASE LoopStep
    BY <1>1, <1>6, <2>2 DEF LoopStep, GetRead, GetLook, memory, file
  <2>3. CASE UNCHANGED vars
    BY <1>1, <2>3 DEF vars, memory, file
  <2>4. QED
    BY <1>2, <1>3, <1>5, <1>6, <2>1, <2>2, <2>3 DEF Next

\* In every step the file follows the session, until a save fails.
LEMMA SavedStep ==
  ASSUME Failures = {}, Clears = FALSE, TypedInv, CalmInv, AlignedInv, SavedInv, [Next]_vars
  PROVE  SavedInv'
<1>1. CASE UNCHANGED <<memory, disk, unsaved>>
  BY <1>1 DEF SavedInv, Persisted, memory
<1>2. CASE Save /\ (active' \/ active' = active)
  <2>1. unsaved' = 0 => disk' = Persisted'
    BY <1>2, SaveSaves DEF TypedInv
  <2>2. disk' = disk \/ disk' = Persisted'
    BY <1>2 DEF Save
  <2>3. active \in BOOLEAN
    BY DEF TypedInv, SessionOK, Persisted
  <2>4. Persisted'.active = active'
    BY DEF Persisted
  <2>5. QED
    BY <1>2, <2>1, <2>2, <2>3, <2>4 DEF SavedInv
<1>3. CASE FinishAction
  BY <1>2, <1>3, FinishAligns DEF FinishAction, FinishDecide, FinishUndo, FinishRedo, Finish
<1>4. CASE CrashAndRestart
  <2>1. CASE Resumes
    BY <1>2, <1>4, <2>1, CrashResumes
  <2>2. CASE ~Resumes
    <3>1. active' = FALSE /\ (disk' = None \/ (disk' = disk /\ ~(disk # None /\ disk.active)))
      BY <1>4, <2>2 DEF CrashAndRestart, Restore
    <3>2. disk # None => disk.active \in BOOLEAN
      BY DEF TypedInv, FileOK, SessionOK
    <3>3. QED
      BY <3>1, <3>2 DEF SavedInv
  <2>3. QED
    BY <2>1, <2>2
<1>5. CASE \E s \in Starters : CommitStart(s)
  BY <1>2, <1>5 DEF CommitStart
<1>6. ~Clear /\ (\A i \in Images : ~Damage(i)) /\ ~GetAdvance /\ ~RemoveFile
  BY DEF CalmInv, GetAdvance, RemoveFile, Clear, Damage
<1>7. QED
  <2>1. CASE Request
    BY <1>1, <1>2, <1>6, <2>1
       DEF Request, BeginStart, BeginGet, BeginUndo, BeginRedo, BeginDecide, SetFolders,
           StepOverMissingRow, file
  <2>2. CASE LoopStep
    BY <1>1, <1>6, <2>2 DEF LoopStep, GetRead, GetLook, file
  <2>3. CASE UNCHANGED vars
    BY <1>1, <2>3 DEF vars, file
  <2>4. QED
    BY <1>3, <1>4, <1>5, <1>6, <2>1, <2>2, <2>3 DEF Next

------------------------------------------------------------------------------
(* What was done and what the history says was done *)

Effect(e) == <<e.image, e.action>>
Counts(e) == ~e.prior /\ e.action # "skip"
RecordedBy(h) == {Effect(h[p]) : p \in {q \in 1..Len(h) : Counts(h[q])}}

\* The history once the action that holds the lock has ended.
Intended == IF pending = None THEN history
            ELSE IF pending.kind = "undo" THEN Front(history)
            ELSE Append(history, pending.entry)

\* Effects without an entry and entries without an effect.
Gap(A, B, R) == (A \ (B \cup R)) \cup ((B \cup R) \ A)

\* What an entry's key found done is still done; what the key did was not there before.
EntrySound(e, A, B) == e.action # "skip" => IF e.prior THEN Effect(e) \in A ELSE Effect(e) \notin B

LedgerInv ==
    unsaved = 0 =>
        /\ base \subseteq applied
        /\ \A p \in 1..Len(history) : EntrySound(history[p], applied, base)
        /\ \A p \in 1..Len(redo) : EntrySound(redo[p], applied, base)
        /\ pending # None => EntrySound(pending.entry, applied, base)
        /\ IsFiniteSet(Gap(applied, base, RecordedBy(Intended)))
        /\ Cardinality(Gap(applied, base, RecordedBy(Intended))) <= crashes

\* What one more entry records.
LEMMA RecordsMore ==
  ASSUME NEW h \in Seq(Entries), NEW e \in Entries
  PROVE  RecordedBy(Append(h, e)) = RecordedBy(h) \cup (IF Counts(e) THEN {Effect(e)} ELSE {})
<1>1. PICK c : c = Append(h, e)
  OBVIOUS
<1>2. /\ Len(c) = Len(h) + 1 /\ c[Len(h) + 1] = e /\ Len(h) \in Nat
      /\ \A p \in 1..Len(h) : c[p] = h[p]
  BY <1>1, Extends
<1>3. \A p : p \in 1..Len(c) <=> p \in 1..Len(h) \/ p = Len(h) + 1
  BY <1>2
<1>4. QED
  BY <1>1, <1>2, <1>3 DEF RecordedBy

\* What is recorded without the last entry.
LEMMA RecordsLess ==
  ASSUME NEW h \in Seq(Entries), h # <<>>,
         \A p \in 1..Len(h) - 1 : Effect(h[p]) # Effect(Last(h))
  PROVE  RecordedBy(Front(h)) = RecordedBy(h) \ (IF Counts(Last(h)) THEN {Effect(Last(h))} ELSE {})
<1>1. PICK c : c = Front(h)
  OBVIOUS
<1>2. /\ Len(h) \in Nat \ {0} /\ Len(c) = Len(h) - 1 /\ Last(h) = h[Len(h)]
      /\ \A p \in 1..Len(h) - 1 : c[p] = h[p]
  BY <1>1, Split
<1>3. \A p : p \in 1..Len(h) <=> p \in 1..Len(c) \/ p = Len(h)
  BY <1>2
<1>4. QED
  BY <1>1, <1>2, <1>3 DEF RecordedBy

\* How the gap between effects and entries changes by one effect or entry.
LEMMA GapShrinks ==
  ASSUME NEW A, NEW B, NEW R, NEW x
  PROVE  /\ Gap(A \cup {x}, B, R \cup {x}) \subseteq Gap(A, B, R)
         /\ x \notin B => Gap(A \ {x}, B, R \ {x}) \subseteq Gap(A, B, R)
         /\ Gap(A, B, R) \subseteq Gap(A, B, R \cup {x}) \cup {x}
         /\ Gap(A, B, R) \subseteq Gap(A, B, R \ {x}) \cup {x}
BY DEF Gap

\* The size of a gap that lost something or gained one thing.
LEMMA SmallerGap ==
  ASSUME NEW G, NEW H, IsFiniteSet(G), NEW n \in Nat, Cardinality(G) <= n
  PROVE  /\ H \subseteq G => IsFiniteSet(H) /\ Cardinality(H) <= n
         /\ \A x : H \subseteq G \cup {x} => IsFiniteSet(H) /\ Cardinality(H) <= n + 1
<1>1. Cardinality(G) \in Nat
  BY FS_CardinalityType
<1>2. ASSUME H \subseteq G PROVE IsFiniteSet(H) /\ Cardinality(H) <= n
  <2>1. IsFiniteSet(H) /\ Cardinality(H) <= Cardinality(G)
    BY <1>2, FS_Subset
  <2>2. Cardinality(H) \in Nat
    BY <2>1, FS_CardinalityType
  <2>3. QED
    BY <1>1, <2>1, <2>2
<1>3. ASSUME NEW x, H \subseteq G \cup {x} PROVE IsFiniteSet(H) /\ Cardinality(H) <= n + 1
  <2>1. IsFiniteSet(G \cup {x}) /\ (Cardinality(G \cup {x}) = Cardinality(G) \/ Cardinality(G \cup {x}) = Cardinality(G) + 1)
    BY FS_AddElement
  <2>2. IsFiniteSet(H) /\ Cardinality(H) <= Cardinality(G \cup {x})
    BY <1>3, <2>1, FS_Subset
  <2>3. Cardinality(H) \in Nat
    BY <2>2, FS_CardinalityType
  <2>4. QED
    BY <1>1, <2>1, <2>2, <2>3
<1>4. QED
  BY <1>2, <1>3

\* Every other entry is about another picture than the one decided last.
LEMMA LastIsAlone ==
  ASSUME TypedInv, AlignedInv, history # <<>>
  PROVE  /\ \A p \in 1..Len(history) - 1 : history[p].image # Last(history).image
         /\ \A p \in 1..Len(redo) : redo[p].image # Last(history).image
<1>1. /\ ids \in Seq(Images) /\ NoRepeats(ids) /\ history \in Seq(Entries) /\ redo \in Seq(Entries)
      /\ Aligned(active, ids, index, history, redo)
  BY DEF TypedInv, SessionOK, Persisted, AlignedInv
<1>2. Len(history) \in Nat \ {0} /\ Last(history) = history[Len(history)]
  BY <1>1, Split
<1>3. Len(redo) \in Nat /\ Len(ids) \in Nat /\ Len(history) + Len(redo) <= Len(ids)
  BY <1>1 DEF Aligned
<1>4. Len(history) \in 1..Len(history) /\ Len(history) \in 1..Len(ids)
  BY <1>2, <1>3
<1>5. Last(history).image = ids[Len(history)]
  BY <1>1, <1>2, <1>4 DEF Aligned
<1>6. ASSUME NEW p \in 1..Len(history) - 1 PROVE history[p].image # Last(history).image
  <2>1. p \in 1..Len(history) /\ p \in 1..Len(ids) /\ p # Len(history)
    BY <1>2, <1>3
  <2>2. history[p].image = ids[p]
    BY <1>1, <2>1 DEF Aligned
  <2>3. QED
    BY <1>1, <1>4, <1>5, <2>1, <2>2 DEF NoRepeats
<1>7. ASSUME NEW p \in 1..Len(redo) PROVE redo[p].image # Last(history).image
  <2>1. PICK q : q = Len(history) + Len(redo) - p + 1
    OBVIOUS
  <2>2. q \in 1..Len(ids) /\ q # Len(history)
    BY <1>2, <1>3, <2>1
  <2>3. redo[p].image = ids[q]
    BY <1>1, <2>1 DEF Aligned
  <2>4. QED
    BY <1>1, <1>4, <1>5, <2>2, <2>3 DEF NoRepeats
<1>8. QED
  BY <1>6, <1>7

\* A step that touches neither effects nor entries keeps the ledger.
LEMMA EffectsKept ==
  ASSUME LedgerInv, UNCHANGED <<history, redo, pending, applied, base, crashes>>,
         unsaved' = 0 => unsaved = 0
  PROVE  LedgerInv'
BY DEF LedgerInv, Intended

\* An entry stays sound when more is done.
LEMMA SoundStays ==
  ASSUME NEW e, NEW A, NEW B, NEW C, EntrySound(e, A, B), A \subseteq C
  PROVE  EntrySound(e, C, B)
BY DEF EntrySound

\* A decision takes effect and is about to be recorded.
LEMMA BeginDecideLedger ==
  ASSUME TypedInv, LedgerInv, NEW key \in Keys, BeginDecide(key)
  PROVE  LedgerInv'
<1> DEFINE e == [action |-> key, image |-> Current, prior |-> <<Current, key>> \in applied]
<1> SUFFICES ASSUME unsaved = 0 PROVE LedgerInv'
  BY DEF BeginDecide, file, LedgerInv
<1>1. pending = None /\ Intended = history /\ history \in Seq(Entries) /\ crashes \in Nat
  BY DEF BeginDecide, Begins, LockFree, Intended, TypedInv, SessionOK, Persisted, CountsOK
<1>2. pending' = [kind |-> "decide", entry |-> e] /\ UNCHANGED <<history, redo, base, unsaved, crashes>>
      /\ applied' = IF key = "skip" THEN applied ELSE applied \cup {<<Current, key>>}
  BY DEF BeginDecide, Holds, memory, file
<1>3. /\ e.action = key /\ Effect(e) = <<Current, key>>
      /\ e.prior <=> <<Current, key>> \in applied
  BY DEF Effect
<1>4. e \in Entries
  <2>1. Current \in Images
    BY DEF BeginDecide, Begins, TypedInv, SessionOK, Persisted, Current
  <2>2. key \in {"move", "collect", "skip"}
    BY EffectsAssumption DEF Keys
  <2>3. (<<Current, key>> \in applied) \in BOOLEAN
    OBVIOUS
  <2>4. QED
    BY <2>1, <2>2, <2>3 DEF Entries
<1> HIDE DEF e
<1>5. pending' # None /\ pending'.kind = "decide" /\ pending'.entry = e
  BY <1>2, <1>4, NoneAssumption
<1>6. Intended' = Append(history, e)
  BY <1>2, <1>5 DEF Intended
<1>7. RecordedBy(Intended') = RecordedBy(history) \cup (IF Counts(e) THEN {Effect(e)} ELSE {})
  BY <1>1, <1>4, <1>6, RecordsMore
<1>8. Gap(applied', base, RecordedBy(Intended')) \subseteq Gap(applied, base, RecordedBy(Intended))
  <2>1. CASE Counts(e)
    <3>1. applied' = applied \cup {Effect(e)}
      BY <1>2, <1>3, <2>1 DEF Counts
    <3>2. QED
      BY <1>1, <1>7, <2>1, <3>1, GapShrinks
  <2>2. CASE ~Counts(e)
    <3>1. applied' = applied
      BY <1>2, <1>3, <2>2 DEF Counts
    <3>2. QED
      BY <1>1, <1>7, <2>2, <3>1
  <2>3. QED
    BY <2>1, <2>2
<1>9. /\ IsFiniteSet(Gap(applied', base, RecordedBy(Intended')))
      /\ Cardinality(Gap(applied', base, RecordedBy(Intended'))) <= crashes
  BY <1>1, <1>8, SmallerGap DEF LedgerInv
<1>10. EntrySound(e, applied', base)
  BY <1>2, <1>3 DEF LedgerInv, EntrySound
<1>11. applied \subseteq applied'
  BY <1>2
<1>12. QED
  BY <1>2, <1>5, <1>9, <1>10, <1>11, SoundStays DEF LedgerInv

\* An undo takes its effect back, if its entry is the one that caused it.
LEMMA BeginUndoLedger ==
  ASSUME TypedInv, CalmInv, AlignedInv, LedgerInv, BeginUndo
  PROVE  LedgerInv'
<1> DEFINE e == Last(history)
<1> SUFFICES ASSUME unsaved = 0 PROVE LedgerInv'
  BY DEF BeginUndo, file, LedgerInv
<1>1. /\ pending = None /\ Intended = history /\ history \in Seq(Entries) /\ crashes \in Nat
      /\ history # <<>>
  BY DEF BeginUndo, Begins, LockFree, Intended, TypedInv, SessionOK, Persisted, CountsOK
<1>2. /\ e \in Entries /\ e = history[Len(history)] /\ Len(history) \in 1..Len(history)
      /\ Len(history) \in Nat \ {0}
  BY <1>1, Split
<1>3. EntrySound(e, applied, base)
  BY <1>2 DEF LedgerInv
<1>4. /\ \A p \in 1..Len(history) - 1 : Effect(history[p]) # Effect(e)
      /\ \A p \in 1..Len(redo) : Effect(redo[p]) # Effect(e)
  BY <1>1, LastIsAlone DEF Effect
<1>5. /\ pending' = [kind |-> "undo", entry |-> e]
      /\ UNCHANGED <<history, redo, base, unsaved, crashes>>
      /\ applied' = IF Counts(e) THEN applied \ {Effect(e)} ELSE applied
  <2>1. image[e.image] = "ok"
    BY <1>2 DEF CalmInv, Entries
  <2>2. e.action = "skip" => e.action # "move"
    OBVIOUS
  <2>3. TakeBack(e) = IF Counts(e) THEN applied \ {Effect(e)} ELSE applied
    BY <2>1 DEF TakeBack, Counts, Effect
  <2>4. QED
    BY <2>3 DEF BeginUndo, Holds, memory, file
<1>6. pending' # None /\ pending'.kind = "undo" /\ pending'.entry = e
  BY <1>2, <1>5, NoneAssumption
<1>7. Intended' = Front(history)
  BY <1>5, <1>6 DEF Intended
<1>8. RecordedBy(Intended') = RecordedBy(history) \ (IF Counts(e) THEN {Effect(e)} ELSE {})
  BY <1>1, <1>4, <1>7, RecordsLess
<1> HIDE DEF e
<1>9. Counts(e) => Effect(e) \notin base
  BY <1>3 DEF EntrySound, Counts
<1>10. Gap(applied', base, RecordedBy(Intended')) \subseteq Gap(applied, base, RecordedBy(Intended))
  <2>1. CASE Counts(e)
    BY <1>1, <1>5, <1>8, <1>9, <2>1, GapShrinks
  <2>2. CASE ~Counts(e)
    BY <1>1, <1>5, <1>8, <2>2
  <2>3. QED
    BY <2>1, <2>2
<1>11. /\ IsFiniteSet(Gap(applied', base, RecordedBy(Intended')))
       /\ Cardinality(Gap(applied', base, RecordedBy(Intended'))) <= crashes
  BY <1>1, <1>10, SmallerGap DEF LedgerInv
<1>12. base \subseteq applied'
  BY <1>5, <1>9 DEF LedgerInv
<1>13. EntrySound(e, applied', base)
  BY <1>3, <1>5 DEF EntrySound, Counts
<1>14. ASSUME NEW x, EntrySound(x, applied, base), Effect(x) # Effect(e) PROVE EntrySound(x, applied', base)
  BY <1>5, <1>14 DEF EntrySound
<1>15. \A p \in 1..Len(history) : EntrySound(history[p], applied', base)
  <2>1. \A p \in 1..Len(history) : p \in 1..Len(history) - 1 \/ p = Len(history)
    BY <1>2
  <2>2. QED
    BY <1>2, <1>4, <1>13, <1>14, <2>1 DEF LedgerInv
<1>16. \A p \in 1..Len(redo) : EntrySound(redo[p], applied', base)
  BY <1>4, <1>14 DEF LedgerInv
<1>17. QED
  BY <1>5, <1>6, <1>11, <1>12, <1>13, <1>15, <1>16 DEF LedgerInv

\* A redo takes effect again.
LEMMA BeginRedoLedger ==
  ASSUME TypedInv, LedgerInv, BeginRedo
  PROVE  LedgerInv'
<1> DEFINE e == Last(redo)
<1> SUFFICES ASSUME unsaved = 0 PROVE LedgerInv'
  BY DEF BeginRedo, file, LedgerInv
<1>1. /\ pending = None /\ Intended = history /\ history \in Seq(Entries) /\ crashes \in Nat
      /\ redo \in Seq(Entries) /\ redo # <<>>
  BY DEF BeginRedo, Begins, LockFree, Intended, TypedInv, SessionOK, Persisted, CountsOK
<1>2. e \in Entries /\ e = redo[Len(redo)] /\ Len(redo) \in 1..Len(redo)
  BY <1>1, Split
<1>3. EntrySound(e, applied, base)
  BY <1>2 DEF LedgerInv
<1>4. /\ pending' = [kind |-> "redo", entry |-> e]
      /\ UNCHANGED <<history, redo, base, unsaved, crashes>>
      /\ applied' = IF e.action = "skip" THEN applied ELSE applied \cup {Effect(e)}
  BY DEF BeginRedo, Holds, memory, file, Effect
<1>5. applied' = IF Counts(e) THEN applied \cup {Effect(e)} ELSE applied
  <2>1. e.prior /\ e.action # "skip" => Effect(e) \in applied
    BY <1>3 DEF EntrySound
  <2>2. QED
    BY <1>4, <2>1 DEF Counts
<1> HIDE DEF e
<1>6. pending' # None /\ pending'.kind = "redo" /\ pending'.entry = e
  BY <1>2, <1>4, NoneAssumption
<1>7. RecordedBy(Intended') = RecordedBy(history) \cup (IF Counts(e) THEN {Effect(e)} ELSE {})
  BY <1>1, <1>2, <1>4, <1>6, RecordsMore DEF Intended
<1>8. Gap(applied', base, RecordedBy(Intended')) \subseteq Gap(applied, base, RecordedBy(Intended))
  <2>1. CASE Counts(e)
    BY <1>1, <1>5, <1>7, <2>1, GapShrinks
  <2>2. CASE ~Counts(e)
    BY <1>1, <1>5, <1>7, <2>2
  <2>3. QED
    BY <2>1, <2>2
<1>9. /\ IsFiniteSet(Gap(applied', base, RecordedBy(Intended')))
      /\ Cardinality(Gap(applied', base, RecordedBy(Intended'))) <= crashes
  BY <1>1, <1>8, SmallerGap DEF LedgerInv
<1>10. applied \subseteq applied'
  BY <1>5
<1>11. QED
  BY <1>3, <1>4, <1>6, <1>9, <1>10, SoundStays DEF LedgerInv

\* The end of a sort action records what it began.
LEMMA FinishLedger ==
  ASSUME TypedInv, LedgerInv, FinishAction
  PROVE  LedgerInv'
<1>1. /\ pending # None /\ pending.entry \in Entries
      /\ history \in Seq(Entries) /\ redo \in Seq(Entries) /\ unsaved \in Nat
  BY DEF FinishAction, FinishDecide, FinishUndo, FinishRedo, Finish, TypedInv, PendingOK,
         SessionOK, Persisted, CountsOK
<1>2. unsaved' = 0 => unsaved = 0
  BY <1>1 DEF FinishAction, FinishDecide, FinishUndo, FinishRedo, Save, file
<1> SUFFICES ASSUME unsaved = 0 PROVE LedgerInv'
  BY <1>2 DEF LedgerInv
<1>3. pending' = None /\ UNCHANGED <<applied, base, crashes>>
  BY DEF FinishAction, FinishDecide, FinishUndo, FinishRedo, Finish, library
<1>4. history' = Intended
  BY <1>1 DEF FinishAction, FinishDecide, FinishUndo, FinishRedo, Finish, Intended
<1>5. Intended' = Intended
  BY <1>3, <1>4 DEF Intended
<1>6. ASSUME NEW h \in Seq(Entries), \A p \in 1..Len(h) : EntrySound(h[p], applied, base)
      PROVE  /\ \A p \in 1..Len(Append(h, pending.entry)) : EntrySound(Append(h, pending.entry)[p], applied, base)
             /\ h # <<>> => \A p \in 1..Len(Front(h)) : EntrySound(Front(h)[p], applied, base)
  <2>1. PICK c, d : c = Append(h, pending.entry) /\ d = Front(h)
    OBVIOUS
  <2>2. Len(c) = Len(h) + 1 /\ c[Len(h) + 1] = pending.entry /\ (\A p \in 1..Len(h) : c[p] = h[p])
        /\ Len(h) \in Nat
    BY <1>1, <2>1, Extends
  <2>3. EntrySound(pending.entry, applied, base)
    BY <1>1 DEF LedgerInv
  <2>4. \A p \in 1..Len(c) : p \in 1..Len(h) \/ p = Len(h) + 1
    BY <2>2
  <2>5. \A p \in 1..Len(c) : EntrySound(c[p], applied, base)
    BY <1>6, <2>2, <2>3, <2>4
  <2>6. ASSUME h # <<>> PROVE \A p \in 1..Len(d) : EntrySound(d[p], applied, base)
    <3>1. Len(d) = Len(h) - 1 /\ \A p \in 1..Len(h) - 1 : d[p] = h[p]
      BY <2>1, <2>6, Split
    <3>2. \A p \in 1..Len(d) : p \in 1..Len(h) /\ d[p] = h[p]
      BY <2>2, <3>1
    <3>3. QED
      BY <1>6, <3>2
  <2>7. QED
    BY <2>1, <2>5, <2>6
<1>7. \A p \in 1..Len(history') : EntrySound(history'[p], applied, base)
  BY <1>1, <1>6 DEF FinishAction, FinishDecide, FinishUndo, FinishRedo, Finish, TypedInv, PendingOK,
     LedgerInv
<1>8. \A p \in 1..Len(redo') : EntrySound(redo'[p], applied, base)
  <2>1. \A p \in 1..Len(<<>>) : EntrySound(<<>>[p], applied, base)
    OBVIOUS
  <2>2. QED
    BY <1>1, <1>6, <2>1 DEF FinishAction, FinishDecide, FinishUndo, FinishRedo, Finish, TypedInv, PendingOK,
       LedgerInv
<1>9. QED
  BY <1>3, <1>5, <1>7, <1>8 DEF LedgerInv

\* A crash loses at most the action that held the lock.
LEMMA CrashLedger ==
  ASSUME TypedInv, CalmInv, AlignedInv, SavedInv, LedgerInv, CrashAndRestart
  PROVE  LedgerInv'
<1>1. /\ pending' = None /\ crashes' = crashes + 1 /\ applied' = applied
      /\ Intended' = history' /\ crashes \in Nat /\ unsaved \in Nat
      /\ history \in Seq(Entries)
  BY DEF CrashAndRestart, library, Intended, TypedInv, CountsOK, SessionOK, Persisted
<1>2. CASE ~Resumes
  <2>1. history' = <<>> /\ redo' = <<>> /\ base' = applied
    BY <1>2, CrashForgets
  <2>2. Gap(applied', base', RecordedBy(Intended')) = {}
    BY <1>1, <2>1 DEF Gap, RecordedBy
  <2>3. /\ IsFiniteSet(Gap(applied', base', RecordedBy(Intended')))
        /\ Cardinality(Gap(applied', base', RecordedBy(Intended'))) = 0
    BY <2>2, FS_EmptySet
  <2>4. 0 <= crashes' /\ base' \subseteq applied'
    BY <1>1, <2>1
  <2>5. \A p \in 1..Len(<<>>) : FALSE
    OBVIOUS
  <2>6. QED
    BY <1>1, <2>1, <2>3, <2>4, <2>5 DEF LedgerInv
<1>3. CASE Resumes
  <2>1. base' = base /\ history' = disk.history /\ redo' = disk.redo /\ Save
    BY <1>3, CrashResumes DEF CrashAndRestart
  <2>2. unsaved' = 0 => unsaved = 0
    BY <1>1, <2>1 DEF Save
  <2> SUFFICES ASSUME unsaved = 0 PROVE LedgerInv'
    BY <2>2 DEF LedgerInv
  <2>3. disk # None /\ disk.active = TRUE
    BY <1>3 DEF Resumes, TypedInv, FileOK, SessionOK
  <2>4. disk = Persisted
    BY <2>3 DEF SavedInv
  <2>5. history' = history /\ redo' = redo
    BY <2>1, <2>4 DEF Persisted
  <2>6. \E x : Gap(applied, base, RecordedBy(history))
                 \subseteq Gap(applied, base, RecordedBy(Intended)) \cup {x}
    <3>1. CASE pending = None
      BY <3>1 DEF Intended
    <3>2. CASE pending # None
      <4>1. pending.entry \in Entries
        BY <3>2 DEF TypedInv, PendingOK
      <4>2. CASE pending.kind = "undo"
        <5>1. history # <<>> /\ Intended = Front(history)
          BY <3>2, <4>2 DEF TypedInv, PendingOK, Intended
        <5>2. \A p \in 1..Len(history) - 1 : Effect(history[p]) # Effect(Last(history))
          BY <5>1, LastIsAlone DEF Effect
        <5>3. RecordedBy(Intended) = RecordedBy(history) \
                  (IF Counts(Last(history)) THEN {Effect(Last(history))} ELSE {})
          BY <1>1, <5>1, <5>2, RecordsLess
        <5>4. \/ RecordedBy(Intended) = RecordedBy(history) \ {Effect(Last(history))}
              \/ RecordedBy(Intended) = RecordedBy(history)
          BY <5>3
        <5>5. Gap(applied, base, RecordedBy(history))
                \subseteq Gap(applied, base, RecordedBy(Intended)) \cup {Effect(Last(history))}
          BY <5>4, GapShrinks
        <5>6. QED
          BY <5>5
      <4>3. CASE pending.kind # "undo"
        <5>1. Intended = Append(history, pending.entry)
          BY <3>2, <4>3 DEF Intended
        <5>2. RecordedBy(Intended) = RecordedBy(history) \cup
                  (IF Counts(pending.entry) THEN {Effect(pending.entry)} ELSE {})
          BY <1>1, <4>1, <5>1, RecordsMore
        <5>3. \/ RecordedBy(Intended) = RecordedBy(history) \cup {Effect(pending.entry)}
              \/ RecordedBy(Intended) = RecordedBy(history)
          BY <5>2
        <5>4. Gap(applied, base, RecordedBy(history))
                \subseteq Gap(applied, base, RecordedBy(Intended)) \cup {Effect(pending.entry)}
          BY <5>3, GapShrinks
        <5>5. QED
          BY <5>4
      <4>4. QED
        BY <4>2, <4>3
    <3>3. QED
      BY <3>1, <3>2
  <2>7. /\ IsFiniteSet(Gap(applied, base, RecordedBy(history)))
        /\ Cardinality(Gap(applied, base, RecordedBy(history))) <= crashes + 1
    BY <1>1, <2>6, SmallerGap DEF LedgerInv
  <2>8. QED
    BY <1>1, <2>1, <2>5, <2>7 DEF LedgerInv
<1>4. QED
  BY <1>2, <1>3

\* Every step keeps the ledger: a crash opens the gap by one effect at most.
LEMMA LedgerStep ==
  ASSUME Failures = {}, Clears = FALSE, TypedInv, CalmInv, AlignedInv, SavedInv, LedgerInv, [Next]_vars
  PROVE  LedgerInv'
<1>1. unsaved \in Nat /\ crashes \in Nat
  BY DEF TypedInv, CountsOK
<1>2. CASE UNCHANGED <<history, redo, pending, applied, base, crashes, unsaved>>
  BY <1>2, EffectsKept
<1>3. CASE SetFolders
  <2>1. unsaved' = 0 => unsaved = 0
    BY <1>1, <1>3 DEF SetFolders, Save
  <2>2. QED
    BY <1>3, <2>1, EffectsKept DEF SetFolders, library
<1>4. CASE \E s \in Starters : CommitStart(s)
  <2>1. /\ history' = <<>> /\ redo' = <<>> /\ base' = applied /\ applied' = applied
        /\ pending' = None /\ crashes' = crashes
    BY <1>4 DEF CommitStart, LockFree, library
  <2>2. Intended' = <<>>
    BY <2>1 DEF Intended
  <2>3. Gap(applied', base', RecordedBy(Intended')) = {}
    BY <2>1, <2>2 DEF Gap, RecordedBy
  <2>4. QED
    BY <1>1, <2>1, <2>3, FS_EmptySet DEF LedgerInv
<1>5. ASSUME NEW key \in Keys, BeginDecide(key) PROVE LedgerInv'
  BY <1>5, BeginDecideLedger
<1>6. CASE BeginUndo
  BY <1>6, BeginUndoLedger
<1>7. CASE BeginRedo
  BY <1>7, BeginRedoLedger
<1>8. CASE FinishAction
  BY <1>8, FinishLedger
<1>9. CASE CrashAndRestart
  BY <1>9, CrashLedger
<1>10. ~Clear /\ (\A i \in Images : ~Damage(i)) /\ ~GetAdvance /\ ~RemoveFile /\ ~StepOverMissingRow
  <2>1. ~GetAdvance /\ ~RemoveFile
    BY DEF CalmInv, GetAdvance, RemoveFile
  <2>2. ~StepOverMissingRow
    BY DEF CalmInv, StepOverMissingRow, Present, Begins, Current, TypedInv, SessionOK, Persisted
  <2>3. QED
    BY <2>1, <2>2 DEF Clear, Damage
<1>11. QED
  <2>1. CASE Request
    BY <1>2, <1>3, <1>5, <1>6, <1>7, <1>10, <2>1
       DEF Request, BeginStart, BeginGet, memory, file, library
  <2>2. CASE LoopStep
    BY <1>2, <1>10, <2>2 DEF LoopStep, GetRead, GetLook, memory, file, library
  <2>3. CASE UNCHANGED vars
    BY <1>2, <2>3 DEF vars, memory, file, library
  <2>4. QED
    BY <1>4, <1>8, <1>9, <1>10, <2>1, <2>2, <2>3 DEF Next

SteadyInv == TypedInv /\ CalmInv /\ AlignedInv /\ SavedInv /\ LedgerInv

\* The first state.
LEMMA SteadyInit == Init => SteadyInv
<1> SUFFICES ASSUME Init PROVE SteadyInv
  OBVIOUS
<1>1. TypedInv
  BY InitTyped
<1>2. CalmInv
  BY DEF Init, CalmInv
<1>3. Aligned(FALSE, <<>>, 0, <<>>, <<>>)
  BY NothingAligns, EmptySession
<1>4. AlignedInv /\ SavedInv
  BY <1>3 DEF Init, AlignedInv, SavedInv
<1>5. Gap(applied, base, RecordedBy(Intended)) = {}
  BY DEF Init, Gap, RecordedBy, Intended
<1>6. LedgerInv
  BY <1>5, FS_EmptySet DEF Init, LedgerInv
<1>7. QED
  BY <1>1, <1>2, <1>4, <1>6 DEF SteadyInv

\* Every step keeps all of it.
LEMMA SteadyStep ==
  ASSUME Failures = {}, Clears = FALSE, SteadyInv, [Next]_vars
  PROVE  SteadyInv'
BY StepTypes, CalmStep, AlignedStep, SavedStep, LedgerStep DEF SteadyInv

\* The ledger says what EffectsAreRecorded says.
LEMMA LedgerRecords ==
  ASSUME SteadyInv
  PROVE  EffectsAreRecorded
<1> SUFFICES ASSUME pending = None, unsaved = 0
             PROVE  Cardinality(Unrecorded) + Cardinality(Phantom) <= crashes
  BY DEF EffectsAreRecorded
<1>1. Intended = history /\ history \in Seq(Entries) /\ crashes \in Nat
  BY DEF Intended, SteadyInv, TypedInv, SessionOK, Persisted, CountsOK
<1>2. RecordedBy(history) = Recorded
  <2>1. \A x : x \in ToSet(history) <=> \E p \in 1..Len(history) : x = history[p]
    BY <1>1 DEF ToSet
  <2>2. QED
    BY <2>1 DEF RecordedBy, Recorded, Effect, Counts
<1> DEFINE G == Gap(applied, base, RecordedBy(history))
<1>3. IsFiniteSet(G) /\ Cardinality(G) <= crashes
  BY <1>1 DEF SteadyInv, LedgerInv
<1>4. Unrecorded \cup Phantom = G /\ Unrecorded \cap Phantom = {}
  BY <1>2 DEF Unrecorded, Phantom, Gap
<1> HIDE DEF G
<1>5. IsFiniteSet(Unrecorded) /\ IsFiniteSet(Phantom)
  BY <1>3, <1>4, FS_Subset
<1>6. Cardinality(G) = Cardinality(Unrecorded) + Cardinality(Phantom) - Cardinality({})
  BY <1>4, <1>5, FS_Union
<1>7. Cardinality({}) = 0 /\ Cardinality(Unrecorded) \in Nat /\ Cardinality(Phantom) \in Nat
  BY <1>5, FS_EmptySet, FS_CardinalityType
<1>8. QED
  BY <1>1, <1>3, <1>6, <1>7

\* Files and collections are what the history says, but for one effect per crash, as
\* long as every save succeeded, no picture goes missing and no session is cleared.
THEOREM EffectsRecorded ==
  ASSUME Failures = {}, Clears = FALSE
  PROVE  Spec => []EffectsAreRecorded
<1>1. Init => SteadyInv
  BY SteadyInit
<1>2. SteadyInv /\ [Next]_vars => SteadyInv'
  BY SteadyStep
<1>3. SteadyInv => EffectsAreRecorded
  BY LedgerRecords
<1>4. QED
  BY <1>1, <1>2, <1>3, PTL DEF Spec

------------------------------------------------------------------------------
(* The session as an undo log *)

TrailOf(h, r) ==
    [k \in 1..Len(h) + Len(r) |->
       Effect(IF k <= Len(h) THEN h[k] ELSE r[Len(h) + Len(r) - k + 1])]

LogRecord(f) == [list |-> f.ids, trail |-> TrailOf(f.history, f.redo), at |-> f.index]

\* A saved session seen as an undo log.
LEMMA LogIsRecord ==
  ASSUME NEW f, f.history \in Seq(Entries), f.redo \in Seq(Entries)
  PROVE  UndoLogOf(f) = LogRecord(f)
<1>1. PICK h, r : h = f.history /\ r = f.redo
  OBVIOUS
<1>2. h \in Seq(Entries) /\ r \in Seq(Entries) /\ Len(h) \in Nat /\ Len(r) \in Nat
  BY <1>1
<1>3. Reverse(r) \in Seq(Entries) /\ Len(Reverse(r)) = Len(r)
      /\ \A p \in 1..Len(r) : Reverse(r)[p] = r[Len(r) - p + 1]
  <2>1. \A p \in 1..Len(r) : r[Len(r) - p + 1] \in Entries
    BY <1>2
  <2>2. QED
    BY <1>2, <2>1 DEF Reverse
<1> DEFINE g == h \o Reverse(r)
           N == Len(h) + Len(r)
<1>4. g \in Seq(Entries) /\ Len(g) = N
  <2>1. PICK q : q = Reverse(r)
    OBVIOUS
  <2>2. q \in Seq(Entries) /\ Len(q) = Len(r)
    BY <1>3, <2>1
  <2>3. h \o q \in Seq(Entries) /\ Len(h \o q) = Len(h) + Len(q)
    BY <1>2, <2>2, ConcatProperties
  <2>4. QED
    BY <2>1, <2>2, <2>3
<1>5. DOMAIN g = 1..N
  BY <1>4
<1>6. ASSUME NEW k \in 1..N PROVE g[k] = IF k <= Len(h) THEN h[k] ELSE r[N - k + 1]
  <2>1. CASE k <= Len(h)
    BY <1>2, <1>3, <2>1
  <2>2. CASE ~(k <= Len(h))
    <3>1. g[k] = Reverse(r)[k - Len(h)]
      BY <1>2, <1>3, <2>2
    <3>2. k - Len(h) \in 1..Len(r) /\ Len(r) - (k - Len(h)) + 1 = N - k + 1
      BY <1>2, <2>2
    <3>3. QED
      BY <1>3, <2>2, <3>1, <3>2
  <2>3. QED
    BY <2>1, <2>2
<1>7. [k \in DOMAIN g |-> <<g[k].image, g[k].action>>] = TrailOf(h, r)
  BY <1>5, <1>6 DEF TrailOf, Effect
<1>8. UndoLogOf(f) = [list |-> f.ids, trail |-> [k \in DOMAIN g |-> <<g[k].image, g[k].action>>],
                      at |-> f.index]
  BY <1>1 DEF UndoLogOf
<1>9. QED
  BY <1>1, <1>7, <1>8 DEF LogRecord

\* The trail of the two stacks.
LEMMA TrailType ==
  ASSUME NEW h \in Seq(Entries), NEW r \in Seq(Entries)
  PROVE  /\ TrailOf(h, r) \in Seq({Effect(e) : e \in Entries})
         /\ Len(TrailOf(h, r)) = Len(h) + Len(r)
         /\ TrailOf(<<>>, <<>>) = <<>>
<1>1. Len(h) \in Nat /\ Len(r) \in Nat
  OBVIOUS
<1> DEFINE at(k) == IF k <= Len(h) THEN h[k] ELSE r[Len(h) + Len(r) - k + 1]
           S == {Effect(e) : e \in Entries}
<1>2. ASSUME NEW k \in 1..Len(h) + Len(r) PROVE at(k) \in Entries
  BY <1>1
<1>3. TrailOf(h, r) = [k \in 1..Len(h) + Len(r) |-> Effect(at(k))]
  BY DEF TrailOf
<1> HIDE DEF at
<1>4. \A k \in 1..Len(h) + Len(r) : Effect(at(k)) \in S
  BY <1>2
<1> HIDE DEF S
<1>5. Len(h) + Len(r) \in Nat
  BY <1>1
<1>6. PICK N \in Nat : N = Len(h) + Len(r)
  BY <1>5
<1>7. [k \in 1..N |-> Effect(at(k))] \in Seq(S) /\ Len([k \in 1..N |-> Effect(at(k))]) = N
  BY <1>4, <1>6
<1>8. Len(<<>>) = 0
  OBVIOUS
<1>9. TrailOf(<<>>, <<>>) = <<>>
  BY <1>8 DEF TrailOf
<1>10. QED
  BY <1>3, <1>6, <1>7, <1>9 DEF S

\* An undo leaves the trail as it is.
LEMMA TrailUndo ==
  ASSUME NEW h \in Seq(Entries), NEW r \in Seq(Entries), h # <<>>
  PROVE  TrailOf(Front(h), Append(r, Last(h))) = TrailOf(h, r)
<1>1. PICK c, d : c = Front(h) /\ d = Append(r, Last(h))
  OBVIOUS
<1>2. /\ Len(h) \in Nat \ {0} /\ Len(c) = Len(h) - 1 /\ Last(h) = h[Len(h)] /\ Last(h) \in Entries
      /\ \A p \in 1..Len(h) - 1 : c[p] = h[p]
  BY <1>1, Split
<1>3. /\ Len(d) = Len(r) + 1 /\ d[Len(r) + 1] = h[Len(h)] /\ Len(r) \in Nat
      /\ \A p \in 1..Len(r) : d[p] = r[p]
  BY <1>1, <1>2, Extends
<1>4. Len(c) + Len(d) = Len(h) + Len(r)
  BY <1>2, <1>3
<1>5. ASSUME NEW k \in 1..Len(h) + Len(r)
      PROVE  (IF k <= Len(c) THEN c[k] ELSE d[Len(h) + Len(r) - k + 1])
               = (IF k <= Len(h) THEN h[k] ELSE r[Len(h) + Len(r) - k + 1])
  <2>1. CASE k < Len(h)
    BY <1>2, <2>1
  <2>2. CASE k = Len(h)
    BY <1>2, <1>3, <2>2
  <2>3. CASE k > Len(h)
    <3>1. Len(h) + Len(r) - k + 1 \in 1..Len(r) /\ ~(k <= Len(c)) /\ ~(k <= Len(h))
      BY <1>2, <1>3, <2>3
    <3>2. QED
      BY <1>3, <3>1
  <2>4. QED
    BY <1>2, <2>1, <2>2, <2>3
<1> DEFINE x(k) == IF k <= Len(c) THEN c[k] ELSE d[Len(h) + Len(r) - k + 1]
           y(k) == IF k <= Len(h) THEN h[k] ELSE r[Len(h) + Len(r) - k + 1]
<1>6. TrailOf(c, d) = TrailOf(h, r)
  <2>1. TrailOf(c, d) = [k \in 1..Len(h) + Len(r) |-> Effect(x(k))]
    BY <1>4 DEF TrailOf
  <2>2. TrailOf(h, r) = [k \in 1..Len(h) + Len(r) |-> Effect(y(k))]
    BY DEF TrailOf
  <2>3. \A k \in 1..Len(h) + Len(r) : x(k) = y(k)
    BY <1>5
  <2> HIDE DEF x, y
  <2>4. QED
    BY <2>1, <2>2, <2>3
<1>7. QED
  BY <1>1, <1>6

\* A redo leaves the trail as it is.
LEMMA TrailRedo ==
  ASSUME NEW h \in Seq(Entries), NEW r \in Seq(Entries), r # <<>>
  PROVE  TrailOf(Append(h, Last(r)), Front(r)) = TrailOf(h, r)
<1>1. PICK c, d : c = Append(h, Last(r)) /\ d = Front(r)
  OBVIOUS
<1>2. /\ Len(r) \in Nat \ {0} /\ Len(d) = Len(r) - 1 /\ Last(r) = r[Len(r)] /\ Last(r) \in Entries
      /\ \A p \in 1..Len(r) - 1 : d[p] = r[p]
  BY <1>1, Split
<1>3. /\ Len(c) = Len(h) + 1 /\ c[Len(h) + 1] = r[Len(r)] /\ Len(h) \in Nat
      /\ \A p \in 1..Len(h) : c[p] = h[p]
  BY <1>1, <1>2, Extends
<1>4. Len(c) + Len(d) = Len(h) + Len(r)
  BY <1>2, <1>3
<1>5. ASSUME NEW k \in 1..Len(h) + Len(r)
      PROVE  (IF k <= Len(c) THEN c[k] ELSE d[Len(h) + Len(r) - k + 1])
               = (IF k <= Len(h) THEN h[k] ELSE r[Len(h) + Len(r) - k + 1])
  <2>1. CASE k <= Len(h)
    BY <1>3, <2>1
  <2>2. CASE k = Len(h) + 1
    BY <1>2, <1>3, <2>2
  <2>3. CASE k > Len(h) + 1
    <3>1. Len(h) + Len(r) - k + 1 \in 1..Len(r) - 1 /\ ~(k <= Len(c)) /\ ~(k <= Len(h))
      BY <1>2, <1>3, <2>3
    <3>2. QED
      BY <1>2, <3>1
  <2>4. QED
    BY <1>3, <2>1, <2>2, <2>3
<1> DEFINE x(k) == IF k <= Len(c) THEN c[k] ELSE d[Len(h) + Len(r) - k + 1]
           y(k) == IF k <= Len(h) THEN h[k] ELSE r[Len(h) + Len(r) - k + 1]
<1>6. TrailOf(c, d) = TrailOf(h, r)
  <2>1. TrailOf(c, d) = [k \in 1..Len(h) + Len(r) |-> Effect(x(k))]
    BY <1>4 DEF TrailOf
  <2>2. TrailOf(h, r) = [k \in 1..Len(h) + Len(r) |-> Effect(y(k))]
    BY DEF TrailOf
  <2>3. \A k \in 1..Len(h) + Len(r) : x(k) = y(k)
    BY <1>5
  <2> HIDE DEF x, y
  <2>4. QED
    BY <2>1, <2>2, <2>3
<1>7. QED
  BY <1>1, <1>6

\* A decision cuts the trail at the cursor and appends to it.
LEMMA TrailDecide ==
  ASSUME NEW h \in Seq(Entries), NEW r \in Seq(Entries), NEW e \in Entries
  PROVE  TrailOf(Append(h, e), <<>>) = Append(SubSeq(TrailOf(h, r), 1, Len(h)), Effect(e))
<1>1. PICK c, t, S : c = Append(h, e) /\ t = TrailOf(h, r) /\ S = {Effect(x) : x \in Entries}
  OBVIOUS
<1>2. /\ c \in Seq(Entries) /\ Len(c) = Len(h) + 1 /\ c[Len(h) + 1] = e /\ Len(h) \in Nat
      /\ \A p \in 1..Len(h) : c[p] = h[p]
  BY <1>1, Extends
<1>3. t \in Seq(S) /\ Len(t) = Len(h) + Len(r) /\ Len(r) \in Nat
  BY <1>1, TrailType
<1>4. \A p \in 1..Len(h) : t[p] = Effect(h[p]) /\ t[p] \in S
  <2>1. \A p \in 1..Len(h) : p \in 1..Len(h) + Len(r) /\ p <= Len(h)
    BY <1>2, <1>3
  <2>2. QED
    BY <1>1, <2>1 DEF TrailOf
<1> DEFINE u == SubSeq(t, 1, Len(h))
<1>5. /\ u \in Seq(S) /\ Len(u) = Len(h)
      /\ \A p \in 1..Len(h) : u[p] = t[p]
  <2>1. /\ u \in Seq(S)
        /\ Len(u) = IF 1 <= Len(h) THEN Len(h) - 1 + 1 ELSE 0
        /\ \A p \in 1..Len(h) - 1 + 1 : u[p] = t[1 + p - 1]
    BY <1>2, <1>4, SubSeqProperties
  <2> HIDE DEF u
  <2>2. Len(u) = Len(h)
    BY <1>2, <2>1
  <2>3. ASSUME NEW p \in 1..Len(h) PROVE u[p] = t[p]
    <3>1. p \in 1..Len(h) - 1 + 1 /\ 1 + p - 1 = p
      BY <1>2
    <3>2. QED
      BY <2>1, <3>1
  <2>4. QED
    BY <2>1, <2>2, <2>3
<1> HIDE DEF u
<1> DEFINE v == Append(u, Effect(e))
           w == TrailOf(c, <<>>)
<1>6. Effect(e) \in S
  BY <1>1
<1>7. /\ v \in Seq(S) /\ Len(v) = Len(h) + 1 /\ v[Len(h) + 1] = Effect(e)
      /\ \A p \in 1..Len(h) : v[p] = t[p]
  BY <1>5, <1>6, Extends
<1>8. w \in Seq(S) /\ Len(w) = Len(h) + 1
  <2>1. Len(<<>>) = 0 /\ <<>> \in Seq(Entries)
    BY EmptySession
  <2>2. w \in Seq(S) /\ Len(w) = Len(c) + Len(<<>>)
    BY <1>1, <1>2, <2>1, TrailType
  <2> HIDE DEF w
  <2>3. QED
    BY <1>2, <2>1, <2>2
<1>9. ASSUME NEW p \in 1..Len(h) + 1 PROVE w[p] = v[p]
  <2>1. w[p] = Effect(c[p])
    BY <1>2 DEF TrailOf
  <2>2. p \in 1..Len(h) \/ p = Len(h) + 1
    BY <1>2
  <2>3. QED
    BY <1>2, <1>4, <1>7, <2>1, <2>2
<1> HIDE DEF v, w
<1>10. w = v
  BY <1>7, <1>8, <1>9, SeqEqual
<1>11. QED
  BY <1>1, <1>10 DEF v, w, u

NoFile == [ids |-> <<>>, history |-> <<>>, redo |-> <<>>, index |-> 0]

\* No file is an empty log.
LEMMA EmptyLog == UndoLogOf(NoFile) = [list |-> <<>>, trail |-> <<>>, at |-> 0]
<1>1. /\ NoFile.ids = <<>> /\ NoFile.history = <<>> /\ NoFile.redo = <<>> /\ NoFile.index = 0
      /\ NoFile.history \in Seq(Entries) /\ NoFile.redo \in Seq(Entries)
  BY EmptySession DEF NoFile
<1>2. TrailOf(<<>>, <<>>) = <<>>
  BY TrailType, EmptySession
<1>3. QED
  BY <1>1, <1>2, LogIsRecord DEF LogRecord

\* The session in memory seen as an undo log, before a step,
LEMMA MemoryLog ==
  ASSUME TypedInv
  PROVE  UndoLogOf(Persisted) = [list |-> ids, trail |-> TrailOf(history, redo), at |-> index]
<1>1. /\ Persisted.ids = ids /\ Persisted.index = index /\ Persisted.history = history
      /\ Persisted.redo = redo /\ history \in Seq(Entries) /\ redo \in Seq(Entries)
  BY DEF TypedInv, SessionOK, Persisted
<1>2. QED
  BY <1>1, LogIsRecord DEF LogRecord

\* and after it.
LEMMA MemoryLogNext ==
  ASSUME TypedInv'
  PROVE  UndoLogOf(Persisted') = [list |-> ids', trail |-> TrailOf(history', redo'), at |-> index']
<1>1. /\ Persisted'.ids = ids' /\ Persisted'.index = index' /\ Persisted'.history = history'
      /\ Persisted'.redo = redo' /\ history' \in Seq(Entries) /\ redo' \in Seq(Entries)
  BY DEF TypedInv, SessionOK, Persisted
<1>2. QED
  BY <1>1, LogIsRecord DEF LogRecord

\* A save of the session is a save of its log.
LEMMA SavePersists ==
  ASSUME TypedInv', Save
  PROVE  Log!Persist
<1>1. Persisted' # None
  BY NoneIsNoFile DEF TypedInv, SessionOK, Persisted
<1>2. CASE saved' = TRUE /\ disk' = Persisted'
  BY <1>1, <1>2 DEF Log!Persist
<1>3. CASE saved' = FALSE /\ UNCHANGED disk
  BY <1>3 DEF Log!Persist
<1>4. QED
  BY <1>2, <1>3 DEF Save

\* A start begins a log.
LEMMA StartBegins ==
  ASSUME TypedInv, TypedInv', NEW s \in Starters, CommitStart(s)
  PROVE  Log!Begin
<1>1. ids' \in Seq(Images) /\ index' = 0 /\ history' = <<>> /\ redo' = <<>> /\ Save
  BY DEF CommitStart, TypedInv, SessionOK, Persisted
<1>2. UndoLogOf(Persisted') = [list |-> ids', trail |-> <<>>, at |-> 0]
  BY <1>1, MemoryLogNext, TrailType, EmptySession
<1>3. \E n \in 0..Len(ids') : ids' \in [1..n -> Images]
  <2>1. Len(ids') \in 0..Len(ids') /\ ids' \in [1..Len(ids') -> Images]
    BY <1>1
  <2>2. QED
    BY <2>1
<1>4. Log!Persist
  BY <1>1, SavePersists
<1>5. QED
  BY <1>2, <1>3, <1>4 DEF Log!Begin

\* The end of a sort action is a step of the log.
LEMMA FinishLogs ==
  ASSUME TypedInv, TypedInv', CalmInv, AlignedInv, FinishAction
  PROVE  Log!Next
<1>1. /\ ids \in Seq(Images) /\ index \in Nat
      /\ history \in Seq(Entries) /\ redo \in Seq(Entries)
      /\ Aligned(active, ids, index, history, redo)
      /\ index = Len(history) /\ Len(redo) \in Nat
  BY DEF TypedInv, SessionOK, Persisted, AlignedInv, Aligned
<1>2. Log!Persist /\ ids' = ids
  BY FinishAligns, SavePersists DEF FinishAction, FinishDecide, FinishUndo, FinishRedo, Finish
<1> DEFINE m == UndoLogOf(Persisted)
           n == UndoLogOf(Persisted')
<1>3. m = [list |-> ids, trail |-> TrailOf(history, redo), at |-> index]
  BY MemoryLog
<1>4. n = [list |-> ids, trail |-> TrailOf(history', redo'), at |-> index']
  BY <1>2, MemoryLogNext
<1> HIDE DEF m, n
<1>5. Len(TrailOf(history, redo)) = Len(history) + Len(redo)
  BY <1>1, TrailType
<1>6. CASE FinishDecide
  <2>1. /\ pending.entry \in Entries /\ index < Len(ids) /\ pending.entry.image = ids[index + 1]
        /\ pending.entry.action \in Keys
    BY <1>6 DEF FinishDecide, Finish, TypedInv, PendingOK
  <2>2. history' = Append(history, pending.entry) /\ redo' = <<>> /\ index' = index + 1
    BY <1>6 DEF FinishDecide
  <2>3. TrailOf(history', redo') = Append(SubSeq(TrailOf(history, redo), 1, index),
                                          <<ids[index + 1], pending.entry.action>>)
    BY <1>1, <2>1, <2>2, TrailDecide DEF Effect
  <2>4. n = [m EXCEPT !.trail = Append(SubSeq(m.trail, 1, m.at),
                                       <<m.list[m.at + 1], pending.entry.action>>),
                      !.at = m.at + 1]
    <3>1. PICK t, u, d : t = TrailOf(history, redo) /\ u = TrailOf(history', redo')
                         /\ d = pending.entry.action
      OBVIOUS
    <3>2. m = [list |-> ids, trail |-> t, at |-> index]
          /\ n = [list |-> ids, trail |-> u, at |-> index + 1]
          /\ u = Append(SubSeq(t, 1, index), <<ids[index + 1], d>>)
      BY <1>3, <1>4, <2>2, <2>3, <3>1
    <3>3. m.trail = t /\ m.at = index /\ m.list = ids
      BY <3>2
    <3>4. n = [m EXCEPT !.trail = u, !.at = index + 1]
      <4>1. [[list |-> ids, trail |-> t, at |-> index] EXCEPT !.trail = u]
              = [list |-> ids, trail |-> u, at |-> index]
        OBVIOUS
      <4>2. [[list |-> ids, trail |-> u, at |-> index] EXCEPT !.at = index + 1]
              = [list |-> ids, trail |-> u, at |-> index + 1]
        OBVIOUS
      <4>3. PICK k : k = [list |-> ids, trail |-> u, at |-> index]
        OBVIOUS
      <4>4. [m EXCEPT !.trail = u, !.at = index + 1] = [[m EXCEPT !.trail = u] EXCEPT !.at = index + 1]
        OBVIOUS
      <4>5. [m EXCEPT !.trail = u, !.at = index + 1] = [k EXCEPT !.at = index + 1]
        BY <3>2, <4>1, <4>3, <4>4, Zenon
      <4>6. QED
        BY <3>2, <4>2, <4>3, <4>5, Zenon
    <3>5. u = Append(SubSeq(m.trail, 1, m.at), <<m.list[m.at + 1], pending.entry.action>>)
      BY <3>1, <3>2, <3>3
    <3>6. index + 1 = m.at + 1
      BY <3>3
    <3>7. QED
      BY <3>4, <3>5, <3>6, Zenon
  <2>5. m.at < Len(m.list)
    BY <1>3, <2>1
  <2>6. Log!Decide(pending.entry.action)
    BY <1>2, <2>4, <2>5 DEF Log!Decide, m, n
  <2>7. QED
    BY <2>1, <2>6 DEF Log!Next
<1>7. CASE FinishUndo
  <2>1. history # <<>> /\ pending.entry = Last(history) /\ index > 0
    BY <1>1, <1>7, UndoAligns DEF FinishUndo, Finish, TypedInv, PendingOK
  <2>2. history' = Front(history) /\ redo' = Append(redo, Last(history)) /\ index' = index - 1
    BY <1>1, <1>7, <2>1 DEF FinishUndo
  <2>3. TrailOf(history', redo') = TrailOf(history, redo)
    BY <1>1, <2>1, <2>2, TrailUndo
  <2>4. m.at > 0 /\ n = [m EXCEPT !.at = m.at - 1]
    BY <1>3, <1>4, <2>1, <2>2, <2>3
  <2>5. QED
    BY <1>2, <2>4 DEF Log!Next, Log!Undo, m, n
<1>8. CASE FinishRedo
  <2>1. redo # <<>> /\ pending.entry = Last(redo)
    BY <1>8 DEF FinishRedo, Finish, TypedInv, PendingOK
  <2>2. history' = Append(history, Last(redo)) /\ redo' = Front(redo) /\ index' = index + 1
    BY <1>8, <2>1 DEF FinishRedo
  <2>3. TrailOf(history', redo') = TrailOf(history, redo)
    BY <1>1, <2>1, <2>2, TrailRedo
  <2>4. Len(redo) \in Nat \ {0}
    BY <1>1, <2>1, Split
  <2>5. index < Len(TrailOf(history, redo))
    BY <1>1, <1>5, <2>4
  <2>6. m.at < Len(m.trail) /\ n = [m EXCEPT !.at = m.at + 1]
    BY <1>3, <1>4, <2>2, <2>3, <2>5
  <2>7. QED
    BY <1>2, <2>6 DEF Log!Next, Log!Redo, m, n
<1>9. QED
  BY <1>6, <1>7, <1>8 DEF FinishAction

\* A restart resumes the log from what was saved.
LEMMA CrashRestarts ==
  ASSUME TypedInv, TypedInv', CalmInv, AlignedInv, CrashAndRestart
  PROVE  Log!Restart
<1> DEFINE n == UndoLogOf(Persisted')
<1>1. n = [list |-> ids', trail |-> TrailOf(history', redo'), at |-> index']
  BY MemoryLogNext
<1>2. ASSUME disk # None
      PROVE  UndoLogOf(disk) = [list |-> disk.ids, trail |-> TrailOf(disk.history, disk.redo),
                                at |-> disk.index]
  BY <1>2, LogIsRecord DEF TypedInv, FileOK, SessionOK, LogRecord
<1>3. CASE Resumes
  <2>1. disk # None /\ n = UndoLogOf(disk) /\ Save
    BY <1>1, <1>2, <1>3, CrashResumes DEF Resumes
  <2>2. Log!Persist
    BY <2>1, SavePersists
  <2>3. QED
    BY <2>1, <2>2 DEF Log!Restart
<1>4. CASE ~Resumes
  <2>1. /\ ids' = <<>> /\ index' = 0 /\ history' = <<>> /\ redo' = <<>> /\ saved' = TRUE
        /\ disk' = None \/ disk' = disk
        /\ disk # None => disk.ids = <<>>
    BY <1>4, CrashForgets
  <2>2. n = [list |-> <<>>, trail |-> <<>>, at |-> 0]
    BY <1>1, <2>1, TrailType, EmptySession
  <2>3. UndoLogOf(NoFile) = n
    BY <2>2, EmptyLog
  <2>4. ASSUME disk # None PROVE UndoLogOf(disk) = n
    <3>1. /\ disk.ids = <<>> /\ disk.history \in Seq(Entries) /\ disk.redo \in Seq(Entries)
          /\ Aligned(disk.active, disk.ids, disk.index, disk.history, disk.redo)
      BY <2>1, <2>4 DEF TypedInv, FileOK, SessionOK, AlignedInv
    <3>2. Len(disk.history) + Len(disk.redo) <= 0 /\ disk.index = Len(disk.history)
      BY <3>1 DEF Aligned
    <3>3. Len(disk.history) \in Nat /\ Len(disk.redo) \in Nat
      BY <3>1
    <3>4. disk.history = <<>> /\ disk.redo = <<>> /\ disk.index = 0
      <4>1. Len(disk.history) = 0 /\ Len(disk.redo) = 0
        <5>1. \A i, j \in Nat : i + j <= 0 => i = 0 /\ j = 0
          OBVIOUS
        <5>2. QED
          BY <3>2, <3>3, <5>1
      <4>2. QED
        BY <3>1, <3>2, <4>1, EmptySeq
    <3>5. QED
      BY <1>2, <2>2, <2>4, <3>1, <3>4, TrailType, EmptySession
  <2>5. QED
    BY <2>1, <2>3, <2>4 DEF Log!Restart, Log!Persist, NoFile
<1>5. QED
  BY <1>3, <1>4

\* Every step of the session is a step of the log or leaves it as it is.
LEMMA StepLogs ==
  ASSUME Failures = {}, Clears = FALSE, TypedInv, TypedInv', CalmInv, AlignedInv, [Next]_vars
  PROVE  Log!Next \/ UNCHANGED Log!vars
<1>1. CASE UNCHANGED <<memory, disk, saved>>
  <2>1. Persisted' = Persisted
    BY <1>1 DEF Persisted, memory
  <2>2. QED
    BY <1>1, <2>1 DEF Log!vars
<1>2. CASE FinishAction
  BY <1>2, FinishLogs
<1>3. ASSUME NEW s \in Starters, CommitStart(s) PROVE Log!Next
  BY <1>3, StartBegins DEF Log!Next
<1>4. CASE SetFolders
  <2>1. UNCHANGED <<ids, index, history, redo>> /\ Save
    BY <1>4 DEF SetFolders
  <2>2. UndoLogOf(Persisted') = UndoLogOf(Persisted)
    BY <2>1, MemoryLog, MemoryLogNext
  <2>3. Log!Persist
    BY <2>1, SavePersists
  <2>4. QED
    BY <2>2, <2>3 DEF Log!Next, Log!Resave
<1>5. CASE CrashAndRestart
  BY <1>5, CrashRestarts DEF Log!Next
<1>6. ~Clear /\ (\A i \in Images : ~Damage(i)) /\ ~GetAdvance /\ ~RemoveFile /\ ~StepOverMissingRow
  <2>1. ~GetAdvance /\ ~RemoveFile
    BY DEF CalmInv, GetAdvance, RemoveFile
  <2>2. ~StepOverMissingRow
    BY DEF CalmInv, StepOverMissingRow, Present, Begins, Current, TypedInv, SessionOK, Persisted
  <2>3. QED
    BY <2>1, <2>2 DEF Clear, Damage
<1>7. QED
  <2>1. CASE Request
    BY <1>1, <1>4, <1>6, <2>1
       DEF Request, BeginStart, BeginGet, BeginUndo, BeginRedo, BeginDecide, file
  <2>2. CASE LoopStep
    BY <1>1, <1>6, <2>2 DEF LoopStep, GetRead, GetLook, file
  <2>3. CASE UNCHANGED vars
    BY <1>1, <2>3 DEF vars, file
  <2>4. QED
    BY <1>2, <1>3, <1>5, <1>6, <2>1, <2>2, <2>3 DEF Next

\* While no picture goes missing and no session is cleared, the session implements
\* UndoLog: cursor, history and redo stack move as one, a restart resumes from the
\* last save, and the page is told "saved" of nothing else.
THEOREM SessionImplementsLog ==
  ASSUME Failures = {}, Clears = FALSE
  PROVE  Spec => ImplementsUndoLog
<1>1. Init => Log!Init
  <2>1. SUFFICES ASSUME Init PROVE Log!Init
    OBVIOUS
  <2>2. UndoLogOf(Persisted) = [list |-> <<>>, trail |-> <<>>, at |-> 0]
    <3>1. /\ TypedInv /\ ids = <<>> /\ history = <<>> /\ redo = <<>> /\ index = 0
          /\ disk = None /\ saved = TRUE
      BY <2>1, InitTyped DEF Init
    <3>2. TrailOf(history, redo) = <<>>
      BY <3>1, TrailType, EmptySession
    <3>3. QED
      BY <3>1, <3>2, MemoryLog
  <2>3. disk = None /\ saved = TRUE
    BY <2>1 DEF Init
  <2>4. QED
    BY <2>2, <2>3, EmptyLog DEF Log!Init, Log!NoLog, NoFile
<1>2. Init => SteadyInv
  BY SteadyInit
<1>3. SteadyInv /\ [Next]_vars => SteadyInv'
  BY SteadyStep
<1>4. SteadyInv /\ SteadyInv' /\ [Next]_vars => [Log!Next]_(Log!vars)
  BY StepLogs DEF SteadyInv
<1>5. QED
  BY <1>1, <1>2, <1>3, <1>4, PTL DEF Spec, ImplementsUndoLog, Log!Spec

------------------------------------------------------------------------------
(* Bracket and cull: what fits                                                *)

Unique(s) == \A j, k \in DOMAIN s : s[j] = s[k] => j = k

BenchEntries == IF Bracket THEN BracketEntries ELSE CullEntries
BenchSessions == SessionsOf(BenchEntries)
SeenPlaces == [ids : Seq(BenchImages), index : Nat, champion : Nat]
Rows == [BenchImages -> {"readable", "unreadable", "none"}]

BenchTypes ==
    /\ mode \in Modes
    /\ session \in BenchSessions \/ (session = NoBench /\ reader = "idle")
    /\ session \in BenchSessions => Unique(session.ids)
    /\ row \in Rows

\* A read has seen a pair, and the row says what its last look found.
ReadIsOfAPair ==
    /\ reader \in {"champion", "next", "crown", "pass"} =>
         seen \in SeenPlaces /\ seen.index < Len(seen.ids)
    /\ reader \in {"champion", "crown"} => Bracket
    /\ reader = "crown" /\ seen.champion < Len(seen.ids) =>
         row[At(seen.ids, seen.champion)] # "readable"
    /\ reader = "pass" => row[At(seen.ids, seen.index)] # "readable"

\* The places of l whose pictures are not shown any more, and those past its end.
Out(l, rows) == {p \in Nat : p < Len(l) => rows[At(l, p)] # "readable"}

\* Champion x and cursor i follow from the first n entries of t: every picture behind
\* the cursor was compared, is champion or is out, and the last winner is champion
\* unless it is out.
Follows(t, n, x, i, out) ==
    /\ x < i
    /\ \A j \in 1..n : t[j].champion < t[j].at /\ t[j].at < i /\ ~Loses(x, t[j])
    /\ \A p \in 0..i - 1 : \/ p = x \/ p \in out
                           \/ \E j \in 1..n : p = t[j].champion \/ p = t[j].at
    /\ n > 0 => x = Crowned(t[n]) \/ Crowned(t[n]) \in out

\* The cursor i of a cull follows from the first n entries of t.
Covers(t, n, i, out) ==
    /\ \A j \in 1..n : t[j].at < i
    /\ \A p \in 0..i - 1 : p \in out \/ \E j \in 1..n : p = t[j].at

\* List l, history h, redo stack r, champion x and cursor i are one bracket: each entry
\* follows from those before it, and so do the places.
BracketFits(l, h, r, x, i, out) ==
    /\ \A k \in 1..Len(h) + Len(r) :
         /\ Follows(Line(h, r), k - 1, Line(h, r)[k].champion, Line(h, r)[k].at, out)
         /\ Line(h, r)[k].at < Len(l)
    /\ Follows(Line(h, r), Len(h), x, i, out)
    /\ l # <<>> => i <= Len(l)

CullFits(l, h, r, i, out) ==
    /\ \A k \in 1..Len(h) + Len(r) :
         /\ Covers(Line(h, r), k - 1, Line(h, r)[k].at, out)
         /\ Line(h, r)[k].at < Len(l) /\ Line(h, r)[k].image = At(l, Line(h, r)[k].at)
    /\ Covers(Line(h, r), Len(h), i, out)
    /\ i <= Len(l)

Fits(s, out) ==
    IF Bracket THEN BracketFits(s.ids, s.history, s.redo, s.champion, s.index, out)
               ELSE CullFits(s.ids, s.history, s.redo, s.index, out)

PlacesFit == session \in BenchSessions /\ ~adrift => Fits(session, Out(session.ids, row))

BenchInv == BenchTypes /\ ReadIsOfAPair /\ PlacesFit

------------------------------------------------------------------------------
(* One bracket                                                                *)

\* A comparison follows from the places it was made at, and the new places from it.
LEMMA FollowsEntry ==
  ASSUME NEW t, NEW n \in Nat, NEW x \in Nat, NEW i \in Nat, NEW out,
         \A j \in 1..n + 1 : t[j] \in BracketEntries,
         Follows(t, n, x, i, out), t[n + 1].champion = x, t[n + 1].at = i
  PROVE  Follows(t, n + 1, Crowned(t[n + 1]), i + 1, out)
<1>1. PICK e : e = t[n + 1]
  OBVIOUS
<1>2. e.champion = x /\ e.at = i /\ x < i
  BY <1>1 DEF Follows
<1>3. Crowned(e) \in {x, i}
  BY <1>2 DEF Crowned
<1>4. \A j \in 1..n : t[j].champion \in Nat /\ t[j].at \in Nat /\ t[j].champion < t[j].at
                      /\ t[j].at < i /\ ~Loses(x, t[j])
  <2>1. \A j \in 1..n : j \in 1..n + 1
    OBVIOUS
  <2>2. QED
    BY <2>1 DEF Follows, BracketEntries
<1>5. ~Loses(Crowned(e), e)
  BY <1>2 DEF Crowned, Loses
<1>6. \A j \in 1..n : ~Loses(i, t[j])
  BY <1>4 DEF Loses
<1>7. \A j \in 1..n + 1 : j \in 1..n \/ j = n + 1
  OBVIOUS
<1>8. ASSUME NEW j \in 1..n + 1
      PROVE  t[j].champion < t[j].at /\ t[j].at < i + 1 /\ ~Loses(Crowned(e), t[j])
  <2>1. CASE j = n + 1
    BY <1>1, <1>2, <1>5, <2>1
  <2>2. CASE j \in 1..n
    BY <1>3, <1>4, <1>6, <2>2
  <2>3. QED
    BY <1>7, <2>1, <2>2
<1>9. ASSUME NEW p \in 0..(i + 1) - 1
      PROVE  p \in out \/ \E j \in 1..n + 1 : p = t[j].champion \/ p = t[j].at
  <2>1. n + 1 \in 1..n + 1
    OBVIOUS
  <2>2. CASE p = i \/ p = x
    BY <1>1, <1>2, <2>1, <2>2
  <2>3. CASE p # i /\ p # x
    <3>1. p \in 0..i - 1
      BY <2>3
    <3>2. p \in out \/ \E j \in 1..n : p = t[j].champion \/ p = t[j].at
      BY <2>3, <3>1 DEF Follows
    <3>3. QED
      BY <3>2
  <2>4. QED
    BY <2>2, <2>3
<1>10. Crowned(e) < i + 1
  BY <1>2, <1>3
<1>11. QED
  BY <1>1, <1>8, <1>9, <1>10 DEF Follows

\* When the champion is out, its challenger may be crowned.
LEMMA FollowsCrown ==
  ASSUME NEW t, NEW n \in Nat, NEW x \in Nat, NEW i \in Nat, NEW out,
         \A j \in 1..n : t[j] \in BracketEntries, Follows(t, n, x, i, out), x \in out
  PROVE  Follows(t, n, i, i + 1, out)
<1>1. \A j \in 1..n : t[j].champion \in Nat /\ t[j].at \in Nat /\ t[j].champion < t[j].at
                      /\ t[j].at < i
  BY DEF Follows, BracketEntries
<1>2. \A j \in 1..n : ~Loses(i, t[j]) /\ t[j].at < i + 1
  BY <1>1 DEF Loses
<1>3. \A p \in 0..(i + 1) - 1 : p = i \/ p \in 0..i - 1
  OBVIOUS
<1>4. \A p \in 0..(i + 1) - 1 : \/ p = i \/ p \in out
                                \/ \E j \in 1..n : p = t[j].champion \/ p = t[j].at
  BY <1>3 DEF Follows
<1>5. n > 0 => Crowned(t[n]) \in out
  BY DEF Follows
<1>6. QED
  BY <1>1, <1>2, <1>4, <1>5 DEF Follows

\* When the challenger is out, the cursor may pass it.
LEMMA FollowsPass ==
  ASSUME NEW t, NEW n \in Nat, NEW x \in Nat, NEW i \in Nat, NEW out,
         \A j \in 1..n : t[j] \in BracketEntries, Follows(t, n, x, i, out), i \in out
  PROVE  Follows(t, n, x, i + 1, out)
<1>1. \A j \in 1..n : t[j].champion < t[j].at /\ t[j].at \in Nat /\ t[j].at < i + 1
  BY DEF Follows, BracketEntries
<1>2. \A p \in 0..(i + 1) - 1 : p = i \/ p \in 0..i - 1
  OBVIOUS
<1>3. \A p \in 0..(i + 1) - 1 : \/ p = x \/ p \in out
                                \/ \E j \in 1..n : p = t[j].champion \/ p = t[j].at
  BY <1>2 DEF Follows
<1>4. x < i + 1
  BY DEF Follows
<1>5. QED
  BY <1>1, <1>3, <1>4 DEF Follows

\* What follows still follows when more pictures are out, and from the same entries
\* in another line.
LEMMA FollowsOn ==
  ASSUME NEW t, NEW u, NEW n \in Nat, NEW x, NEW i, NEW out, NEW more,
         \A j \in 1..n : u[j] = t[j], out \subseteq more, Follows(t, n, x, i, out)
  PROVE  Follows(u, n, x, i, more)
<1>1. n > 0 => n \in 1..n
  OBVIOUS
<1>2. /\ x < i
      /\ \A j \in 1..n : u[j].champion < u[j].at /\ u[j].at < i /\ ~Loses(x, u[j])
      /\ \A p \in 0..i - 1 : \/ p = x \/ p \in more
                             \/ \E j \in 1..n : p = u[j].champion \/ p = u[j].at
  BY DEF Follows
<1>3. n > 0 => x = Crowned(u[n]) \/ Crowned(u[n]) \in more
  BY <1>1 DEF Follows
<1>4. QED
  BY <1>2, <1>3 DEF Follows

\* A start.
LEMMA BracketStarts ==
  ASSUME NEW l \in Seq(BenchImages), NEW out
  PROVE  BracketFits(l, <<>>, <<>>, 0, 1, out)
<1>1. Len(<<>>) = 0 /\ \A k : k \notin 1..0
  OBVIOUS
<1>2. Follows(Line(<<>>, <<>>), 0, 0, 1, out)
  BY DEF Follows
<1>3. l # <<>> => 1 <= Len(l)
  OBVIOUS
<1>4. QED
  BY <1>1, <1>2, <1>3 DEF BracketFits

\* The entries of a line are entries of a bracket.
LEMMA BracketLine ==
  ASSUME NEW h \in Seq(BracketEntries), NEW r \in Seq(BracketEntries)
  PROVE  /\ Len(h) \in Nat /\ Len(r) \in Nat
         /\ \A j \in 1..Len(h) + Len(r) :
              /\ Line(h, r)[j] \in BracketEntries
              /\ Line(h, r)[j].champion \in Nat /\ Line(h, r)[j].at \in Nat
<1>1. Len(h) \in Nat /\ Len(r) \in Nat
  OBVIOUS
<1>2. Line(h, r) \in Seq(BracketEntries) /\ Len(Line(h, r)) = Len(h) + Len(r)
  BY LineType
<1>3. \A j \in 1..Len(h) + Len(r) : Line(h, r)[j] \in BracketEntries
  BY <1>2
<1>4. \A e \in BracketEntries : e.champion \in Nat /\ e.at \in Nat
  BY DEF BracketEntries
<1>5. QED
  BY <1>1, <1>3, <1>4

\* A choice.
LEMMA BracketChooses ==
  ASSUME NEW l \in Seq(BenchImages), NEW h \in Seq(BracketEntries), NEW r \in Seq(BracketEntries),
         NEW x \in Nat, NEW i \in Nat, NEW out, BracketFits(l, h, r, x, i, out), i < Len(l),
         NEW e \in BracketEntries, e.champion = x, e.at = i
  PROVE  BracketFits(l, Append(h, e), <<>>, Crowned(e), i + 1, out)
<1>1. PICK g, t, u : g = Append(h, e) /\ t = Line(h, r) /\ u = Line(g, <<>>)
  OBVIOUS
<1>2. g \in Seq(BracketEntries) /\ <<>> \in Seq(BracketEntries) /\ Len(<<>>) = 0
  BY <1>1, Extends
<1>3. Len(h) \in Nat /\ Len(r) \in Nat /\ Len(l) \in Nat
  OBVIOUS
<1>4. /\ Len(g) = Len(h) + 1 /\ u[Len(h) + 1] = e
      /\ \A k \in 1..Len(h) : u[k] = h[k]
  BY <1>1, Extends, LineAppend
<1>5. \A k \in 1..Len(h) : u[k] = t[k]
  BY <1>1, <1>4, LineType
<1>6. \A k \in 1..Len(h) + 1 : u[k] \in BracketEntries
  <2>1. \A k \in 1..Len(g) + Len(<<>>) : u[k] \in BracketEntries
    BY <1>1, <1>2, BracketLine
  <2>2. Len(g) + Len(<<>>) = Len(h) + 1
    BY <1>2, <1>3, <1>4
  <2>3. QED
    BY <2>1, <2>2
<1>7. /\ \A k \in 1..Len(h) + Len(r) : Follows(t, k - 1, t[k].champion, t[k].at, out)
                                       /\ t[k].at < Len(l)
      /\ Follows(t, Len(h), x, i, out)
  BY <1>1 DEF BracketFits
<1>8. Follows(u, Len(h), x, i, out)
  BY <1>3, <1>5, <1>7, FollowsOn
<1>9. ASSUME NEW k \in 1..Len(h) + 1
      PROVE  Follows(u, k - 1, u[k].champion, u[k].at, out) /\ u[k].at < Len(l)
  <2>1. CASE k = Len(h) + 1
    BY <1>3, <1>4, <1>8, <2>1
  <2>2. CASE k # Len(h) + 1
    <3>1. k \in 1..Len(h) /\ k \in 1..Len(h) + Len(r) /\ k - 1 \in Nat
      BY <1>3, <2>2
    <3>2. u[k] = t[k] /\ \A j \in 1..k - 1 : u[j] = t[j]
      BY <1>3, <1>5, <3>1
    <3>3. Follows(t, k - 1, t[k].champion, t[k].at, out) /\ t[k].at < Len(l)
      BY <1>7, <3>1
    <3>4. Follows(u, k - 1, t[k].champion, t[k].at, out)
      BY <3>1, <3>2, <3>3, FollowsOn
    <3>5. QED
      BY <3>2, <3>3, <3>4
  <2>3. QED
    BY <2>1, <2>2
<1>10. Follows(u, Len(h) + 1, Crowned(u[Len(h) + 1]), i + 1, out)
  BY <1>3, <1>4, <1>6, <1>8, FollowsEntry
<1>11. i + 1 <= Len(l)
  BY <1>3
<1>12. Len(g) + Len(<<>>) = Len(h) + 1
  BY <1>2, <1>3, <1>4
<1>13. BracketFits(l, g, <<>>, Crowned(e), i + 1, out)
  BY <1>1, <1>4, <1>9, <1>10, <1>11, <1>12 DEF BracketFits
<1>14. QED
  BY <1>1, <1>13

\* An undo goes back to the places of the entry.
LEMMA BracketUndoes ==
  ASSUME NEW l \in Seq(BenchImages), NEW h \in Seq(BracketEntries), NEW r \in Seq(BracketEntries),
         NEW x \in Nat, NEW i \in Nat, NEW out, BracketFits(l, h, r, x, i, out), h # <<>>
  PROVE  BracketFits(l, Front(h), Append(r, Last(h)), Last(h).champion, Last(h).at, out)
<1>1. PICK g, s, t, n : g = Front(h) /\ s = Append(r, Last(h)) /\ t = Line(h, r) /\ n = Len(h)
  OBVIOUS
<1>2. /\ n \in Nat \ {0} /\ Len(g) = n - 1 /\ Last(h) = h[n] /\ Last(h) \in BracketEntries
      /\ Len(r) \in Nat /\ Len(l) \in Nat
  <2>1. /\ Len(h) \in Nat \ {0} /\ Len(Front(h)) = Len(h) - 1 /\ Last(h) = h[Len(h)]
        /\ Last(h) \in BracketEntries
    BY Split
  <2>2. Len(r) \in Nat /\ Len(l) \in Nat
    OBVIOUS
  <2>3. QED
    BY <1>1, <2>1, <2>2
<1>3. Len(s) = Len(r) + 1
  BY <1>1, <1>2, Extends
<1>4. Line(g, s) = t /\ Len(g) + Len(s) = n + Len(r)
  BY <1>1, <1>2, <1>3, LineUndo
<1>5. t[n] = Last(h) /\ n \in 1..n + Len(r)
  <2>1. \A k \in 1..n : t[k] = h[k]
    BY <1>1, LineType
  <2>2. n \in 1..n /\ n \in 1..n + Len(r)
    BY <1>2
  <2>3. QED
    BY <1>2, <2>1, <2>2
<1>6. \A k \in 1..n + Len(r) : Follows(t, k - 1, t[k].champion, t[k].at, out) /\ t[k].at < Len(l)
  BY <1>1 DEF BracketFits
<1>7. Follows(t, n - 1, Last(h).champion, Last(h).at, out) /\ Last(h).at <= Len(l)
  <2>1. Last(h).at \in Nat /\ Last(h).at < Len(l)
    BY <1>2, <1>5, <1>6 DEF BracketEntries
  <2>2. QED
    BY <1>2, <1>5, <1>6, <2>1
<1>8. BracketFits(l, g, s, Last(h).champion, Last(h).at, out)
  BY <1>2, <1>4, <1>6, <1>7 DEF BracketFits
<1>9. QED
  BY <1>1, <1>8

\* A redo goes on to the places behind it.
LEMMA BracketRedoes ==
  ASSUME NEW l \in Seq(BenchImages), NEW h \in Seq(BracketEntries), NEW r \in Seq(BracketEntries),
         NEW x \in Nat, NEW i \in Nat, NEW out, BracketFits(l, h, r, x, i, out), r # <<>>
  PROVE  BracketFits(l, Append(h, Last(r)), Front(r), Crowned(Last(r)), Last(r).at + 1, out)
<1>1. PICK g, s, t, n, e : /\ g = Append(h, Last(r)) /\ s = Front(r) /\ t = Line(h, r)
                           /\ n = Len(h) /\ e = Last(r)
  OBVIOUS
<1>2. /\ n \in Nat /\ Len(r) \in Nat \ {0} /\ Len(s) = Len(r) - 1 /\ e \in BracketEntries
      /\ Len(l) \in Nat
  BY <1>1, Split
<1>3. Len(g) = n + 1
  BY <1>1, <1>2, Extends
<1>4. Line(g, s) = t /\ t[n + 1] = e /\ Len(g) + Len(s) = n + Len(r)
  BY <1>1, <1>2, <1>3, LineRedo
<1>5. \A k \in 1..n + Len(r) : Follows(t, k - 1, t[k].champion, t[k].at, out) /\ t[k].at < Len(l)
  BY <1>1 DEF BracketFits
<1>6. n + 1 \in 1..n + Len(r) /\ (n + 1) - 1 = n /\ e.champion \in Nat /\ e.at \in Nat
  BY <1>2 DEF BracketEntries
<1>7. Follows(t, n, e.champion, e.at, out) /\ e.at + 1 <= Len(l)
  <2>1. Follows(t, (n + 1) - 1, t[n + 1].champion, t[n + 1].at, out) /\ t[n + 1].at < Len(l)
    BY <1>5, <1>6
  <2>2. QED
    BY <1>2, <1>4, <1>6, <2>1
<1>8. \A j \in 1..n + 1 : t[j] \in BracketEntries
  <2>1. \A j \in 1..n + 1 : j \in 1..n + Len(r)
    BY <1>2
  <2>2. QED
    BY <1>1, <2>1, BracketLine
<1>9. Follows(t, n + 1, Crowned(e), e.at + 1, out)
  BY <1>2, <1>4, <1>6, <1>7, <1>8, FollowsEntry
<1>10. BracketFits(l, g, s, Crowned(e), e.at + 1, out)
  BY <1>3, <1>4, <1>5, <1>7, <1>9 DEF BracketFits
<1>11. QED
  BY <1>1, <1>10

\* A read finds the champion or the challenger out, or more pictures go out.
LEMMA BracketReads ==
  ASSUME NEW l \in Seq(BenchImages), NEW h \in Seq(BracketEntries), NEW r \in Seq(BracketEntries),
         NEW x \in Nat, NEW i \in Nat, NEW out, BracketFits(l, h, r, x, i, out)
  PROVE  /\ x \in out /\ i < Len(l) => BracketFits(l, h, r, i, i + 1, out)
         /\ i \in out /\ i < Len(l) => BracketFits(l, h, r, x, i + 1, out)
         /\ \A more : out \subseteq more => BracketFits(l, h, r, x, i, more)
<1>1. PICK t, n : t = Line(h, r) /\ n = Len(h)
  OBVIOUS
<1>2. n \in Nat /\ Len(r) \in Nat /\ \A j \in 1..n + Len(r) : t[j] \in BracketEntries
  BY <1>1, BracketLine
<1>3. \A j \in 1..n : t[j] \in BracketEntries
  BY <1>2
<1>4. /\ \A k \in 1..n + Len(r) : Follows(t, k - 1, t[k].champion, t[k].at, out) /\ t[k].at < Len(l)
      /\ Follows(t, n, x, i, out)
      /\ l # <<>> => i <= Len(l)
  BY <1>1 DEF BracketFits
<1>5. ASSUME x \in out, i < Len(l) PROVE BracketFits(l, h, r, i, i + 1, out)
  <2>1. Follows(t, n, i, i + 1, out) /\ i + 1 <= Len(l)
    BY <1>2, <1>3, <1>4, <1>5, FollowsCrown
  <2>2. QED
    BY <1>1, <1>4, <2>1 DEF BracketFits
<1>6. ASSUME i \in out, i < Len(l) PROVE BracketFits(l, h, r, x, i + 1, out)
  <2>1. Follows(t, n, x, i + 1, out) /\ i + 1 <= Len(l)
    BY <1>2, <1>3, <1>4, <1>6, FollowsPass
  <2>2. QED
    BY <1>1, <1>4, <2>1 DEF BracketFits
<1>7. ASSUME NEW more, out \subseteq more PROVE BracketFits(l, h, r, x, i, more)
  <2>1. Follows(t, n, x, i, more)
    BY <1>2, <1>4, <1>7, FollowsOn
  <2>2. \A k \in 1..n + Len(r) : Follows(t, k - 1, t[k].champion, t[k].at, more)
    <3>1. TAKE k \in 1..n + Len(r)
    <3>2. k - 1 \in Nat /\ Follows(t, k - 1, t[k].champion, t[k].at, out)
      BY <1>4, <1>2
    <3>3. QED
      BY <1>7, <3>2, FollowsOn
  <2>3. QED
    BY <1>1, <1>4, <2>1, <2>2 DEF BracketFits
<1>8. QED
  BY <1>5, <1>6, <1>7

------------------------------------------------------------------------------
(* One cull                                                                   *)

\* A decision covers its picture.
LEMMA CoversEntry ==
  ASSUME NEW t, NEW n \in Nat, NEW i \in Nat, NEW out, \A j \in 1..n + 1 : t[j].at \in Nat,
         Covers(t, n, i, out), t[n + 1].at = i
  PROVE  Covers(t, n + 1, i + 1, out)
<1>1. \A j \in 1..n + 1 : j \in 1..n \/ j = n + 1
  OBVIOUS
<1>2. \A j \in 1..n + 1 : t[j].at < i + 1
  BY <1>1 DEF Covers
<1>3. ASSUME NEW p \in 0..(i + 1) - 1 PROVE p \in out \/ \E j \in 1..n + 1 : p = t[j].at
  <2>1. CASE p = i
    BY <2>1
  <2>2. CASE p # i
    <3>1. p \in 0..i - 1
      BY <2>2
    <3>2. p \in out \/ \E j \in 1..n : p = t[j].at
      BY <3>1 DEF Covers
    <3>3. QED
      BY <3>2
  <2>3. QED
    BY <2>1, <2>2
<1>4. QED
  BY <1>2, <1>3 DEF Covers

\* A picture that is out may be passed.
LEMMA CoversPass ==
  ASSUME NEW t, NEW n \in Nat, NEW i \in Nat, NEW out, \A j \in 1..n : t[j].at \in Nat,
         Covers(t, n, i, out), i \in out
  PROVE  Covers(t, n, i + 1, out)
<1>1. \A j \in 1..n : t[j].at < i + 1
  BY DEF Covers
<1>2. \A p \in 0..(i + 1) - 1 : p = i \/ p \in 0..i - 1
  OBVIOUS
<1>3. \A p \in 0..(i + 1) - 1 : p \in out \/ \E j \in 1..n : p = t[j].at
  BY <1>2 DEF Covers
<1>4. QED
  BY <1>1, <1>3 DEF Covers

\* What is covered stays so when more pictures are out, and by the same entries in
\* another line.
LEMMA CoversOn ==
  ASSUME NEW t, NEW u, NEW n \in Nat, NEW i, NEW out, NEW more,
         \A j \in 1..n : u[j] = t[j], out \subseteq more, Covers(t, n, i, out)
  PROVE  Covers(u, n, i, more)
BY DEF Covers

\* The entries of a line are entries of a cull.
LEMMA CullLine ==
  ASSUME NEW h \in Seq(CullEntries), NEW r \in Seq(CullEntries)
  PROVE  /\ Len(h) \in Nat /\ Len(r) \in Nat
         /\ \A j \in 1..Len(h) + Len(r) :
              Line(h, r)[j] \in CullEntries /\ Line(h, r)[j].at \in Nat
<1>1. Len(h) \in Nat /\ Len(r) \in Nat
  OBVIOUS
<1>2. Line(h, r) \in Seq(CullEntries) /\ Len(Line(h, r)) = Len(h) + Len(r)
  BY LineType
<1>3. \A j \in 1..Len(h) + Len(r) : Line(h, r)[j] \in CullEntries
  BY <1>2
<1>4. \A e \in CullEntries : e.at \in Nat
  BY DEF CullEntries
<1>5. QED
  BY <1>1, <1>3, <1>4

\* A start.
LEMMA CullStarts ==
  ASSUME NEW l \in Seq(BenchImages), NEW out
  PROVE  CullFits(l, <<>>, <<>>, 0, out)
<1>1. Len(<<>>) = 0 /\ (\A k : k \notin 1..0) /\ (\A p : p \notin 0..0 - 1) /\ 0 <= Len(l)
  OBVIOUS
<1>2. Covers(Line(<<>>, <<>>), 0, 0, out)
  BY <1>1 DEF Covers
<1>3. QED
  BY <1>1, <1>2 DEF CullFits

\* A decision.
LEMMA CullChooses ==
  ASSUME NEW l \in Seq(BenchImages), NEW h \in Seq(CullEntries), NEW r \in Seq(CullEntries),
         NEW i \in Nat, NEW out, CullFits(l, h, r, i, out), i < Len(l),
         NEW e \in CullEntries, e.image = At(l, i), e.at = i
  PROVE  CullFits(l, Append(h, e), <<>>, i + 1, out)
<1>1. PICK g, t, u : g = Append(h, e) /\ t = Line(h, r) /\ u = Line(g, <<>>)
  OBVIOUS
<1>2. g \in Seq(CullEntries) /\ <<>> \in Seq(CullEntries) /\ Len(<<>>) = 0
  BY <1>1, Extends
<1>3. Len(h) \in Nat /\ Len(r) \in Nat /\ Len(l) \in Nat
  OBVIOUS
<1>4. /\ Len(g) = Len(h) + 1 /\ u[Len(h) + 1] = e
      /\ \A k \in 1..Len(h) : u[k] = h[k]
  BY <1>1, Extends, LineAppend
<1>5. \A k \in 1..Len(h) : u[k] = t[k]
  BY <1>1, <1>4, LineType
<1>6. \A k \in 1..Len(h) + 1 : u[k].at \in Nat
  <2>1. \A k \in 1..Len(g) + Len(<<>>) : u[k].at \in Nat
    BY <1>1, <1>2, CullLine
  <2>2. Len(g) + Len(<<>>) = Len(h) + 1
    BY <1>2, <1>3, <1>4
  <2>3. QED
    BY <2>1, <2>2
<1>7. /\ \A k \in 1..Len(h) + Len(r) : Covers(t, k - 1, t[k].at, out)
                                       /\ t[k].at < Len(l) /\ t[k].image = At(l, t[k].at)
      /\ Covers(t, Len(h), i, out)
  BY <1>1 DEF CullFits
<1>8. Covers(u, Len(h), i, out)
  BY <1>3, <1>5, <1>7, CoversOn
<1>9. ASSUME NEW k \in 1..Len(h) + 1
      PROVE  Covers(u, k - 1, u[k].at, out) /\ u[k].at < Len(l) /\ u[k].image = At(l, u[k].at)
  <2>1. CASE k = Len(h) + 1
    BY <1>3, <1>4, <1>8, <2>1
  <2>2. CASE k # Len(h) + 1
    <3>1. k \in 1..Len(h) /\ k \in 1..Len(h) + Len(r) /\ k - 1 \in Nat
      BY <1>3, <2>2
    <3>2. u[k] = t[k] /\ \A j \in 1..k - 1 : u[j] = t[j]
      BY <1>3, <1>5, <3>1
    <3>3. Covers(t, k - 1, t[k].at, out) /\ t[k].at < Len(l) /\ t[k].image = At(l, t[k].at)
      BY <1>7, <3>1
    <3>4. Covers(u, k - 1, t[k].at, out)
      BY <3>1, <3>2, <3>3, CoversOn
    <3>5. QED
      BY <3>2, <3>3, <3>4
  <2>3. QED
    BY <2>1, <2>2
<1>10. Covers(u, Len(h) + 1, i + 1, out)
  BY <1>3, <1>4, <1>6, <1>8, CoversEntry
<1>11. i + 1 <= Len(l)
  BY <1>3
<1>12. Len(g) + Len(<<>>) = Len(h) + 1
  BY <1>2, <1>3, <1>4
<1>13. CullFits(l, g, <<>>, i + 1, out)
  BY <1>1, <1>4, <1>9, <1>10, <1>11, <1>12 DEF CullFits
<1>14. QED
  BY <1>1, <1>13

\* An undo goes back to the place of the entry.
LEMMA CullUndoes ==
  ASSUME NEW l \in Seq(BenchImages), NEW h \in Seq(CullEntries), NEW r \in Seq(CullEntries),
         NEW i \in Nat, NEW out, CullFits(l, h, r, i, out), h # <<>>
  PROVE  CullFits(l, Front(h), Append(r, Last(h)), Last(h).at, out)
<1>1. PICK g, s, t, n : g = Front(h) /\ s = Append(r, Last(h)) /\ t = Line(h, r) /\ n = Len(h)
  OBVIOUS
<1>2. /\ n \in Nat \ {0} /\ Len(g) = n - 1 /\ Last(h) = h[n] /\ Last(h) \in CullEntries
      /\ Len(r) \in Nat /\ Len(l) \in Nat
  <2>1. /\ Len(h) \in Nat \ {0} /\ Len(Front(h)) = Len(h) - 1 /\ Last(h) = h[Len(h)]
        /\ Last(h) \in CullEntries
    BY Split
  <2>2. Len(r) \in Nat /\ Len(l) \in Nat
    OBVIOUS
  <2>3. QED
    BY <1>1, <2>1, <2>2
<1>3. Len(s) = Len(r) + 1
  BY <1>1, <1>2, Extends
<1>4. Line(g, s) = t /\ Len(g) + Len(s) = n + Len(r)
  BY <1>1, <1>2, <1>3, LineUndo
<1>5. t[n] = Last(h) /\ n \in 1..n + Len(r)
  <2>1. \A k \in 1..n : t[k] = h[k]
    BY <1>1, LineType
  <2>2. n \in 1..n /\ n \in 1..n + Len(r)
    BY <1>2
  <2>3. QED
    BY <1>2, <2>1, <2>2
<1>6. \A k \in 1..n + Len(r) : Covers(t, k - 1, t[k].at, out) /\ t[k].at < Len(l)
                               /\ t[k].image = At(l, t[k].at)
  BY <1>1 DEF CullFits
<1>7. Covers(t, n - 1, Last(h).at, out) /\ Last(h).at <= Len(l)
  <2>1. Last(h).at \in Nat /\ Last(h).at < Len(l)
    BY <1>2, <1>5, <1>6 DEF CullEntries
  <2>2. QED
    BY <1>2, <1>5, <1>6, <2>1
<1>8. CullFits(l, g, s, Last(h).at, out)
  BY <1>2, <1>4, <1>6, <1>7 DEF CullFits
<1>9. QED
  BY <1>1, <1>8

\* A redo goes on to the place behind it.
LEMMA CullRedoes ==
  ASSUME NEW l \in Seq(BenchImages), NEW h \in Seq(CullEntries), NEW r \in Seq(CullEntries),
         NEW i \in Nat, NEW out, CullFits(l, h, r, i, out), r # <<>>
  PROVE  CullFits(l, Append(h, Last(r)), Front(r), Last(r).at + 1, out)
<1>1. PICK g, s, t, n, e : /\ g = Append(h, Last(r)) /\ s = Front(r) /\ t = Line(h, r)
                           /\ n = Len(h) /\ e = Last(r)
  OBVIOUS
<1>2. /\ n \in Nat /\ Len(r) \in Nat \ {0} /\ Len(s) = Len(r) - 1 /\ e \in CullEntries
      /\ Len(l) \in Nat
  BY <1>1, Split
<1>3. Len(g) = n + 1
  BY <1>1, <1>2, Extends
<1>4. Line(g, s) = t /\ t[n + 1] = e /\ Len(g) + Len(s) = n + Len(r)
  BY <1>1, <1>2, <1>3, LineRedo
<1>5. \A k \in 1..n + Len(r) : Covers(t, k - 1, t[k].at, out) /\ t[k].at < Len(l)
                               /\ t[k].image = At(l, t[k].at)
  BY <1>1 DEF CullFits
<1>6. n + 1 \in 1..n + Len(r) /\ (n + 1) - 1 = n /\ e.at \in Nat
  BY <1>2 DEF CullEntries
<1>7. Covers(t, n, e.at, out) /\ e.at + 1 <= Len(l)
  <2>1. Covers(t, (n + 1) - 1, t[n + 1].at, out) /\ t[n + 1].at < Len(l)
    BY <1>5, <1>6
  <2>2. QED
    BY <1>2, <1>4, <1>6, <2>1
<1>8. \A j \in 1..n + 1 : t[j].at \in Nat
  <2>1. \A j \in 1..n + 1 : j \in 1..n + Len(r)
    BY <1>2
  <2>2. QED
    BY <1>1, <2>1, CullLine
<1>9. Covers(t, n + 1, e.at + 1, out)
  BY <1>2, <1>4, <1>6, <1>7, <1>8, CoversEntry
<1>10. CullFits(l, g, s, e.at + 1, out)
  BY <1>3, <1>4, <1>5, <1>7, <1>9 DEF CullFits
<1>11. QED
  BY <1>1, <1>10

\* A read finds the picture at the cursor out, or more pictures go out.
LEMMA CullReads ==
  ASSUME NEW l \in Seq(BenchImages), NEW h \in Seq(CullEntries), NEW r \in Seq(CullEntries),
         NEW i \in Nat, NEW out, CullFits(l, h, r, i, out)
  PROVE  /\ i \in out /\ i < Len(l) => CullFits(l, h, r, i + 1, out)
         /\ \A more : out \subseteq more => CullFits(l, h, r, i, more)
<1>1. PICK t, n : t = Line(h, r) /\ n = Len(h)
  OBVIOUS
<1>2. n \in Nat /\ Len(r) \in Nat /\ Len(l) \in Nat /\ \A j \in 1..n + Len(r) : t[j].at \in Nat
  BY <1>1, CullLine
<1>3. \A j \in 1..n : t[j].at \in Nat
  BY <1>2
<1>4. /\ \A k \in 1..n + Len(r) : Covers(t, k - 1, t[k].at, out) /\ t[k].at < Len(l)
                                  /\ t[k].image = At(l, t[k].at)
      /\ Covers(t, n, i, out)
      /\ i <= Len(l)
  BY <1>1 DEF CullFits
<1>5. ASSUME i \in out, i < Len(l) PROVE CullFits(l, h, r, i + 1, out)
  <2>1. Covers(t, n, i + 1, out) /\ i + 1 <= Len(l)
    BY <1>2, <1>3, <1>4, <1>5, CoversPass
  <2>2. QED
    BY <1>1, <1>4, <2>1 DEF CullFits
<1>6. ASSUME NEW more, out \subseteq more PROVE CullFits(l, h, r, i, more)
  <2>1. Covers(t, n, i, more)
    BY <1>2, <1>4, <1>6, CoversOn
  <2>2. \A k \in 1..n + Len(r) : Covers(t, k - 1, t[k].at, more)
    <3>1. TAKE k \in 1..n + Len(r)
    <3>2. k - 1 \in Nat /\ Covers(t, k - 1, t[k].at, out)
      BY <1>4, <1>2
    <3>3. QED
      BY <1>6, <3>2, CoversOn
  <2>3. QED
    BY <1>1, <1>4, <2>1, <2>2 DEF CullFits
<1>7. QED
  BY <1>5, <1>6

------------------------------------------------------------------------------
(* The list after a restart                                                   *)

\* Counting the places that are left.
LEMMA LeftCounts ==
  ASSUME session.ids \in Seq(BenchImages)
  PROVE  /\ Standing \in SUBSET DOMAIN session.ids
         /\ \A k \in Nat : Left(k) \in Nat
         /\ \A p, q \in Nat : p + 1 \in Standing /\ p < q => Left(p) < Left(q)
<1>1. PICK l \in Seq(BenchImages) : l = session.ids
  OBVIOUS
<1>2. PICK T : T = Standing
  OBVIOUS
<1>3. T \in SUBSET DOMAIN l /\ DOMAIN l = 1..Len(l) /\ Len(l) \in Nat
  BY <1>1, <1>2 DEF Standing
<1>4. IsFiniteSet(T)
  <2>1. IsFiniteSet(1..Len(l))
    BY <1>3, FS_Interval
  <2>2. QED
    BY <1>3, <2>1, FS_Subset
<1>5. ASSUME NEW k \in Nat
      PROVE  /\ IsFiniteSet({n \in T : n <= k}) /\ Cardinality({n \in T : n <= k}) \in Nat
             /\ Left(k) = Cardinality({n \in T : n <= k})
  <2>1. IsFiniteSet({n \in T : n <= k})
    <3>1. {n \in T : n <= k} \in SUBSET T
      OBVIOUS
    <3>2. QED
      BY <1>4, <3>1, FS_Subset
  <2>2. QED
    BY <1>2, <2>1, FS_CardinalityType DEF Left
<1>6. ASSUME NEW p \in Nat, NEW q \in Nat, p + 1 \in T, p < q PROVE Left(p) < Left(q)
  <2> DEFINE B == {n \in T : n <= p}
             C == {n \in T : n <= q}
  <2>1. B \in SUBSET C /\ p + 1 \in C /\ p + 1 \notin B
    BY <1>3, <1>6
  <2>2. IsFiniteSet(B) /\ IsFiniteSet(C) /\ Left(p) = Cardinality(B) /\ Left(q) = Cardinality(C)
        /\ Cardinality(B) \in Nat /\ Cardinality(C) \in Nat
    BY <1>5
  <2> HIDE DEF B, C
  <2>3. Cardinality(B) <= Cardinality(C) /\ (Cardinality(C) = Cardinality(B) => C = B)
    BY <2>1, <2>2, FS_Subset
  <2>4. QED
    BY <2>1, <2>2, <2>3
<1>7. QED
  BY <1>1, <1>2, <1>3, <1>5, <1>6

\* A place that is left has the same picture at its new place.
LEMMA LeftFinds ==
  ASSUME session.ids \in Seq(BenchImages), NEW p \in Nat, p + 1 \in Standing
  PROVE  Left(p) < Len(StandingIds) /\ At(StandingIds, Left(p)) = Picture(p)
<1>1. PICK l, T : l \in Seq(BenchImages) /\ l = session.ids /\ T = Standing
  OBVIOUS
<1> l \in Seq(BenchImages)
  BY <1>1
<1>2. T \in SUBSET DOMAIN l /\ p + 1 \in T /\ DOMAIN l = 1..Len(l) /\ Len(l) \in Nat
  BY <1>1, LeftCounts
<1>3. PICK t : t = Pick(l, T)
  OBVIOUS
<1>4. /\ Cardinality({n \in T : n <= p + 1}) \in 1..Len(t)
      /\ t[Cardinality({n \in T : n <= p + 1})] = l[p + 1]
  BY <1>2, <1>3, PickAt
<1>5. {n \in T : n <= p + 1} = {n \in T : n <= p} \cup {p + 1}
  BY <1>2
<1>6. IsFiniteSet({n \in T : n <= p})
  <2>1. IsFiniteSet(1..Len(l))
    BY <1>2, FS_Interval
  <2>2. {n \in T : n <= p} \in SUBSET (1..Len(l))
    BY <1>2
  <2>3. QED
    BY <2>1, <2>2, FS_Subset
<1>7. p + 1 \notin {n \in T : n <= p}
  OBVIOUS
<1>8. PICK B : B = {n \in T : n <= p}
  OBVIOUS
<1>9. Cardinality(B \cup {p + 1}) = Cardinality(B) + 1 /\ Cardinality(B) \in Nat
  BY <1>6, <1>7, <1>8, FS_AddElement, FS_CardinalityType
<1>10. Left(p) = Cardinality(B)
  BY <1>1, <1>8 DEF Left
<1>11. t \in Seq(BenchImages) /\ Len(t) \in Nat
  BY <1>3, PickTakes
<1>12. Left(p) + 1 \in 1..Len(t) /\ t[Left(p) + 1] = l[p + 1] /\ Left(p) \in Nat
  BY <1>4, <1>5, <1>8, <1>9, <1>10
<1>13. QED
  BY <1>1, <1>3, <1>11, <1>12 DEF StandingIds, At, Picture

\* What a restart keeps of a stack: entries of it about pictures that remain, rebased.
LEMMA RebasedEntries ==
  ASSUME session.ids \in Seq(BenchImages), NEW h \in Seq(BracketEntries)
  PROVE  /\ Rebased(h) \in Seq(BracketEntries)
         /\ \A k \in 1..Len(Rebased(h)) :
              \E j \in 1..Len(h) : /\ Rebased(h)[k] = Rebase(h[j])
                                   /\ Remains(Picture(h[j].champion)) /\ Remains(Picture(h[j].at))
<1> DEFINE P == {k \in DOMAIN h : Remains(Picture(h[k].champion)) /\ Remains(Picture(h[k].at))}
<1> HIDE DEF P
<1>1. PICK g, f : g = Kept(h) /\ f = Rebased(h)
  OBVIOUS
<1>2. g = Pick(h, P)
  BY <1>1 DEF Kept, P
<1>3. PICK at : g \in Seq(BracketEntries) /\ TakenFrom(g, h, P, Len(h), at)
  BY <1>2, PickTakes
<1>4. /\ Len(g) \in Nat /\ DOMAIN g = 1..Len(g)
      /\ \A k \in 1..Len(g) : at[k] \in 1..Len(h) /\ at[k] \in P /\ g[k] = h[at[k]]
  BY <1>3 DEF TakenFrom
<1>5. \A e \in BracketEntries : Rebase(e) \in BracketEntries
  <2>1. TAKE e \in BracketEntries
  <2>2. e.action \in {"champion", "challenger", "skip"} /\ e.champion \in Nat /\ e.at \in Nat
    BY DEF BracketEntries
  <2>3. Left(e.champion) \in Nat /\ Left(e.at) \in Nat
    BY <2>2, LeftCounts
  <2>4. QED
    BY <2>2, <2>3 DEF Rebase, BracketEntries
<1>6. PICK N \in Nat : N = Len(g)
  BY <1>4
<1>7. f = [k \in 1..N |-> Rebase(g[k])]
  BY <1>1, <1>4, <1>6 DEF Rebased
<1>8. \A k \in 1..N : Rebase(g[k]) \in BracketEntries
  <2>1. \A k \in 1..N : g[k] \in BracketEntries
    BY <1>3, <1>6
  <2>2. QED
    BY <1>5, <2>1
<1>9. f \in Seq(BracketEntries) /\ Len(f) = N
  BY <1>7, <1>8
<1>10. ASSUME NEW k \in 1..N
       PROVE  \E j \in 1..Len(h) : /\ f[k] = Rebase(h[j])
                                   /\ Remains(Picture(h[j].champion)) /\ Remains(Picture(h[j].at))
  <2>1. f[k] = Rebase(h[at[k]]) /\ at[k] \in 1..Len(h) /\ at[k] \in P
    BY <1>4, <1>6, <1>7
  <2>2. QED
    BY <2>1 DEF P
<1>11. QED
  BY <1>1, <1>9, <1>10

\* A continuous line is a bracket in which nobody was passed over.
LEMMA ChainFits ==
  ASSUME NEW l \in Seq(BenchImages), NEW h \in Seq(BracketEntries), NEW r \in Seq(BracketEntries),
         Continuous(Line(h, r)), \A k \in 1..Len(h) + Len(r) : Line(h, r)[k].at < Len(l), NEW out
  PROVE  BracketFits(l, h, r, Champions(h, Len(h)), Len(h) + 1, out)
<1>1. PICK t, n, N : t = Line(h, r) /\ n = Len(h) /\ N = Len(h) + Len(r)
  OBVIOUS
<1>2. /\ n \in Nat /\ N \in Nat /\ n <= N /\ DOMAIN t = 1..N
      /\ \A k \in 1..N : t[k] \in BracketEntries /\ t[k].champion \in Nat /\ t[k].at \in Nat
  <2>1. /\ Len(h) \in Nat /\ Len(r) \in Nat
        /\ \A j \in 1..Len(h) + Len(r) :
             /\ Line(h, r)[j] \in BracketEntries
             /\ Line(h, r)[j].champion \in Nat /\ Line(h, r)[j].at \in Nat
    BY BracketLine
  <2>2. DOMAIN Line(h, r) = 1..Len(h) + Len(r)
    BY LineType
  <2>3. QED
    BY <1>1, <2>1, <2>2
<1>3. \A k \in 1..N : t[k].at = k /\ t[k].champion = Champions(t, k - 1)
  BY <1>1, <1>2 DEF Continuous
<1> DEFINE Good == {k \in Nat : k <= N => Follows(t, k, Champions(t, k), k + 1, out)}
<1>4. 0 \in Good
  <2>1. (\A j : j \notin 1..0) /\ \A p : p \in 0..(0 + 1) - 1 => p = 0
    OBVIOUS
  <2>2. Follows(t, 0, 0, 0 + 1, out)
    BY <2>1 DEF Follows
  <2>3. QED
    BY <2>2 DEF Champions
<1>5. ASSUME NEW k \in Nat, k \in Good PROVE k + 1 \in Good
  <2>1. SUFFICES ASSUME k + 1 <= N PROVE Follows(t, k + 1, Champions(t, k + 1), (k + 1) + 1, out)
    OBVIOUS
  <2>2. /\ k + 1 \in 1..N /\ (k + 1) - 1 = k /\ k + 1 # 0
        /\ \A j \in 1..k + 1 : j \in 1..N
    BY <1>2, <2>1
  <2>3. Follows(t, k, Champions(t, k), k + 1, out)
    BY <1>2, <1>5, <2>1
  <2>4. t[k + 1].at = k + 1 /\ t[k + 1].champion = Champions(t, k) /\ t[k + 1].champion \in Nat
    BY <1>2, <1>3, <2>2
  <2>5. \A j \in 1..k + 1 : t[j] \in BracketEntries
    BY <1>2, <2>2
  <2>6. Follows(t, k + 1, Crowned(t[k + 1]), (k + 1) + 1, out)
    <3>1. PICK x \in Nat : x = Champions(t, k)
      BY <2>4
    <3>2. Follows(t, k, x, k + 1, out) /\ t[k + 1].champion = x /\ k + 1 \in Nat
      BY <2>3, <2>4, <3>1
    <3>3. QED
      BY <2>4, <2>5, <3>2, FollowsEntry
  <2>7. QED
    BY <2>2, <2>6 DEF Champions
<1>6. \A k \in 0..N : Follows(t, k, Champions(t, k), k + 1, out)
  <2>1. Nat \subseteq Good
    BY <1>4, <1>5, Induction
  <2>2. QED
    BY <1>2, <2>1
<1>7. ASSUME NEW k \in 1..N PROVE Follows(t, k - 1, t[k].champion, t[k].at, out)
  <2>1. k - 1 \in 0..N /\ (k - 1) + 1 = k
    BY <1>2
  <2>2. QED
    BY <1>3, <1>6, <2>1
<1>8. Champions(t, n) = Champions(h, n)
  <2>1. n # 0 => t[n] = h[n]
    <3>1. \A k \in 1..Len(h) : Line(h, r)[k] = h[k]
      BY LineType
    <3>2. n # 0 => n \in 1..n
      BY <1>2
    <3>3. QED
      BY <1>1, <3>1, <3>2
  <2>2. QED
    BY <2>1 DEF Champions
<1>9. Follows(t, n, Champions(h, n), n + 1, out)
  BY <1>2, <1>6, <1>8
<1>10. l # <<>> => n + 1 <= Len(l)
  <2>1. Len(l) \in Nat /\ (l # <<>> => Len(l) >= 1)
    OBVIOUS
  <2>2. CASE n = 0
    BY <2>1, <2>2
  <2>3. CASE n # 0
    <3>1. n \in 1..N
      BY <1>2, <2>3
    <3>2. t[n].at < Len(l) /\ t[n].at = n
      BY <1>1, <1>3, <3>1
    <3>3. QED
      BY <1>2, <2>1, <3>2
  <2>4. QED
    BY <2>2, <2>3
<1>11. QED
  BY <1>1, <1>7, <1>9, <1>10 DEF BracketFits

\* The parts of a session.
LEMMA SessionParts ==
  ASSUME session \in BenchSessions
  PROVE  /\ session.ids \in Seq(BenchImages) /\ session.index \in Nat /\ session.champion \in Nat
         /\ session.history \in Seq(BenchEntries) /\ session.redo \in Seq(BenchEntries)
         /\ Bracket => session.history \in Seq(BracketEntries) /\ session.redo \in Seq(BracketEntries)
         /\ ~Bracket => session.history \in Seq(CullEntries) /\ session.redo \in Seq(CullEntries)
<1>1. /\ session.ids \in Seq(BenchImages) /\ session.index \in Nat /\ session.champion \in Nat
      /\ session.history \in Seq(BenchEntries) /\ session.redo \in Seq(BenchEntries)
  BY DEF BenchSessions, SessionsOf
<1>2. (Bracket => BenchEntries = BracketEntries) /\ (~Bracket => BenchEntries = CullEntries)
  BY DEF BenchEntries
<1>3. QED
  BY <1>1, <1>2

\* Parts that make a session.
LEMMA SessionMade ==
  ASSUME NEW l \in Seq(BenchImages), NEW i \in Nat, NEW x \in Nat,
         NEW h \in Seq(BenchEntries), NEW r \in Seq(BenchEntries)
  PROVE  [ids |-> l, index |-> i, champion |-> x, history |-> h, redo |-> r] \in BenchSessions
BY DEF BenchSessions, SessionsOf

\* The list that is left is a list of pictures without repeats.
LEMMA StandingIsAList ==
  ASSUME session.ids \in Seq(BenchImages), Unique(session.ids)
  PROVE  StandingIds \in Seq(BenchImages) /\ Unique(StandingIds)
<1>1. PICK l \in Seq(BenchImages) : l = session.ids
  OBVIOUS
<1>2. PICK t : t = Pick(l, Standing)
  OBVIOUS
<1>3. t \in Seq(BenchImages)
      /\ ((\A i, j \in DOMAIN l : l[i] = l[j] => i = j) => \A i, j \in DOMAIN t : t[i] = t[j] => i = j)
  BY <1>2, PickHolds
<1>4. QED
  BY <1>1, <1>2, <1>3 DEF StandingIds, Unique

\* Where the entries of a sound bracket come to lie.
LEMMA RebasedPlaces ==
  ASSUME session.ids \in Seq(BenchImages), NEW h \in Seq(BracketEntries), Valid(h)
  PROVE  \A k \in 1..Len(Rebased(h)) : Rebased(h)[k].at < Len(StandingIds)
<1>1. TAKE k \in 1..Len(Rebased(h))
<1>2. PICK j \in 1..Len(h) : Rebased(h)[k] = Rebase(h[j]) /\ Remains(Picture(h[j].at))
  BY RebasedEntries
<1>3. PICK e \in BracketEntries : e = h[j]
  OBVIOUS
<1>4. e.at \in Nat /\ e.at < Len(session.ids)
  <2>1. j \in DOMAIN h
    OBVIOUS
  <2>2. QED
    BY <1>3, <2>1 DEF Valid, BracketEntries
<1>5. e.at + 1 \in Standing
  <2>1. e.at + 1 \in DOMAIN session.ids
    BY <1>4
  <2>2. Remains(session.ids[e.at + 1])
    BY <1>2, <1>3 DEF Picture, At
  <2>3. QED
    BY <2>1, <2>2 DEF Standing
<1>6. Left(e.at) < Len(StandingIds)
  BY <1>4, <1>5, LeftFinds
<1>7. QED
  BY <1>2, <1>3, <1>6 DEF Rebase

\* A bracket that comes back is one bracket, whatever is gone.
LEMMA RestoredBracketFits ==
  ASSUME session \in BenchSessions, Unique(session.ids), Bracket, NEW out
  PROVE  /\ RestoredBracket \in BenchSessions /\ Unique(RestoredBracket.ids)
         /\ BracketFits(RestoredBracket.ids, RestoredBracket.history, RestoredBracket.redo,
                        RestoredBracket.champion, RestoredBracket.index, out)
<1>1. PICK s : s = StandingIds
  OBVIOUS
<1>2. s \in Seq(BenchImages) /\ Unique(s)
  BY <1>1, SessionParts, StandingIsAList
<1>3. BenchEntries = BracketEntries /\ <<>> \in Seq(BracketEntries)
  BY DEF BenchEntries
<1>4. CASE ~Sound
  <2>1. RestoredBracket = [ids |-> s, index |-> 1, champion |-> 0, history |-> <<>>, redo |-> <<>>]
    BY <1>1, <1>4 DEF RestoredBracket
  <2>2. RestoredBracket \in BenchSessions
    BY <1>2, <1>3, <2>1, SessionMade
  <2>3. BracketFits(s, <<>>, <<>>, 0, 1, out)
    BY <1>2, BracketStarts
  <2>4. QED
    BY <1>2, <2>1, <2>2, <2>3
<1>5. CASE Sound
  <2>1. PICK h, r, i, x : /\ h = Rebased(session.history) /\ r = Rebased(session.redo)
                          /\ i = Left(session.index) /\ x = Left(session.champion)
    OBVIOUS
  <2>2. RestoredBracket = [ids |-> s, index |-> i, champion |-> x, history |-> h, redo |-> r]
    BY <1>1, <1>5, <2>1 DEF RestoredBracket
  <2>3. h \in Seq(BracketEntries) /\ r \in Seq(BracketEntries) /\ i \in Nat /\ x \in Nat
    BY <2>1, SessionParts, RebasedEntries, LeftCounts
  <2>4. Continuous(h \o Reverse(r)) /\ i = Len(h) + 1 /\ x = Champions(h, Len(h))
    BY <1>5, <2>1 DEF Sound
  <2>5. Continuous(Line(h, r))
    BY <2>3, <2>4, LineIsConcat
  <2>6. (\A k \in 1..Len(h) : h[k].at < Len(s)) /\ (\A k \in 1..Len(r) : r[k].at < Len(s))
    <3>1. Valid(session.history) /\ Valid(session.redo)
      BY <1>5 DEF Sound
    <3>2. QED
      BY <1>1, <2>1, <3>1, SessionParts, RebasedPlaces
  <2>7. \A k \in 1..Len(h) + Len(r) : Line(h, r)[k].at < Len(s)
    <3>1. TAKE k \in 1..Len(h) + Len(r)
    <3>2. Line(h, r)[k] = IF k <= Len(h) THEN h[k] ELSE r[Len(h) + Len(r) - k + 1]
      BY LineAt
    <3>3. Len(h) \in Nat /\ Len(r) \in Nat
      BY <2>3
    <3>4. (k <= Len(h) /\ k \in 1..Len(h)) \/ (~(k <= Len(h)) /\ Len(h) + Len(r) - k + 1 \in 1..Len(r))
      BY <3>3
    <3>5. QED
      BY <2>6, <3>2, <3>4
  <2>8. BracketFits(s, h, r, x, i, out)
    BY <1>2, <2>3, <2>4, <2>5, <2>7, ChainFits
  <2>9. RestoredBracket \in BenchSessions
    BY <1>2, <1>3, <2>2, <2>3, SessionMade
  <2>10. QED
    BY <1>2, <2>2, <2>8, <2>9
<1>6. QED
  BY <1>4, <1>5

\* What the fit of a cull says of an entry of its redo stack: history and the entries
\* above it come before it.
Awaits(l, h, r, m, out) ==
    /\ \A j \in 1..Len(h) : h[j].at < r[m].at
    /\ \A q \in m + 1..Len(r) : r[q].at < r[m].at
    /\ \A p \in 0..r[m].at - 1 : \/ p \in out
                                 \/ \E j \in 1..Len(h) : p = h[j].at
                                 \/ \E q \in m + 1..Len(r) : p = r[q].at
    /\ r[m].at < Len(l) /\ r[m].image = At(l, r[m].at)

\* The fit of a cull, stack by stack.
LEMMA CullApart ==
  ASSUME NEW l, NEW h \in Seq(CullEntries), NEW r \in Seq(CullEntries), NEW i, NEW out
  PROVE  CullFits(l, h, r, i, out) <=>
            /\ \A k \in 1..Len(h) : /\ Covers(h, k - 1, h[k].at, out)
                                    /\ h[k].at < Len(l) /\ h[k].image = At(l, h[k].at)
            /\ \A m \in 1..Len(r) : Awaits(l, h, r, m, out)
            /\ Covers(h, Len(h), i, out)
            /\ i <= Len(l)
<1>1. PICK t, n, R : t = Line(h, r) /\ n = Len(h) /\ R = Len(r)
  OBVIOUS
<1>2. /\ n \in Nat /\ R \in Nat
      /\ \A k \in 1..n : t[k] = h[k]
      /\ \A m \in 1..R : t[n + R - m + 1] = r[m]
  <2>1. \A k \in 1..Len(h) : Line(h, r)[k] = h[k]
    BY LineType
  <2>2. \A k \in 1..Len(r) : Line(h, r)[Len(h) + Len(r) - k + 1] = r[k]
    BY LineType
  <2>3. Len(h) \in Nat /\ Len(r) \in Nat
    OBVIOUS
  <2>4. QED
    BY <1>1, <2>1, <2>2, <2>3
<1>3. \A z : \A k \in 0..n : Covers(t, k, z, out) <=> Covers(h, k, z, out)
  <2>1. \A k \in 0..n : \A j \in 1..k : t[j] = h[j]
    BY <1>2
  <2>2. QED
    BY <2>1 DEF Covers
<1>4. ASSUME NEW m \in 1..R
      PROVE  /\ Covers(t, n + R - m, r[m].at, out) /\ r[m].at < Len(l)
                /\ r[m].image = At(l, r[m].at)
             <=> Awaits(l, h, r, m, out)
  <2>1. \A q \in m + 1..R : n + R - q + 1 \in 1..n + R - m /\ q \in 1..R
    BY <1>2
  <2>2. \A j \in 1..n : j \in 1..n + R - m
    BY <1>2
  <2>3. \A j \in 1..n + R - m : j \in 1..n \/ n + R - j + 1 \in m + 1..R
    BY <1>2
  <2>4. \A j \in 1..n + R - m : j \notin 1..n => t[j] = r[n + R - j + 1]
    <3>1. TAKE j \in 1..n + R - m
    <3>2. HAVE j \notin 1..n
    <3>3. PICK q \in m + 1..R : q = n + R - j + 1
      BY <2>3, <3>2
    <3>4. q \in 1..R /\ n + R - q + 1 = j
      BY <1>2, <2>1, <3>3
    <3>5. QED
      BY <1>2, <3>3, <3>4
  <2>5. \A z : (\A j \in 1..n + R - m : t[j].at < z)
                <=> (\A j \in 1..n : h[j].at < z) /\ \A q \in m + 1..R : r[q].at < z
    BY <1>2, <2>1, <2>2, <2>3, <2>4
  <2>6. \A p : (\E j \in 1..n + R - m : p = t[j].at)
                <=> (\E j \in 1..n : p = h[j].at) \/ \E q \in m + 1..R : p = r[q].at
    BY <1>2, <2>1, <2>2, <2>3, <2>4
  <2>7. QED
    BY <1>1, <2>5, <2>6 DEF Covers, Awaits
<1>5. ASSUME CullFits(l, h, r, i, out)
      PROVE  /\ \A k \in 1..n : /\ Covers(h, k - 1, h[k].at, out)
                                /\ h[k].at < Len(l) /\ h[k].image = At(l, h[k].at)
             /\ \A m \in 1..R : Awaits(l, h, r, m, out)
             /\ Covers(h, n, i, out) /\ i <= Len(l)
  <2>1. /\ \A k \in 1..n + R : /\ Covers(t, k - 1, t[k].at, out)
                               /\ t[k].at < Len(l) /\ t[k].image = At(l, t[k].at)
        /\ Covers(t, n, i, out) /\ i <= Len(l)
    BY <1>1, <1>5 DEF CullFits
  <2>2. ASSUME NEW k \in 1..n
        PROVE  Covers(h, k - 1, h[k].at, out) /\ h[k].at < Len(l) /\ h[k].image = At(l, h[k].at)
    <3>1. k \in 1..n + R /\ k - 1 \in 0..n /\ t[k] = h[k]
      BY <1>2
    <3>2. QED
      BY <1>3, <2>1, <3>1
  <2>3. ASSUME NEW m \in 1..R PROVE Awaits(l, h, r, m, out)
    <3>1. n + R - m + 1 \in 1..n + R /\ (n + R - m + 1) - 1 = n + R - m
      BY <1>2
    <3>2. QED
      BY <1>2, <1>4, <2>1, <3>1
  <2>4. Covers(h, n, i, out)
    BY <1>2, <1>3, <2>1
  <2>5. QED
    BY <2>1, <2>2, <2>3, <2>4
<1>6. ASSUME /\ \A k \in 1..n : /\ Covers(h, k - 1, h[k].at, out)
                                /\ h[k].at < Len(l) /\ h[k].image = At(l, h[k].at)
             /\ \A m \in 1..R : Awaits(l, h, r, m, out)
             /\ Covers(h, n, i, out) /\ i <= Len(l)
      PROVE  CullFits(l, h, r, i, out)
  <2>1. ASSUME NEW k \in 1..n + R
        PROVE  Covers(t, k - 1, t[k].at, out) /\ t[k].at < Len(l) /\ t[k].image = At(l, t[k].at)
    <3>1. CASE k \in 1..n
      <4>1. k - 1 \in 0..n /\ t[k] = h[k]
        BY <1>2, <3>1
      <4>2. QED
        BY <1>3, <1>6, <3>1, <4>1
    <3>2. CASE k \notin 1..n
      <4>1. PICK m \in 1..R : m = n + R - k + 1
        BY <1>2, <3>2
      <4>2. n + R - m + 1 = k /\ n + R - m = k - 1
        BY <1>2, <4>1
      <4>3. t[k] = r[m]
        BY <1>2, <4>2
      <4>4. QED
        BY <1>4, <1>6, <4>2, <4>3
    <3>3. QED
      BY <3>1, <3>2
  <2>2. Covers(t, n, i, out)
    BY <1>2, <1>3, <1>6
  <2>3. QED
    BY <1>1, <1>6, <2>1, <2>2 DEF CullFits
<1>7. QED
  BY <1>1, <1>5, <1>6

\* A redo stack may lose entries that are behind the cursor or decided already.
LEMMA CullFewer ==
  ASSUME NEW l, NEW h \in Seq(CullEntries), NEW r \in Seq(CullEntries), NEW i \in Nat, NEW out,
         CullFits(l, h, r, i, out), NEW P,
         \A q \in 1..Len(r) : \/ q \in P \/ r[q].at < i
                              \/ \E k \in 1..Len(h) : h[k].at = r[q].at
  PROVE  CullFits(l, h, Pick(r, P), i, out)
<1>1. PICK s, n, R : s = Pick(r, P) /\ n = Len(h) /\ R = Len(r)
  OBVIOUS
<1>2. PICK g : s \in Seq(CullEntries) /\ TakenFrom(s, r, P, R, g)
  BY <1>1, PickTakes
<1>3. /\ n \in Nat /\ R \in Nat /\ Len(s) \in Nat
      /\ \A m \in 1..Len(s) : g[m] \in 1..R /\ s[m] = r[g[m]]
      /\ \A m, q \in 1..Len(s) : m < q => g[m] < g[q]
      /\ \A q \in 1..R : q \in P => \E m \in 1..Len(s) : g[m] = q
  BY <1>1, <1>2 DEF TakenFrom
<1>4. /\ \A k \in 1..n : /\ Covers(h, k - 1, h[k].at, out)
                         /\ h[k].at < Len(l) /\ h[k].image = At(l, h[k].at)
      /\ \A m \in 1..R : Awaits(l, h, r, m, out)
      /\ Covers(h, n, i, out)
      /\ i <= Len(l)
  BY <1>1, CullApart
<1>5. \A m \in 1..R : r[m].at \in Nat
  <2>1. \A e \in CullEntries : e.at \in Nat
    BY DEF CullEntries
  <2>2. \A m \in 1..R : r[m] \in CullEntries
    BY <1>1
  <2>3. QED
    BY <2>1, <2>2
<1>6. ASSUME NEW m \in 1..Len(s) PROVE Awaits(l, h, s, m, out)
  <2>1. g[m] \in 1..R /\ s[m] = r[g[m]] /\ Awaits(l, h, r, g[m], out)
    BY <1>3, <1>4
  <2>2. /\ \A j \in 1..n : h[j].at < s[m].at
        /\ \A q \in g[m] + 1..R : r[q].at < s[m].at
        /\ \A p \in 0..s[m].at - 1 : \/ p \in out
                                     \/ \E j \in 1..n : p = h[j].at
                                     \/ \E q \in g[m] + 1..R : p = r[q].at
        /\ s[m].at < Len(l) /\ s[m].image = At(l, s[m].at)
    BY <1>1, <2>1 DEF Awaits
  <2>3. ASSUME NEW q \in m + 1..Len(s) PROVE s[q].at < s[m].at
    <3>1. q \in 1..Len(s) /\ m < q
      BY <1>3
    <3>2. g[q] \in g[m] + 1..R /\ s[q] = r[g[q]]
      BY <1>3, <2>1, <3>1
    <3>3. QED
      BY <2>2, <3>2
  <2>4. ASSUME NEW p \in 0..s[m].at - 1
        PROVE  \/ p \in out \/ \E j \in 1..n : p = h[j].at
               \/ \E q \in m + 1..Len(s) : p = s[q].at
    <3>1. ASSUME NEW q \in g[m] + 1..R, p = r[q].at, q \in P
          PROVE  \E o \in m + 1..Len(s) : p = s[o].at
      <4>1. q \in 1..R
        BY <1>3, <2>1
      <4>2. PICK o \in 1..Len(s) : g[o] = q
        BY <1>3, <3>1, <4>1
      <4>3. g[m] \in Nat /\ g[o] > g[m] /\ o \in Nat /\ m \in Nat
        BY <1>3, <2>1, <4>2
      <4>4. ~(o < m) /\ o # m
        BY <1>3, <2>1, <4>2, <4>3
      <4>5. o \in m + 1..Len(s)
        BY <1>3, <4>2, <4>3, <4>4
      <4>6. QED
        BY <1>3, <3>1, <4>2, <4>5
    <3>2. ASSUME NEW q \in g[m] + 1..R, p = r[q].at, q \notin P
          PROVE  p \in out \/ \E j \in 1..n : p = h[j].at
      <4>1. q \in 1..R
        BY <1>3, <2>1
      <4>2. r[q].at < i \/ \E k \in 1..n : h[k].at = r[q].at
        BY <1>1, <3>2, <4>1
      <4>3. CASE r[q].at < i
        <5>1. p \in 0..i - 1
          BY <3>2, <4>3
        <5>2. QED
          BY <1>4, <5>1 DEF Covers
      <4>4. QED
        BY <3>2, <4>2, <4>3
    <3>3. QED
      BY <2>2, <3>1, <3>2
  <2>5. QED
    BY <1>1, <2>2, <2>3, <2>4 DEF Awaits
<1>7. CullFits(l, h, s, i, out)
  BY <1>1, <1>2, <1>4, <1>6, CullApart
<1>8. QED
  BY <1>1, <1>7

\* A cull that comes back is a session.
LEMMA RestoredCullTypes ==
  ASSUME session \in BenchSessions, Unique(session.ids)
  PROVE  RestoredCull \in BenchSessions /\ Unique(RestoredCull.ids)
<1>1. PICK l, i, h, r : /\ l = StandingIds /\ i = Left(session.index)
                        /\ h = Pick(session.history, Past) /\ r = Pick(session.redo, Ahead)
  OBVIOUS
<1>2. l \in Seq(BenchImages) /\ Unique(l) /\ i \in Nat
  BY <1>1, SessionParts, StandingIsAList, LeftCounts
<1>3. h \in Seq(BenchEntries) /\ r \in Seq(BenchEntries)
  BY <1>1, SessionParts, PickTakes
<1>4. RestoredCull = [ids |-> l, index |-> i, champion |-> 0, history |-> h, redo |-> r]
  BY <1>1 DEF RestoredCull
<1>5. QED
  BY <1>2, <1>3, <1>4, SessionMade

\* In a list without repeats a picture has one place.
LEMMA PlaceFound ==
  ASSUME session.ids \in Seq(BenchImages), Unique(session.ids),
         NEW p \in Nat, p < Len(session.ids)
  PROVE  Place(Picture(p)) = p
<1>1. PICK l \in Seq(BenchImages) : l = session.ids
  OBVIOUS
<1>2. p \in 0..Len(l) - 1 /\ Picture(p) = l[p + 1] /\ Len(l) \in Nat
  BY <1>1 DEF Picture, At
<1>3. ASSUME NEW k \in 0..Len(l) - 1, Picture(k) = Picture(p) PROVE k = p
  <2>1. k + 1 \in DOMAIN l /\ p + 1 \in DOMAIN l /\ l[k + 1] = l[p + 1]
    BY <1>1, <1>2, <1>3 DEF Picture, At
  <2>2. k + 1 = p + 1
    BY <1>1, <2>1 DEF Unique
  <2>3. QED
    BY <1>2, <2>2
<1>4. Place(Picture(p)) = CHOOSE k \in 0..Len(l) - 1 : Picture(k) = Picture(p)
  BY <1>1 DEF Place
<1>5. QED
  BY <1>2, <1>3, <1>4

\* A cull that has its pictures comes back as it was, but for redo entries it has
\* gone past.
LEMMA RestoredCullFits ==
  ASSUME session \in BenchSessions, Unique(session.ids), ~Bracket, Whole, NEW out,
         CullFits(session.ids, session.history, session.redo, session.index, out)
  PROVE  /\ RestoredCull.ids = session.ids
         /\ CullFits(RestoredCull.ids, RestoredCull.history, RestoredCull.redo,
                     RestoredCull.index, out)
<1>1. PICK l, i, h, r : /\ l = session.ids /\ i = session.index
                        /\ h = session.history /\ r = session.redo
  OBVIOUS
<1>2. /\ l \in Seq(BenchImages) /\ i \in Nat
      /\ h \in Seq(CullEntries) /\ r \in Seq(CullEntries) /\ Unique(l)
  BY <1>1, SessionParts
<1>3. Len(l) \in Nat /\ DOMAIN l = 1..Len(l) /\ Len(h) \in Nat /\ DOMAIN h = 1..Len(h)
      /\ Len(r) \in Nat /\ DOMAIN r = 1..Len(r)
  BY <1>2
<1>4. CullFits(l, h, r, i, out)
  BY <1>1
<1>5. /\ \A k \in 1..Len(h) : h[k].at < Len(l) /\ h[k].image = At(l, h[k].at) /\ h[k].at < i
      /\ \A m \in 1..Len(r) : r[m].at < Len(l) /\ r[m].image = At(l, r[m].at)
      /\ i <= Len(l)
  BY <1>2, <1>4, CullApart DEF Covers, Awaits
<1>6. /\ \A k \in 1..Len(h) : h[k].at \in Nat
      /\ \A m \in 1..Len(r) : r[m].at \in Nat
  <2>1. \A e \in CullEntries : e.at \in Nat
    BY DEF CullEntries
  <2>2. (\A k \in 1..Len(h) : h[k] \in CullEntries) /\ \A m \in 1..Len(r) : r[m] \in CullEntries
    BY <1>2
  <2>3. QED
    BY <2>1, <2>2
<1>7. ASSUME NEW p \in Nat, p < Len(l) PROVE Remains(At(l, p)) /\ Place(At(l, p)) = p
  <2>1. p + 1 \in DOMAIN l
    BY <1>3, <1>7
  <2>2. At(l, p) \in ToSet(l)
    BY <2>1 DEF At, ToSet
  <2>3. Remains(At(l, p))
    BY <1>1, <2>2 DEF Whole
  <2>4. Place(Picture(p)) = p
    BY <1>1, <1>2, <1>7, PlaceFound
  <2>5. QED
    BY <1>1, <2>3, <2>4 DEF Picture
<1>8. Standing = DOMAIN l
  <2>1. \A n \in DOMAIN l : l[n] \in ToSet(l)
    BY DEF ToSet
  <2>2. QED
    BY <1>1, <2>1 DEF Standing, Whole
<1>9. StandingIds = l
  BY <1>1, <1>2, <1>8, PickAll DEF StandingIds
<1>10. Left(i) = i
  <2>1. {n \in 1..Len(l) : n <= i} = 1..i
    BY <1>2, <1>3, <1>5
  <2>2. QED
    BY <1>2, <1>3, <1>8, <2>1, CountTo DEF Left
<1>11. Past = DOMAIN h
  <2>1. \A k \in 1..Len(h) : Remains(h[k].image) /\ Place(h[k].image) < i
    BY <1>5, <1>6, <1>7
  <2>2. QED
    BY <1>1, <1>3, <2>1 DEF Past
<1>12. Pick(h, Past) = h
  BY <1>2, <1>11, PickAll
<1>13. ASSUME NEW q \in 1..Len(r)
       PROVE  q \in Ahead \/ r[q].at < i \/ \E k \in 1..Len(h) : h[k].at = r[q].at
  <2>1. Remains(r[q].image) /\ Place(r[q].image) = r[q].at
    BY <1>5, <1>6, <1>7
  <2>2. CASE \E k \in DOMAIN h : h[k].image = r[q].image
    <3>1. PICK k \in 1..Len(h) : h[k].image = r[q].image
      BY <1>3, <2>2
    <3>2. Place(h[k].image) = h[k].at
      BY <1>5, <1>6, <1>7
    <3>3. QED
      BY <2>1, <3>1, <3>2
  <2>3. CASE Place(r[q].image) < i
    BY <2>1, <2>3
  <2>4. CASE Place(r[q].image) >= i /\ \A k \in DOMAIN h : h[k].image # r[q].image
    BY <1>1, <1>3, <2>1, <2>4 DEF Ahead
  <2>5. QED
    BY <1>2, <1>6, <2>1, <2>2, <2>3, <2>4
<1>14. CullFits(l, h, Pick(r, Ahead), i, out)
  BY <1>2, <1>4, <1>13, CullFewer
<1>15. RestoredCull = [ids |-> l, index |-> i, champion |-> 0, history |-> h,
                       redo |-> Pick(r, Ahead)]
  BY <1>1, <1>9, <1>10, <1>12 DEF RestoredCull
<1>16. QED
  BY <1>1, <1>14, <1>15

------------------------------------------------------------------------------
(* One step of a bracket or a cull                                            *)

\* The absence of a session is not a session.
LEMMA NotASession == NoBench \notin BenchSessions
BY NoBenchAssumption DEF BenchSessions, BenchEntries

\* The mode stays, and with it what a session is.
LEMMA SameMode ==
  ASSUME mode' = mode
  PROVE  /\ Bracket' = Bracket /\ BenchEntries' = BenchEntries /\ BenchSessions' = BenchSessions
         /\ \A s, out : Fits(s, out)' = Fits(s, out)
BY DEF Bracket, BenchEntries, BenchSessions, Fits

\* The first state.
LEMMA BenchStarts == BenchInit => BenchInv
<1> SUFFICES ASSUME BenchInit PROVE BenchInv
  OBVIOUS
<1>1. session \notin BenchSessions
  BY NotASession DEF BenchInit
<1>2. row \in Rows
  BY DEF BenchInit, Rows
<1>3. QED
  BY <1>1, <1>2 DEF BenchInit, BenchInv, BenchTypes, ReadIsOfAPair, PlacesFit

\* A step of the sort endpoints keeps the invariant if its session is one and fits.
LEMMA SessionStep ==
  ASSUME BenchInv, mode' = mode, reader' = reader, seen' = seen, row' = row,
         session' \in BenchSessions, Unique(session'.ids),
         ~adrift' => Fits(session', Out(session'.ids, row))
  PROVE  BenchInv'
<1>1. session' \in BenchSessions' /\ (Bracket' <=> Bracket)
  BY SameMode
<1>2. BenchTypes'
  BY <1>1 DEF BenchInv, BenchTypes
<1>3. ReadIsOfAPair'
  BY <1>1 DEF BenchInv, ReadIsOfAPair
<1>4. PlacesFit'
  BY SameMode DEF PlacesFit
<1>5. QED
  BY <1>2, <1>3, <1>4 DEF BenchInv

\* A session with other places and stacks.
LEMMA SessionChanged ==
  ASSUME session \in BenchSessions, NEW i, NEW x, NEW h, NEW r
  PROVE  LET s == [ids |-> session.ids, index |-> i, champion |-> x, history |-> h, redo |-> r]
         IN  /\ [session EXCEPT !.champion = x, !.index = i, !.history = h, !.redo = r] = s
             /\ [session EXCEPT !.champion = x, !.index = i, !.redo = r, !.history = h] = s
<1>1. session = [ids |-> session.ids, index |-> session.index, champion |-> session.champion,
                 history |-> session.history, redo |-> session.redo]
  BY DEF BenchSessions, SessionsOf
<1>2. PICK l, k, y, g, q : /\ l = session.ids /\ k = session.index /\ y = session.champion
                           /\ g = session.history /\ q = session.redo
  OBVIOUS
<1>3. PICK s : s = [session EXCEPT !.champion = x]
  OBVIOUS
<1>4. session = [ids |-> l, index |-> k, champion |-> y, history |-> g, redo |-> q]
  BY <1>1, <1>2
<1>5. s = [ids |-> l, index |-> k, champion |-> x, history |-> g, redo |-> q]
  BY <1>3, <1>4
<1>6. PICK t : t = [s EXCEPT !.index = i]
  OBVIOUS
<1>7. t = [ids |-> l, index |-> i, champion |-> x, history |-> g, redo |-> q]
  BY <1>5, <1>6
<1>8. PICK u, v : u = [t EXCEPT !.history = h] /\ v = [t EXCEPT !.redo = r]
  OBVIOUS
<1>9. u = [ids |-> l, index |-> i, champion |-> x, history |-> h, redo |-> q]
  BY <1>7, <1>8
<1>10. v = [ids |-> l, index |-> i, champion |-> x, history |-> g, redo |-> r]
  BY <1>7, <1>8
<1>11. [u EXCEPT !.redo = r] = [ids |-> l, index |-> i, champion |-> x, history |-> h, redo |-> r]
  BY <1>9
<1>12. [v EXCEPT !.history = h] = [ids |-> l, index |-> i, champion |-> x, history |-> h, redo |-> r]
  BY <1>10
<1>13. QED
  BY <1>2, <1>3, <1>6, <1>8, <1>11, <1>12

\* A session with other places.
LEMMA PlacesChanged ==
  ASSUME session \in BenchSessions, NEW i, NEW x
  PROVE  [session EXCEPT !.index = i, !.champion = x]
           = [ids |-> session.ids, index |-> i, champion |-> x,
              history |-> session.history, redo |-> session.redo]
<1>1. session = [ids |-> session.ids, index |-> session.index, champion |-> session.champion,
                 history |-> session.history, redo |-> session.redo]
  BY DEF BenchSessions, SessionsOf
<1>2. PICK l, k, y, g, q : /\ l = session.ids /\ k = session.index /\ y = session.champion
                           /\ g = session.history /\ q = session.redo
  OBVIOUS
<1>3. PICK s : s = [session EXCEPT !.index = i]
  OBVIOUS
<1>4. session = [ids |-> l, index |-> k, champion |-> y, history |-> g, redo |-> q]
  BY <1>1, <1>2
<1>5. s = [ids |-> l, index |-> i, champion |-> y, history |-> g, redo |-> q]
  BY <1>3, <1>4
<1>6. [s EXCEPT !.champion = x] = [ids |-> l, index |-> i, champion |-> x, history |-> g, redo |-> q]
  BY <1>5
<1>7. QED
  BY <1>2, <1>3, <1>6

\* What a session is in between two steps.
LEMMA SessionFits ==
  ASSUME BenchInv, session # NoBench
  PROVE  /\ session \in BenchSessions /\ Unique(session.ids)
         /\ ~adrift => Fits(session, Out(session.ids, row))
BY DEF BenchInv, BenchTypes, PlacesFit

\* A start.
LEMMA OpenKeeps ==
  ASSUME BenchInv, NEW l \in BenchLists, Open(l)
  PROVE  BenchInv'
<1>1. PICK i \in Nat : i = IF Bracket THEN 1 ELSE 0
  OBVIOUS
<1>2. session' = [ids |-> l, index |-> i, champion |-> 0, history |-> <<>>, redo |-> <<>>]
  BY <1>1 DEF Open
<1>3. l \in Seq(BenchImages) /\ Unique(l)
  BY BenchListsAssumption DEF Unique
<1>4. session' \in BenchSessions
  <2>1. <<>> \in Seq(BenchEntries) /\ 0 \in Nat
    OBVIOUS
  <2>2. QED
    BY <1>2, <1>3, <2>1, SessionMade
<1>5. Fits(session', Out(l, row))
  BY <1>1, <1>2, <1>3, BracketStarts, CullStarts DEF Fits
<1>6. QED
  BY <1>2, <1>3, <1>4, <1>5, SessionStep DEF Open, shelf

\* The entry of an answer.
LEMMA EntryMade ==
  ASSUME BenchInv, session # NoBench, session.index < Len(session.ids), NEW choice \in Answers[mode]
  PROVE  /\ Entry(choice) \in BenchEntries /\ Entry(choice).at = session.index
         /\ Bracket => Entry(choice).champion = session.champion
         /\ ~Bracket => Entry(choice).image = At(session.ids, session.index)
<1>1. /\ session.ids \in Seq(BenchImages) /\ session.index \in Nat /\ session.champion \in Nat
      /\ mode \in Modes
  BY SessionFits, SessionParts DEF BenchInv, BenchTypes
<1>2. /\ Bracket => choice \in {"champion", "challenger", "skip"}
      /\ ~Bracket => choice \in {"keep", "reject", "skip"}
  BY <1>1, AnswersAssumption DEF Bracket
<1>3. Picture(session.index) \in BenchImages
  <2>1. session.index + 1 \in DOMAIN session.ids
    BY <1>1
  <2>2. QED
    BY <1>1, <2>1 DEF Picture, At
<1>4. QED
  BY <1>1, <1>2, <1>3 DEF Entry, BenchEntries, BracketEntries, CullEntries, Picture

\* A choice.
LEMMA ChooseKeeps ==
  ASSUME BenchInv, NEW choice \in Answers[mode], Choose(choice)
  PROVE  BenchInv'
<1>1. /\ session # NoBench /\ session \in BenchSessions /\ Unique(session.ids)
      /\ session.index < Len(session.ids)
  BY SessionFits DEF Choose
<1>2. PICK e \in BenchEntries : e = Entry(choice)
  BY <1>1, EntryMade
<1>3. PICK l, i, x, h, r : /\ l = session.ids /\ i = session.index /\ x = session.champion
                           /\ h = session.history /\ r = session.redo
  OBVIOUS
<1>4. /\ l \in Seq(BenchImages) /\ i \in Nat /\ x \in Nat
      /\ h \in Seq(BenchEntries) /\ r \in Seq(BenchEntries)
  BY <1>1, <1>3, SessionParts
<1>5. session' = [ids |-> l, index |-> i + 1, champion |-> After(e), history |-> Append(h, e),
                  redo |-> <<>>]
  <2>1. session' = [session EXCEPT !.champion = After(e), !.index = i + 1,
                                   !.history = Append(h, e), !.redo = <<>>]
    BY <1>2, <1>3 DEF Choose
  <2>2. QED
    BY <1>1, <1>3, <2>1, SessionChanged
<1>6. Bracket => BenchEntries = BracketEntries /\ Crowned(e) \in Nat /\ After(e) = Crowned(e)
  BY DEF BenchEntries, BracketEntries, Crowned, After
<1>7. ~Bracket => BenchEntries = CullEntries /\ After(e) = x
  BY <1>3 DEF BenchEntries, After
<1>8. After(e) \in Nat
  BY <1>4, <1>6, <1>7
<1>9. session' \in BenchSessions
  <2>1. Append(h, e) \in Seq(BenchEntries) /\ <<>> \in Seq(BenchEntries) /\ i + 1 \in Nat
    BY <1>4
  <2>2. QED
    BY <1>4, <1>5, <1>8, <2>1, SessionMade
<1>10. ASSUME ~adrift PROVE Fits(session', Out(l, row))
  <2>1. PICK out : out = Out(l, row)
    OBVIOUS
  <2>2. /\ Fits(session, out) /\ i < Len(l) /\ e.at = i
        /\ (Bracket => e.champion = x) /\ (~Bracket => e.image = At(l, i))
    BY <1>1, <1>2, <1>3, <1>10, <2>1, SessionFits, EntryMade
  <2>3. CASE Bracket
    <3>1. BracketFits(l, h, r, x, i, out)
      BY <1>3, <2>2, <2>3 DEF Fits
    <3>2. BracketFits(l, Append(h, e), <<>>, Crowned(e), i + 1, out)
      BY <1>2, <1>4, <1>6, <2>2, <2>3, <3>1, BracketChooses
    <3>3. QED
      BY <1>5, <1>6, <2>1, <2>3, <3>2 DEF Fits
  <2>4. CASE ~Bracket
    <3>1. CullFits(l, h, r, i, out)
      BY <1>3, <2>2, <2>4 DEF Fits
    <3>2. CullFits(l, Append(h, e), <<>>, i + 1, out)
      BY <1>2, <1>4, <1>7, <2>2, <2>4, <3>1, CullChooses
    <3>3. QED
      BY <1>5, <2>1, <2>4, <3>2 DEF Fits
  <2>5. QED
    BY <2>3, <2>4
<1>11. mode' = mode /\ reader' = reader /\ seen' = seen /\ row' = row /\ adrift' = adrift
  BY DEF Choose, shelf
<1>12. session'.ids = l /\ Unique(session'.ids)
  BY <1>1, <1>3, <1>5
<1>13. QED
  BY <1>9, <1>10, <1>11, <1>12, SessionStep

\* An undo.
LEMMA UndoChoiceKeeps ==
  ASSUME BenchInv, UndoChoice
  PROVE  BenchInv'
<1>1. session # NoBench /\ session \in BenchSessions /\ Unique(session.ids) /\ session.history # <<>>
  BY SessionFits DEF UndoChoice
<1>2. PICK l, i, x, h, r : /\ l = session.ids /\ i = session.index /\ x = session.champion
                           /\ h = session.history /\ r = session.redo
  OBVIOUS
<1>3. /\ l \in Seq(BenchImages) /\ i \in Nat /\ x \in Nat
      /\ h \in Seq(BenchEntries) /\ r \in Seq(BenchEntries) /\ h # <<>>
  BY <1>1, <1>2, SessionParts
<1>4. PICK e \in BenchEntries : e = Last(h)
  BY <1>3, Split
<1>5. session' = [ids |-> l, index |-> e.at, champion |-> Before(e), history |-> Front(h),
                  redo |-> Append(r, e)]
  <2>1. session' = [session EXCEPT !.champion = Before(e), !.index = e.at,
                                   !.history = Front(h), !.redo = Append(r, e)]
    BY <1>2, <1>4 DEF UndoChoice
  <2>2. QED
    BY <1>1, <1>2, <2>1, SessionChanged
<1>6. /\ Bracket => BenchEntries = BracketEntries /\ Before(e) = e.champion
      /\ ~Bracket => BenchEntries = CullEntries /\ Before(e) = x
  BY <1>2 DEF BenchEntries, Before
<1>7. e.at \in Nat /\ Before(e) \in Nat
  <2>1. \A f \in BracketEntries : f.champion \in Nat /\ f.at \in Nat /\ Crowned(f) \in Nat
    BY DEF BracketEntries, Crowned
  <2>2. \A f \in CullEntries : f.at \in Nat
    BY DEF CullEntries
  <2>3. CASE Bracket
    BY <1>6, <2>1, <2>3
  <2>4. CASE ~Bracket
    BY <1>3, <1>6, <2>2, <2>4
  <2>5. QED
    BY <2>3, <2>4
<1>8. session' \in BenchSessions
  <2>1. Front(h) \in Seq(BenchEntries) /\ Append(r, e) \in Seq(BenchEntries)
    BY <1>3, Split
  <2>2. QED
    BY <1>3, <1>5, <1>7, <2>1, SessionMade
<1>9. ASSUME ~adrift PROVE Fits(session', Out(l, row))
  <2>1. PICK out : out = Out(l, row)
    OBVIOUS
  <2>2. Fits(session, out)
    BY <1>1, <1>2, <1>9, <2>1, SessionFits
  <2>3. CASE Bracket
    <3>1. BracketFits(l, h, r, x, i, out)
      BY <1>2, <2>2, <2>3 DEF Fits
    <3>2. BracketFits(l, Front(h), Append(r, e), e.champion, e.at, out)
      BY <1>3, <1>4, <1>6, <2>3, <3>1, BracketUndoes
    <3>3. QED
      BY <1>5, <1>6, <2>1, <2>3, <3>2 DEF Fits
  <2>4. CASE ~Bracket
    <3>1. CullFits(l, h, r, i, out)
      BY <1>2, <2>2, <2>4 DEF Fits
    <3>2. CullFits(l, Front(h), Append(r, e), e.at, out)
      BY <1>3, <1>4, <1>6, <2>4, <3>1, CullUndoes
    <3>3. QED
      BY <1>5, <2>1, <2>4, <3>2 DEF Fits
  <2>5. QED
    BY <2>3, <2>4
<1>10. mode' = mode /\ reader' = reader /\ seen' = seen /\ row' = row /\ adrift' = adrift
  BY DEF UndoChoice, shelf
<1>11. session'.ids = l /\ Unique(session'.ids)
  BY <1>1, <1>2, <1>5
<1>12. QED
  BY <1>8, <1>9, <1>10, <1>11, SessionStep

\* A redo.
LEMMA RedoChoiceKeeps ==
  ASSUME BenchInv, RedoChoice
  PROVE  BenchInv'
<1>1. session # NoBench /\ session \in BenchSessions /\ Unique(session.ids) /\ session.redo # <<>>
  BY SessionFits DEF RedoChoice
<1>2. PICK l, i, x, h, r : /\ l = session.ids /\ i = session.index /\ x = session.champion
                           /\ h = session.history /\ r = session.redo
  OBVIOUS
<1>3. /\ l \in Seq(BenchImages) /\ i \in Nat /\ x \in Nat
      /\ h \in Seq(BenchEntries) /\ r \in Seq(BenchEntries) /\ r # <<>>
  BY <1>1, <1>2, SessionParts
<1>4. PICK e \in BenchEntries : e = Last(r)
  BY <1>3, Split
<1>5. session' = [ids |-> l, index |-> e.at + 1, champion |-> After(e), history |-> Append(h, e),
                  redo |-> Front(r)]
  <2>1. session' = [session EXCEPT !.champion = After(e), !.index = e.at + 1,
                                   !.redo = Front(r), !.history = Append(h, e)]
    BY <1>2, <1>4 DEF RedoChoice
  <2>2. QED
    BY <1>1, <1>2, <2>1, SessionChanged
<1>6. /\ Bracket => BenchEntries = BracketEntries /\ After(e) = Crowned(e)
      /\ ~Bracket => BenchEntries = CullEntries /\ After(e) = x
  BY <1>2 DEF BenchEntries, After
<1>7. e.at \in Nat /\ After(e) \in Nat
  <2>1. \A f \in BracketEntries : f.champion \in Nat /\ f.at \in Nat /\ Crowned(f) \in Nat
    BY DEF BracketEntries, Crowned
  <2>2. \A f \in CullEntries : f.at \in Nat
    BY DEF CullEntries
  <2>3. CASE Bracket
    BY <1>6, <2>1, <2>3
  <2>4. CASE ~Bracket
    BY <1>3, <1>6, <2>2, <2>4
  <2>5. QED
    BY <2>3, <2>4
<1>8. session' \in BenchSessions
  <2>1. Append(h, e) \in Seq(BenchEntries) /\ Front(r) \in Seq(BenchEntries) /\ e.at + 1 \in Nat
    BY <1>3, <1>7, Split
  <2>2. QED
    BY <1>3, <1>5, <1>7, <2>1, SessionMade
<1>9. ASSUME ~adrift PROVE Fits(session', Out(l, row))
  <2>1. PICK out : out = Out(l, row)
    OBVIOUS
  <2>2. Fits(session, out)
    BY <1>1, <1>2, <1>9, <2>1, SessionFits
  <2>3. CASE Bracket
    <3>1. BracketFits(l, h, r, x, i, out)
      BY <1>2, <2>2, <2>3 DEF Fits
    <3>2. BracketFits(l, Append(h, e), Front(r), Crowned(e), e.at + 1, out)
      BY <1>3, <1>4, <1>6, <2>3, <3>1, BracketRedoes
    <3>3. QED
      BY <1>5, <1>6, <2>1, <2>3, <3>2 DEF Fits
  <2>4. CASE ~Bracket
    <3>1. CullFits(l, h, r, i, out)
      BY <1>2, <2>2, <2>4 DEF Fits
    <3>2. CullFits(l, Append(h, e), Front(r), e.at + 1, out)
      BY <1>3, <1>4, <1>6, <2>4, <3>1, CullRedoes
    <3>3. QED
      BY <1>5, <2>1, <2>4, <3>2 DEF Fits
  <2>5. QED
    BY <2>3, <2>4
<1>10. mode' = mode /\ reader' = reader /\ seen' = seen /\ row' = row /\ adrift' = adrift
  BY DEF RedoChoice, shelf
<1>11. session'.ids = l /\ Unique(session'.ids)
  BY <1>1, <1>2, <1>5
<1>12. QED
  BY <1>8, <1>9, <1>10, <1>11, SessionStep

\* Rows only leave "readable" while a read looks and while pictures go, and more are out.
LEMMA OutGrows ==
  ASSUME NEW l \in Seq(BenchImages), NEW rows, NEW later,
         \A j \in BenchImages : later[j] = "readable" => rows[j] = "readable"
  PROVE  Out(l, rows) \subseteq Out(l, later)
<1>1. \A p \in Nat : p < Len(l) => At(l, p) \in BenchImages
  BY DEF At
<1>2. QED
  BY <1>1 DEF Out

\* A step of the read or of the library keeps the invariant if the read has seen a pair.
LEMMA RowStep ==
  ASSUME BenchInv, mode' = mode, session' = session, adrift' = adrift,
         session \in BenchSessions \/ reader' = "idle",
         row' \in Rows, \A j \in BenchImages : row'[j] = "readable" => row[j] = "readable",
         ReadIsOfAPair'
  PROVE  BenchInv'
<1>1. session \in BenchSessions \/ (session = NoBench /\ reader' = "idle")
  BY DEF BenchInv, BenchTypes
<1>2. BenchTypes'
  BY <1>1, SameMode DEF BenchInv, BenchTypes
<1>3. ASSUME session \in BenchSessions, ~adrift PROVE Fits(session, Out(session.ids, row'))
  <2>1. PICK l, i, x, h, r, out, more :
          /\ l = session.ids /\ i = session.index /\ x = session.champion /\ h = session.history
          /\ r = session.redo /\ out = Out(session.ids, row) /\ more = Out(session.ids, row')
    OBVIOUS
  <2>2. /\ l \in Seq(BenchImages) /\ i \in Nat /\ x \in Nat
        /\ Bracket => h \in Seq(BracketEntries) /\ r \in Seq(BracketEntries)
        /\ ~Bracket => h \in Seq(CullEntries) /\ r \in Seq(CullEntries)
    BY <1>3, <2>1, SessionParts
  <2>3. out \subseteq more
    BY <2>1, <2>2, OutGrows
  <2>4. Fits(session, out)
    BY <1>3, <2>1 DEF BenchInv, PlacesFit
  <2>5. CASE Bracket
    <3>1. BracketFits(l, h, r, x, i, out)
      BY <2>1, <2>4, <2>5 DEF Fits
    <3>2. BracketFits(l, h, r, x, i, more)
      BY <2>2, <2>3, <2>5, <3>1, BracketReads
    <3>3. QED
      BY <2>1, <2>5, <3>2 DEF Fits
  <2>6. CASE ~Bracket
    <3>1. CullFits(l, h, r, i, out)
      BY <2>1, <2>4, <2>6 DEF Fits
    <3>2. CullFits(l, h, r, i, more)
      BY <2>2, <2>3, <2>6, <3>1, CullReads
    <3>3. QED
      BY <2>1, <2>6, <3>2 DEF Fits
  <2>7. QED
    BY <2>5, <2>6
<1>4. PlacesFit'
  BY <1>3, SameMode DEF PlacesFit
<1>5. QED
  BY <1>2, <1>4 DEF BenchInv

\* A read that runs is of a session.
LEMMA ReadHasSession ==
  ASSUME BenchInv, reader # "idle" PROVE session \in BenchSessions /\ Unique(session.ids)
BY DEF BenchInv, BenchTypes

\* A read begins, and looks where the session is.
LEMMA BeginReadKeeps ==
  ASSUME BenchInv, BeginRead PROVE BenchInv'
<1>1. session \in BenchSessions
  BY SessionFits DEF BeginRead
<1>2. row \in Rows /\ row' = row
  BY DEF BeginRead, shelf, BenchInv, BenchTypes
<1>3. ReadIsOfAPair'
  BY DEF BeginRead, ReadIsOfAPair
<1>4. QED
  BY <1>1, <1>2, <1>3, RowStep DEF BeginRead

\* The read takes down the places.
LEMMA ReadPlacesKeeps ==
  ASSUME BenchInv, ReadPlaces PROVE BenchInv'
<1>1. session \in BenchSessions
  BY ReadHasSession DEF ReadPlaces
<1>2. /\ row \in Rows /\ row' = row /\ mode' = mode /\ session' = session /\ adrift' = adrift
      /\ (Bracket' <=> Bracket)
  BY DEF ReadPlaces, shelf, BenchInv, BenchTypes, Bracket
<1>3. \/ reader' = "champion" /\ Bracket /\ seen' = Places /\ ~(session.index >= Len(session.ids))
      \/ reader' = "next" /\ seen' = Places /\ ~(session.index >= Len(session.ids))
      \/ reader' \in {"winner", "idle"}
  BY DEF ReadPlaces
<1>4. Places \in SeenPlaces /\ Places.index = session.index /\ Places.ids = session.ids
  BY <1>1, SessionParts DEF Places, SeenPlaces
<1>5. session.index \in Nat /\ Len(session.ids) \in Nat
  BY <1>1, SessionParts
<1>6. reader' \in {"champion", "next", "crown", "pass"} =>
        seen' \in SeenPlaces /\ seen'.index < Len(seen'.ids)
  BY <1>3, <1>4, <1>5
<1>7. ReadIsOfAPair'
  BY <1>2, <1>3, <1>6 DEF ReadIsOfAPair
<1>8. QED
  BY <1>1, <1>2, <1>7, RowStep

\* A look at a picture marks it if it cannot be shown.
LEMMA LookMarks ==
  ASSUME BenchInv, NEW i, Look(i)
  PROVE  /\ row' \in Rows /\ mode' = mode /\ session' = session /\ adrift' = adrift
         /\ (Bracket' <=> Bracket)
         /\ \A j \in BenchImages : row'[j] = "readable" => row[j] = "readable"
         /\ i \in BenchImages /\ ~Has(i) => row'[i] # "readable"
BY DEF BenchInv, BenchTypes, Rows, Look, Has, Bracket

\* The read looks at the champion,
LEMMA LookAtChampionKeeps ==
  ASSUME BenchInv, LookAtChampion PROVE BenchInv'
<1>1. PICK p, i : /\ p \in SeenPlaces /\ seen = p /\ p.index < Len(p.ids)
                  /\ i = At(p.ids, p.champion) /\ Bracket
  BY DEF LookAtChampion, BenchInv, ReadIsOfAPair
<1> p \in SeenPlaces
  BY <1>1
<1>2. session \in BenchSessions
  BY ReadHasSession DEF LookAtChampion
<1>3. Look(i) /\ seen' = p /\ (reader' = "next" \/ (reader' = "crown" /\ ~Has(i)))
  BY <1>1 DEF LookAtChampion
<1>4. p.champion < Len(p.ids) => i \in BenchImages
  BY <1>1 DEF At, SeenPlaces
<1>5. reader' = "crown" /\ p.champion < Len(p.ids) => row'[i] # "readable"
  BY <1>3, <1>4, LookMarks
<1>6. Bracket'
  BY <1>1, <1>3, LookMarks
<1>7. ReadIsOfAPair'
  BY <1>1, <1>3, <1>5, <1>6 DEF ReadIsOfAPair, At
<1>8. QED
  BY <1>2, <1>3, <1>7, LookMarks, RowStep

\* at the challenger or the picture of the cull,
LEMMA LookAtNextKeeps ==
  ASSUME BenchInv, LookAtNext PROVE BenchInv'
<1>1. PICK p, i : /\ p \in SeenPlaces /\ seen = p /\ p.index < Len(p.ids)
                  /\ i = At(p.ids, p.index)
  BY DEF LookAtNext, BenchInv, ReadIsOfAPair
<1> p \in SeenPlaces
  BY <1>1
<1>2. session \in BenchSessions
  BY ReadHasSession DEF LookAtNext
<1>3. Look(i) /\ (reader' = "idle" \/ (reader' = "pass" /\ seen' = p /\ ~Has(i)))
  BY <1>1 DEF LookAtNext
<1>4. i \in BenchImages
  BY <1>1 DEF At, SeenPlaces
<1>5. reader' = "pass" => row'[i] # "readable"
  BY <1>3, <1>4, LookMarks
<1>6. ReadIsOfAPair'
  BY <1>1, <1>3, <1>5 DEF ReadIsOfAPair, At
<1>7. QED
  BY <1>2, <1>3, <1>6, LookMarks, RowStep

\* and at the winner.
LEMMA LookAtWinnerKeeps ==
  ASSUME BenchInv, LookAtWinner PROVE BenchInv'
<1>1. PICK i : Look(i) /\ reader' = "idle"
  BY DEF LookAtWinner
<1>2. ReadIsOfAPair'
  BY <1>1 DEF ReadIsOfAPair
<1>3. QED
  BY <1>1, <1>2, LookMarks, RowStep

\* Pictures go and come back under the session.
LEMMA SpoilKeeps ==
  ASSUME BenchInv, NEW i \in BenchImages, Spoil(i) PROVE BenchInv'
<1>1. /\ mode' = mode /\ session' = session /\ adrift' = adrift /\ reader' = reader /\ seen' = seen
      /\ (Bracket' <=> Bracket) /\ (row' = row \/ row' = [row EXCEPT ![i] = "none"])
  BY DEF Spoil, Bracket
<1>2. row' \in Rows /\ \A j \in BenchImages : row'[j] = "readable" => row[j] = "readable"
  BY <1>1 DEF BenchInv, BenchTypes, Rows
<1>3. ASSUME NEW p \in SeenPlaces, NEW k \in Nat, k < Len(p.ids), row[At(p.ids, k)] # "readable"
      PROVE  row'[At(p.ids, k)] # "readable"
  <2>1. At(p.ids, k) \in BenchImages
    BY <1>3 DEF At, SeenPlaces
  <2>2. QED
    BY <1>2, <1>3, <2>1
<1>4. \A p \in SeenPlaces : p.index \in Nat /\ p.champion \in Nat
  BY DEF SeenPlaces
<1>5. /\ reader \in {"champion", "next", "crown", "pass"} =>
           seen \in SeenPlaces /\ seen.index < Len(seen.ids)
      /\ reader = "crown" /\ seen.champion < Len(seen.ids) =>
           row[At(seen.ids, seen.champion)] # "readable"
      /\ reader = "pass" => row[At(seen.ids, seen.index)] # "readable"
  BY DEF BenchInv, ReadIsOfAPair
<1>6. /\ reader = "crown" /\ seen.champion < Len(seen.ids) =>
           row'[At(seen.ids, seen.champion)] # "readable"
      /\ reader = "pass" => row'[At(seen.ids, seen.index)] # "readable"
  BY <1>3, <1>4, <1>5
<1>7. ReadIsOfAPair'
  BY <1>1, <1>6 DEF BenchInv, ReadIsOfAPair, At
<1>8. session \in BenchSessions \/ reader' = "idle"
  BY <1>1 DEF BenchInv, BenchTypes
<1>9. QED
  BY <1>1, <1>2, <1>7, <1>8, RowStep

\* What a read writes: the invariant holds if the places it had seen still held.
LEMMA WriteKeeps ==
  ASSUME BenchInv, reader # "idle", NEW i \in Nat, NEW x \in Nat, WritePlaces(i, x),
         ~adrift' => Fits([session EXCEPT !.index = i, !.champion = x],
                          Out(session.ids, row))
  PROVE  BenchInv'
<1>1. session \in BenchSessions /\ Unique(session.ids)
  BY ReadHasSession
<1>2. PICK s : s = [session EXCEPT !.index = i, !.champion = x]
  OBVIOUS
<1>3. s = [ids |-> session.ids, index |-> i, champion |-> x,
           history |-> session.history, redo |-> session.redo]
  BY <1>1, <1>2, PlacesChanged
<1>4. s \in BenchSessions /\ s.ids = session.ids
  BY <1>1, <1>3, SessionParts, SessionMade
<1>5. session' = s /\ mode' = mode /\ row' = row /\ reader' = "read"
  BY <1>2 DEF WritePlaces, shelf
<1>6. BenchTypes'
  BY <1>1, <1>4, <1>5, SameMode DEF BenchInv, BenchTypes
<1>7. ReadIsOfAPair'
  BY <1>5 DEF ReadIsOfAPair
<1>8. PlacesFit'
  BY <1>2, <1>4, <1>5, SameMode DEF PlacesFit
<1>9. QED
  BY <1>6, <1>7, <1>8 DEF BenchInv

\* A broken champion hands its crown on.
LEMMA CrownNextKeeps ==
  ASSUME BenchInv, CrownNext PROVE BenchInv'
<1>1. PICK p \in SeenPlaces : /\ seen = p /\ p.index < Len(p.ids) /\ Bracket
                              /\ p.champion < Len(p.ids) => row[At(p.ids, p.champion)] # "readable"
  BY DEF CrownNext, BenchInv, ReadIsOfAPair
<1>2. session \in BenchSessions
  BY ReadHasSession DEF CrownNext
<1>3. WritePlaces(p.index + 1, p.index) /\ p.index \in Nat /\ p.index + 1 \in Nat
  BY <1>1 DEF CrownNext, SeenPlaces
<1>4. ASSUME ~adrift' PROVE Fits([session EXCEPT !.index = p.index + 1, !.champion = p.index],
                                 Out(session.ids, row))
  <2>1. ~adrift /\ Places = p
    BY <1>1, <1>3, <1>4 DEF WritePlaces
  <2>2. PICK l, i, x, h, r, out :
          /\ l = session.ids /\ i = session.index /\ x = session.champion /\ h = session.history
          /\ r = session.redo /\ out = Out(session.ids, row)
    OBVIOUS
  <2>3. /\ l \in Seq(BenchImages) /\ i \in Nat /\ x \in Nat
        /\ h \in Seq(BracketEntries) /\ r \in Seq(BracketEntries)
    BY <1>1, <1>2, <2>2, SessionParts
  <2>4. p.ids = l /\ p.index = i /\ p.champion = x
    BY <2>1, <2>2 DEF Places
  <2>5. i < Len(l) /\ x \in out
    BY <1>1, <2>2, <2>3, <2>4 DEF Out
  <2>6. BracketFits(l, h, r, x, i, out)
    BY <1>1, <1>2, <2>1, <2>2 DEF BenchInv, PlacesFit, Fits
  <2>7. BracketFits(l, h, r, i, i + 1, out)
    BY <2>3, <2>5, <2>6, BracketReads
  <2>8. [session EXCEPT !.index = p.index + 1, !.champion = p.index]
          = [ids |-> l, index |-> i + 1, champion |-> i, history |-> h, redo |-> r]
    BY <1>2, <2>2, <2>4, PlacesChanged
  <2>9. QED
    BY <1>1, <2>2, <2>7, <2>8 DEF Fits
<1>5. QED
  BY <1>3, <1>4, WriteKeeps DEF CrownNext

\* A broken challenger, or a broken picture of a cull, is passed.
LEMMA PassNextKeeps ==
  ASSUME BenchInv, PassNext PROVE BenchInv'
<1>1. PICK p \in SeenPlaces :
        seen = p /\ p.index < Len(p.ids) /\ row[At(p.ids, p.index)] # "readable"
  BY DEF PassNext, BenchInv, ReadIsOfAPair
<1>2. session \in BenchSessions
  BY ReadHasSession DEF PassNext
<1>3. /\ WritePlaces(p.index + 1, session.champion) /\ p.index \in Nat /\ p.index + 1 \in Nat
      /\ session.champion \in Nat
  BY <1>1, <1>2, SessionParts DEF PassNext, SeenPlaces
<1>4. ASSUME ~adrift'
      PROVE  Fits([session EXCEPT !.index = p.index + 1, !.champion = session.champion],
                  Out(session.ids, row))
  <2>1. ~adrift /\ Places = p
    BY <1>1, <1>3, <1>4 DEF WritePlaces
  <2>2. PICK l, i, x, h, r, out :
          /\ l = session.ids /\ i = session.index /\ x = session.champion /\ h = session.history
          /\ r = session.redo /\ out = Out(session.ids, row)
    OBVIOUS
  <2>3. /\ l \in Seq(BenchImages) /\ i \in Nat /\ x \in Nat
        /\ Bracket => h \in Seq(BracketEntries) /\ r \in Seq(BracketEntries)
        /\ ~Bracket => h \in Seq(CullEntries) /\ r \in Seq(CullEntries)
    BY <1>2, <2>2, SessionParts
  <2>4. p.ids = l /\ p.index = i
    BY <2>1, <2>2 DEF Places
  <2>5. i < Len(l) /\ i \in out
    BY <1>1, <2>2, <2>3, <2>4 DEF Out
  <2>6. Fits(session, out)
    BY <1>2, <2>1, <2>2 DEF BenchInv, PlacesFit
  <2>7. [session EXCEPT !.index = p.index + 1, !.champion = session.champion]
          = [ids |-> l, index |-> i + 1, champion |-> x, history |-> h, redo |-> r]
    BY <1>2, <2>2, <2>4, PlacesChanged
  <2>8. CASE Bracket
    <3>1. BracketFits(l, h, r, x, i, out)
      BY <2>2, <2>6, <2>8 DEF Fits
    <3>2. BracketFits(l, h, r, x, i + 1, out)
      BY <2>3, <2>5, <2>8, <3>1, BracketReads
    <3>3. QED
      BY <2>2, <2>7, <2>8, <3>2 DEF Fits
  <2>9. CASE ~Bracket
    <3>1. CullFits(l, h, r, i, out)
      BY <2>2, <2>6, <2>9 DEF Fits
    <3>2. CullFits(l, h, r, i + 1, out)
      BY <2>3, <2>5, <2>9, <3>1, CullReads
    <3>3. QED
      BY <2>2, <2>7, <2>9, <3>2 DEF Fits
  <2>10. QED
    BY <2>8, <2>9
<1>5. QED
  BY <1>3, <1>4, WriteKeeps DEF PassNext

\* The program comes back.
LEMMA CrashAndReopenKeeps ==
  ASSUME BenchInv, CrashAndReopen PROVE BenchInv'
<1>1. /\ mode' = mode /\ row' = row /\ reader' = "idle"
      /\ session' = IF ~Reopens THEN NoBench ELSE IF Bracket THEN RestoredBracket ELSE RestoredCull
      /\ adrift' = (Reopens /\ ~Bracket /\ (adrift \/ ~Whole))
  BY DEF CrashAndReopen, shelf
<1>2. ReadIsOfAPair'
  BY <1>1 DEF ReadIsOfAPair
<1>3. /\ session' \in BenchSessions \/ session' = NoBench
      /\ session' \in BenchSessions => Unique(session'.ids)
      /\ session' \in BenchSessions /\ ~adrift' => Fits(session', Out(session'.ids, row))
  <2>1. CASE ~Reopens
    BY <1>1, <2>1, NotASession
  <2>2. CASE Reopens /\ Bracket
    <3>1. session \in BenchSessions /\ Unique(session.ids)
      BY <2>2, SessionFits DEF Reopens
    <3>2. PICK s : s = RestoredBracket
      OBVIOUS
    <3>3. /\ s \in BenchSessions /\ Unique(s.ids)
          /\ BracketFits(s.ids, s.history, s.redo, s.champion, s.index, Out(s.ids, row))
      BY <2>2, <3>1, <3>2, RestoredBracketFits
    <3>4. session' = s
      BY <1>1, <2>2, <3>2
    <3>5. QED
      BY <2>2, <3>3, <3>4 DEF Fits
  <2>3. CASE Reopens /\ ~Bracket
    <3>1. session \in BenchSessions /\ Unique(session.ids)
      BY <2>3, SessionFits DEF Reopens
    <3>2. PICK s : s = RestoredCull
      OBVIOUS
    <3>3. s \in BenchSessions /\ Unique(s.ids)
      BY <3>1, <3>2, RestoredCullTypes
    <3>4. session' = s
      BY <1>1, <2>3, <3>2
    <3>5. ASSUME ~adrift' PROVE Fits(s, Out(s.ids, row))
      <4>1. ~adrift /\ Whole
        BY <1>1, <2>3, <3>5
      <4>2. PICK out : out = Out(session.ids, row)
        OBVIOUS
      <4>3. CullFits(session.ids, session.history, session.redo, session.index, out)
        BY <2>3, <3>1, <4>1, <4>2 DEF BenchInv, PlacesFit, Fits
      <4>4. s.ids = session.ids /\ CullFits(s.ids, s.history, s.redo, s.index, out)
        BY <2>3, <3>1, <3>2, <4>1, <4>3, RestoredCullFits
      <4>5. QED
        BY <2>3, <4>2, <4>4 DEF Fits
    <3>6. QED
      BY <3>3, <3>4, <3>5
  <2>4. QED
    BY <2>1, <2>2, <2>3
<1>4. BenchTypes'
  BY <1>1, <1>3, SameMode DEF BenchInv, BenchTypes
<1>5. PlacesFit'
  BY <1>1, <1>3, SameMode DEF PlacesFit
<1>6. QED
  BY <1>2, <1>4, <1>5 DEF BenchInv

\* Every step keeps the invariant.
LEMMA BenchInvariance == BenchInv /\ [BenchNext]_bench => BenchInv'
<1> SUFFICES ASSUME BenchInv, [BenchNext]_bench PROVE BenchInv'
  OBVIOUS
<1>1. ASSUME NEW l \in BenchLists, Open(l) PROVE BenchInv'
  BY <1>1, OpenKeeps
<1>2. ASSUME NEW choice \in Answers[mode], Choose(choice) PROVE BenchInv'
  BY <1>2, ChooseKeeps
<1>3. CASE UndoChoice
  BY <1>3, UndoChoiceKeeps
<1>4. CASE RedoChoice
  BY <1>4, RedoChoiceKeeps
<1>5. CASE ReadStep
  BY <1>5, BeginReadKeeps, ReadPlacesKeeps, LookAtChampionKeeps, LookAtNextKeeps,
     LookAtWinnerKeeps, CrownNextKeeps, PassNextKeeps DEF ReadStep
<1>6. CASE CrashAndReopen
  BY <1>6, CrashAndReopenKeeps
<1>7. ASSUME NEW i \in BenchImages, Spoil(i) PROVE BenchInv'
  BY <1>7, SpoilKeeps
<1>8. CASE UNCHANGED bench
  <2>1. /\ mode' = mode /\ session' = session /\ reader' = reader /\ seen' = seen /\ row' = row
        /\ adrift' = adrift
    BY <1>8 DEF bench, shelf
  <2>2. BenchTypes' /\ PlacesFit'
    BY <2>1, SameMode DEF BenchInv, BenchTypes, PlacesFit
  <2>3. ReadIsOfAPair'
    BY <2>1, SameMode DEF BenchInv, ReadIsOfAPair
  <2>4. QED
    BY <2>2, <2>3 DEF BenchInv
<1>9. QED
  BY <1>1, <1>2, <1>3, <1>4, <1>5, <1>6, <1>7, <1>8 DEF BenchNext

\* In every state of every bracket and cull the session is one, and its places, history
\* and redo stack fit each other until a read or a restart has set it adrift.
THEOREM BenchFits == BenchSpec => []BenchInv
<1>1. BenchInit => BenchInv
  BY BenchStarts
<1>2. BenchInv /\ [BenchNext]_bench => BenchInv'
  BY BenchInvariance
<1>3. QED
  BY <1>1, <1>2, PTL DEF BenchSpec

------------------------------------------------------------------------------
(* What the invariant says                                                    *)

\* The champion is behind the cursor and has lost to nobody.
THEOREM UnbeatenChampion == BenchSpec => []ChampionIsUnbeaten
<1>1. BenchInv => ChampionIsUnbeaten
  <2>1. SUFFICES ASSUME BenchInv, session # NoBench, Bracket, ~adrift
                 PROVE  /\ session.champion < session.index
                        /\ \A k \in DOMAIN session.history :
                             ~Loses(session.champion, session.history[k])
    BY DEF ChampionIsUnbeaten
  <2>2. session \in BenchSessions /\ Fits(session, Out(session.ids, row))
    BY <2>1, SessionFits
  <2>3. PICK h, r, x : h = session.history /\ r = session.redo /\ x = session.champion
    OBVIOUS
  <2>4. h \in Seq(BracketEntries) /\ r \in Seq(BracketEntries)
    BY <2>1, <2>2, <2>3, SessionParts
  <2>5. Follows(Line(h, r), Len(h), x, session.index, Out(session.ids, row))
    BY <2>1, <2>2, <2>3 DEF Fits, BracketFits
  <2>6. DOMAIN h = 1..Len(h) /\ \A k \in 1..Len(h) : Line(h, r)[k] = h[k]
    <3>1. DOMAIN h = 1..Len(h)
      BY <2>4
    <3>2. \A k \in 1..Len(h) : Line(h, r)[k] = h[k]
      BY <2>4, LineType
    <3>3. QED
      BY <3>1, <3>2
  <2>7. x < session.index /\ \A k \in 1..Len(h) : ~Loses(x, Line(h, r)[k])
    BY <2>5 DEF Follows
  <2>8. QED
    BY <2>3, <2>6, <2>7
<1>2. QED
  BY <1>1, BenchFits, PTL

\* Whoever is behind the cursor was decided, is the champion or is out.
THEOREM NobodyPassedOver == BenchSpec => []NobodyIsPassedOver
<1>1. BenchInv => NobodyIsPassedOver
  <2>1. SUFFICES ASSUME BenchInv, session # NoBench, ~adrift,
                        NEW p \in 0..Len(session.ids) - 1, p < session.index
                 PROVE  \/ Decided(p) \/ (Bracket /\ p = session.champion)
                        \/ row[Picture(p)] # "readable"
    BY DEF NobodyIsPassedOver
  <2>2. session \in BenchSessions /\ Fits(session, Out(session.ids, row))
    BY <2>1, SessionFits
  <2>3. PICK l, h, r, i, x, out :
          /\ l = session.ids /\ h = session.history /\ r = session.redo
          /\ i = session.index /\ x = session.champion /\ out = Out(session.ids, row)
    OBVIOUS
  <2>4. /\ l \in Seq(BenchImages) /\ i \in Nat /\ p \in 0..i - 1 /\ p \in Nat /\ p < Len(l)
        /\ Bracket => h \in Seq(BracketEntries) /\ r \in Seq(BracketEntries)
        /\ ~Bracket => h \in Seq(CullEntries) /\ r \in Seq(CullEntries)
    BY <2>1, <2>2, <2>3, SessionParts
  <2>5. p \in out => row[Picture(p)] # "readable"
    BY <2>3, <2>4 DEF Out, Picture
  <2>6. CASE Bracket
    <3>1. Follows(Line(h, r), Len(h), x, i, out)
      BY <2>2, <2>3, <2>6 DEF Fits, BracketFits
    <3>2. DOMAIN h = 1..Len(h) /\ \A k \in 1..Len(h) : Line(h, r)[k] = h[k]
      <4>1. h \in Seq(BracketEntries) /\ r \in Seq(BracketEntries)
        BY <2>4, <2>6
      <4>2. DOMAIN h = 1..Len(h)
        BY <4>1
      <4>3. \A k \in 1..Len(h) : Line(h, r)[k] = h[k]
        BY <4>1, LineType
      <4>4. QED
        BY <4>2, <4>3
    <3>3. \/ p = x \/ p \in out
          \/ \E j \in 1..Len(h) : p = Line(h, r)[j].champion \/ p = Line(h, r)[j].at
      BY <2>4, <3>1 DEF Follows
    <3>4. (\E j \in DOMAIN h : p \in {h[j].champion, h[j].at}) => Decided(p)
      BY <2>3, <2>6 DEF Decided
    <3>5. QED
      BY <2>3, <2>5, <2>6, <3>2, <3>3, <3>4
  <2>7. CASE ~Bracket
    <3>1. Covers(Line(h, r), Len(h), i, out) /\ CullFits(l, h, r, i, out)
      BY <2>2, <2>3, <2>7 DEF Fits, CullFits
    <3>2. DOMAIN h = 1..Len(h) /\ \A k \in 1..Len(h) : Line(h, r)[k] = h[k]
      <4>1. h \in Seq(CullEntries) /\ r \in Seq(CullEntries)
        BY <2>4, <2>7
      <4>2. DOMAIN h = 1..Len(h)
        BY <4>1
      <4>3. \A k \in 1..Len(h) : Line(h, r)[k] = h[k]
        BY <4>1, LineType
      <4>4. QED
        BY <4>2, <4>3
    <3>3. p \in out \/ \E j \in 1..Len(h) : p = h[j].at
      BY <2>4, <3>1, <3>2 DEF Covers
    <3>4. \A j \in 1..Len(h) : h[j].image = At(l, h[j].at)
      BY <2>4, <2>7, <3>1, CullApart
    <3>5. (\E j \in DOMAIN h : h[j].image = At(l, p)) => Decided(p)
      BY <2>3, <2>7 DEF Decided, Picture
    <3>6. QED
      BY <2>5, <3>2, <3>3, <3>4, <3>5
  <2>8. QED
    BY <2>6, <2>7
<1>2. QED
  BY <1>1, BenchFits, PTL

------------------------------------------------------------------------------
(* A restart tells of the same decisions                                      *)

\* Entries of either stack are entries of both.
LEMMA StacksJoin ==
  ASSUME NEW S, NEW h \in Seq(S), NEW r \in Seq(S)
  PROVE  /\ \A k \in DOMAIN h : h[k] \in ToSet(h \o r)
         /\ \A k \in DOMAIN r : r[k] \in ToSet(h \o r)
<1>1. Len(h) \in Nat /\ Len(r) \in Nat /\ DOMAIN h = 1..Len(h) /\ DOMAIN r = 1..Len(r)
  OBVIOUS
<1>2. /\ h \o r \in Seq(S) /\ Len(h \o r) = Len(h) + Len(r)
      /\ \A i \in 1..Len(h) + Len(r) : (h \o r)[i] = IF i <= Len(h) THEN h[i] ELSE r[i - Len(h)]
  BY ConcatProperties
<1>3. PICK u : u = h \o r
  OBVIOUS
<1>4. DOMAIN u = 1..Len(h) + Len(r)
  BY <1>2, <1>3
<1>5. \A k \in DOMAIN u : u[k] \in ToSet(u)
  BY DEF ToSet
<1>6. \A k \in 1..Len(h) : k \in DOMAIN u /\ u[k] = h[k]
  BY <1>1, <1>2, <1>3, <1>4
<1>7. \A k \in 1..Len(r) : Len(h) + k \in DOMAIN u /\ u[Len(h) + k] = r[k]
  <2>1. TAKE k \in 1..Len(r)
  <2>2. Len(h) + k \in 1..Len(h) + Len(r) /\ ~(Len(h) + k <= Len(h)) /\ Len(h) + k - Len(h) = k
    BY <1>1
  <2>3. QED
    BY <1>2, <1>3, <1>4, <2>2
<1>8. QED
  BY <1>1, <1>3, <1>5, <1>6, <1>7

\* A cull whose decided pictures are there keeps its history.
LEMMA CullKeepsHistory ==
  ASSUME session \in BenchSessions, Unique(session.ids), ~Bracket, NEW out,
         CullFits(session.ids, session.history, session.redo, session.index, out),
         \A i \in Named : Remains(i)
  PROVE  RestoredCull.history = session.history
<1>1. PICK l, i, h, r : /\ l = session.ids /\ i = session.index
                        /\ h = session.history /\ r = session.redo
  OBVIOUS
<1>2. /\ l \in Seq(BenchImages) /\ i \in Nat /\ h \in Seq(CullEntries) /\ r \in Seq(CullEntries)
      /\ DOMAIN h = 1..Len(h)
  BY <1>1, SessionParts
<1>3. \A k \in 1..Len(h) : /\ h[k].at < Len(l) /\ h[k].image = At(l, h[k].at) /\ h[k].at < i
  BY <1>1, <1>2, CullApart DEF Covers
<1>4. \A k \in 1..Len(h) : h[k].at \in Nat
  <2>1. \A e \in CullEntries : e.at \in Nat
    BY DEF CullEntries
  <2>2. \A k \in 1..Len(h) : h[k] \in CullEntries
    BY <1>2
  <2>3. QED
    BY <2>1, <2>2
<1>5. ASSUME NEW k \in 1..Len(h) PROVE Remains(h[k].image) /\ Place(h[k].image) < i
  <2>1. h[k].image \in Named
    BY <1>1, <1>2, StacksJoin DEF Named
  <2>2. Place(Picture(h[k].at)) = h[k].at
    BY <1>1, <1>2, <1>3, <1>4, PlaceFound
  <2>3. Picture(h[k].at) = h[k].image
    BY <1>1, <1>3 DEF Picture
  <2>4. QED
    BY <1>3, <2>1, <2>2, <2>3
<1>6. Past = DOMAIN h
  BY <1>1, <1>2, <1>5 DEF Past
<1>7. Pick(h, Past) = h
  BY <1>2, <1>6, PickAll
<1>8. QED
  BY <1>1, <1>7 DEF RestoredCull

\* In a bracket a place of the list is out or stands.
LEMMA OutOrStanding ==
  ASSUME Bracket, NEW p \in Nat, p + 1 \in Standing
  PROVE  p \notin Out(session.ids, row)
<1>1. p + 1 \in DOMAIN session.ids /\ Remains(session.ids[p + 1])
  BY DEF Standing
<1>2. row[session.ids[p + 1]] = "readable"
  BY <1>1 DEF Remains
<1>3. CASE p < Len(session.ids)
  BY <1>2, <1>3 DEF Out, At
<1>4. QED
  BY <1>1, <1>3 DEF Out

\* If all pictures of a line of entries stand, as many stand up to the places that follow
\* from its first k entries as there are pictures in these.
LEMMA LineCounts ==
  ASSUME Bracket, session.ids \in Seq(BenchImages), NEW t, NEW N \in Nat,
         \A k \in 1..N : /\ t[k] \in BracketEntries
                         /\ t[k].champion + 1 \in Standing /\ t[k].at + 1 \in Standing
                         /\ Follows(t, k - 1, t[k].champion, t[k].at, Out(session.ids, row)),
         NEW k \in 0..N, NEW x \in Nat, NEW i \in Nat, x + 1 \in Standing,
         Follows(t, k, x, i, Out(session.ids, row))
  PROVE  Left(i) = k + 1 /\ Left(x) = IF k = 0 THEN 0 ELSE Left(Crowned(t[k]))
<1>1. PICK out, T : out = Out(session.ids, row) /\ T = Standing
  OBVIOUS
<1>2. /\ \A p \in Nat : p + 1 \in T => p \notin out
      /\ T \subseteq Nat \ {0}
      /\ \A m \in T : m - 1 \in Nat /\ (m - 1) + 1 = m
      /\ T \in SUBSET (1..Len(session.ids)) /\ Len(session.ids) \in Nat
  <2>1. \A p \in Nat : p + 1 \in T => p \notin out
    BY <1>1, OutOrStanding
  <2>2. Len(session.ids) \in Nat /\ DOMAIN session.ids = 1..Len(session.ids)
    OBVIOUS
  <2>3. T \in SUBSET (1..Len(session.ids))
    BY <1>1, <2>2, LeftCounts
  <2>4. QED
    BY <2>1, <2>2, <2>3
<1>3. \A n \in Nat : /\ Left(n) = Cardinality({m \in T : m <= n})
                     /\ IsFiniteSet({m \in T : m <= n})
  <2>1. IsFiniteSet(T)
    <3>1. PICK n \in Nat : n = Len(session.ids)
      BY <1>2
    <3>2. IsFiniteSet(1..n)
      BY FS_Interval
    <3>3. QED
      BY <1>2, <3>1, <3>2, FS_Subset
  <2>2. \A n \in Nat : {m \in T : m <= n} \in SUBSET T
    OBVIOUS
  <2>3. QED
    BY <1>1, <2>1, <2>2, FS_Subset DEF Left
<1>4. \A n \in 1..N : /\ t[n].champion \in Nat /\ t[n].at \in Nat
                      /\ t[n].champion + 1 \in T /\ t[n].at + 1 \in T
                      /\ Follows(t, n - 1, t[n].champion, t[n].at, out)
                      /\ Crowned(t[n]) \in {t[n].champion, t[n].at}
  <2>1. \A e \in BracketEntries : e.champion \in Nat /\ e.at \in Nat
    BY DEF BracketEntries
  <2>2. QED
    BY <1>1, <2>1 DEF Crowned
<1>5. ASSUME NEW y \in Nat, NEW j \in Nat, y + 1 \in T, Follows(t, 0, y, j, out)
      PROVE  Left(j) = 1 /\ Left(y) = 0
  <2>1. y < j /\ \A p \in 0..j - 1 : p = y \/ p \in out
    BY <1>5 DEF Follows
  <2>2. {m \in T : m <= j} = {y + 1}
    <3>1. ASSUME NEW m \in T, m <= j PROVE m = y + 1
      <4>1. m - 1 \in 0..j - 1 /\ m - 1 \notin out
        BY <1>2, <3>1
      <4>2. QED
        BY <1>2, <2>1, <4>1
    <3>2. y + 1 <= j
      BY <2>1
    <3>3. QED
      BY <1>5, <3>1, <3>2
  <2>3. {m \in T : m <= y} = {}
    <3>1. ASSUME NEW m \in T, m <= y PROVE FALSE
      <4>1. m - 1 \in 0..j - 1 /\ m - 1 \notin out /\ m - 1 # y
        BY <1>2, <2>1, <3>1
      <4>2. QED
        BY <2>1, <4>1
    <3>2. QED
      BY <3>1
  <2>4. QED
    BY <1>3, <2>2, <2>3, FS_EmptySet, FS_Singleton
<1>6. ASSUME NEW n \in 1..N, NEW y \in Nat, NEW j \in Nat, y + 1 \in T,
             Follows(t, n, y, j, out), Left(t[n].at) = n
      PROVE  Left(j) = n + 1 /\ Left(y) = Left(Crowned(t[n]))
  <2>1. PICK w, z : w = t[n].champion /\ z = t[n].at
    OBVIOUS
  <2>2. /\ w \in Nat /\ z \in Nat /\ w + 1 \in T /\ z + 1 \in T /\ w < z
        /\ \A m \in 1..n - 1 : t[m].champion < t[m].at /\ t[m].at < z
    BY <1>4, <2>1 DEF Follows
  <2>3. y = Crowned(t[n]) /\ y \in {w, z}
    <3>1. y = Crowned(t[n]) \/ Crowned(t[n]) \in out
      BY <1>6 DEF Follows
    <3>2. Crowned(t[n]) \notin out
      BY <1>2, <1>4, <2>1, <2>2
    <3>3. QED
      BY <1>4, <2>1, <3>1, <3>2
  <2>4. z < j /\ \A p \in 0..j - 1 : \/ p = y \/ p \in out
                                     \/ \E m \in 1..n : p = t[m].champion \/ p = t[m].at
    <3>1. n \in 1..n
      OBVIOUS
    <3>2. QED
      BY <1>6, <2>1, <3>1 DEF Follows
  <2>5. ASSUME NEW m \in T, m <= j PROVE m <= z \/ m = z + 1
    <3>1. m - 1 \in 0..j - 1 /\ m - 1 \notin out
      BY <1>2, <2>5
    <3>2. m - 1 = y => m - 1 <= z
      BY <1>2, <2>2, <2>3
    <3>3. ASSUME NEW q \in 1..n, m - 1 = t[q].champion \/ m - 1 = t[q].at PROVE m - 1 <= z
      <4>1. CASE q = n
        BY <2>1, <2>2, <3>3, <4>1
      <4>2. CASE q # n
        <5>1. q \in 1..n - 1 /\ q \in 1..N
          BY <4>2
        <5>2. t[q].champion < t[q].at /\ t[q].at < z /\ t[q].champion \in Nat /\ t[q].at \in Nat
          BY <1>4, <2>2, <5>1
        <5>3. QED
          BY <2>2, <3>3, <5>2
      <4>3. QED
        BY <4>1, <4>2
    <3>4. m - 1 <= z
      <4>1. \/ m - 1 = y \/ m - 1 \in out
            \/ \E q \in 1..n : m - 1 = t[q].champion \/ m - 1 = t[q].at
        BY <2>4, <3>1
      <4>2. QED
        BY <3>1, <3>2, <3>3, <4>1
    <3>5. QED
      BY <1>2, <2>2, <3>4
  <2>6. {m \in T : m <= j} = {m \in T : m <= z} \cup {z + 1}
    <3>1. z + 1 \in T /\ z + 1 <= j
      BY <2>2, <2>4
    <3>2. \A m \in T : m <= z => m <= j
      BY <1>2, <2>2, <2>4
    <3>3. QED
      BY <2>5, <3>1, <3>2
  <2>7. z + 1 \notin {m \in T : m <= z}
    BY <2>2
  <2>8. PICK B : B = {m \in T : m <= z}
    OBVIOUS
  <2>9. IsFiniteSet(B) /\ Cardinality(B) = n /\ z + 1 \notin B
    BY <1>3, <1>6, <2>1, <2>2, <2>7, <2>8
  <2>10. Cardinality(B \cup {z + 1}) = Cardinality(B) + 1
    BY <2>9, FS_AddElement
  <2>11. Left(j) = n + 1
    BY <1>3, <2>6, <2>8, <2>9, <2>10
  <2>12. QED
    BY <2>3, <2>11
<1> DEFINE Good == {n \in Nat : n <= N => \A y, j \in Nat :
                                  y + 1 \in T /\ Follows(t, n, y, j, out) => Left(j) = n + 1}
<1>7. 0 \in Good
  BY <1>5
<1>8. ASSUME NEW n \in Nat, n \in Good PROVE n + 1 \in Good
  <2>1. SUFFICES ASSUME n + 1 <= N, NEW y \in Nat, NEW j \in Nat, y + 1 \in T,
                        Follows(t, n + 1, y, j, out)
                 PROVE  Left(j) = (n + 1) + 1
    OBVIOUS
  <2>2. n + 1 \in 1..N /\ (n + 1) - 1 = n /\ n <= N
    BY <2>1
  <2>3. Left(t[n + 1].at) = n + 1
    BY <1>4, <1>8, <2>2
  <2>4. QED
    BY <1>6, <2>1, <2>2, <2>3
<1>9. Nat \subseteq Good
  BY <1>7, <1>8, Induction
<1>10. Left(i) = k + 1
  <2>1. k \in Good /\ k <= N
    BY <1>9
  <2>2. QED
    BY <1>1, <2>1
<1>11. CASE k = 0
  BY <1>1, <1>5, <1>10, <1>11
<1>12. CASE k # 0
  <2>1. k \in 1..N /\ k - 1 \in Nat /\ k - 1 <= N /\ (k - 1) + 1 = k
    BY <1>12
  <2>2. Left(t[k].at) = k
    BY <1>4, <1>9, <2>1
  <2>3. QED
    BY <1>1, <1>6, <1>10, <1>12, <2>1, <2>2
<1>13. QED
  BY <1>11, <1>12

\* Where no picture of a stack is gone, all its entries come back, rebased.
LEMMA AllRebased ==
  ASSUME NEW h \in Seq(BracketEntries),
         \A k \in 1..Len(h) : Remains(Picture(h[k].champion)) /\ Remains(Picture(h[k].at))
  PROVE  /\ Len(Rebased(h)) = Len(h) /\ DOMAIN Rebased(h) = 1..Len(h)
         /\ \A k \in 1..Len(h) : Rebased(h)[k] = Rebase(h[k])
<1>1. Len(h) \in Nat /\ DOMAIN h = 1..Len(h)
  OBVIOUS
<1>2. Kept(h) = h
  <2>1. DOMAIN h \subseteq {k \in DOMAIN h : /\ Remains(Picture(h[k].champion))
                                             /\ Remains(Picture(h[k].at))}
    BY <1>1
  <2>2. QED
    BY <2>1, PickAll DEF Kept
<1>3. Rebased(h) = [k \in 1..Len(h) |-> Rebase(h[k])]
  BY <1>1, <1>2 DEF Rebased
<1>4. PICK n, f : n \in Nat /\ n = Len(h) /\ f = [k \in 1..n |-> Rebase(h[k])]
  BY <1>1
<1> n \in Nat
  BY <1>4
<1>5. Len(f) = n /\ DOMAIN f = 1..n
  BY <1>4
<1>6. QED
  BY <1>3, <1>4, <1>5

\* What a bracket that comes back tells of such a stack.
LEMMA RebasedTells ==
  ASSUME session.ids \in Seq(BenchImages), Bracket, NEW h \in Seq(BracketEntries), NEW s,
         s.ids = StandingIds,
         \A k \in 1..Len(h) : /\ Remains(Picture(h[k].champion)) /\ Remains(Picture(h[k].at))
                              /\ h[k].champion + 1 \in Standing /\ h[k].at + 1 \in Standing
  PROVE  Told(s, Rebased(h)) = Told(session, h)
<1>1. /\ DOMAIN h = 1..Len(h) /\ DOMAIN Rebased(h) = 1..Len(h)
      /\ \A k \in 1..Len(h) : Rebased(h)[k] = Rebase(h[k])
  BY AllRebased
<1>2. ASSUME NEW k \in 1..Len(h) PROVE About(s, Rebased(h)[k]) = About(session, h[k])
  <2>1. PICK e \in BracketEntries : e = h[k]
    OBVIOUS
  <2>2. e.champion \in Nat /\ e.at \in Nat
    BY DEF BracketEntries
  <2>3. /\ At(StandingIds, Left(e.champion)) = Picture(e.champion)
        /\ At(StandingIds, Left(e.at)) = Picture(e.at)
    BY <2>1, <2>2, LeftFinds
  <2>4. /\ Rebased(h)[k].action = e.action /\ Rebased(h)[k].champion = Left(e.champion)
        /\ Rebased(h)[k].at = Left(e.at)
    BY <1>1, <2>1 DEF Rebase
  <2>5. QED
    BY <2>1, <2>3, <2>4 DEF About, Picture
<1>3. Told(s, Rebased(h)) = [k \in 1..Len(h) |-> About(s, Rebased(h)[k])]
  BY <1>1 DEF Told
<1>4. Told(session, h) = [k \in 1..Len(h) |-> About(session, h[k])]
  BY <1>1 DEF Told
<1>5. QED
  BY <1>2, <1>3, <1>4

\* A bracket whose named pictures are there is sound, and comes back as it was.
LEMMA BracketKeepsAll ==
  ASSUME session \in BenchSessions, Unique(session.ids), Bracket, session.ids # <<>>,
         BracketFits(session.ids, session.history, session.redo, session.champion,
                     session.index, Out(session.ids, row)),
         \A i \in Named : Remains(i)
  PROVE  /\ Told(RestoredBracket, RestoredBracket.history) = Told(session, session.history)
         /\ Told(RestoredBracket, RestoredBracket.redo) = Told(session, session.redo)
<1>1. PICK l, h, r, x, i, out :
        /\ l = session.ids /\ h = session.history /\ r = session.redo
        /\ x = session.champion /\ i = session.index /\ out = Out(session.ids, row)
  OBVIOUS
<1>2. /\ l \in Seq(BenchImages) /\ h \in Seq(BracketEntries) /\ r \in Seq(BracketEntries)
      /\ x \in Nat /\ i \in Nat /\ l # <<>>
  BY <1>1, SessionParts
<1>3. PICK t, n, N : /\ t = Line(h, r) /\ n = Len(h) /\ N = Len(h) + Len(r)
                     /\ n \in Nat /\ N \in Nat
  <2>1. Len(h) \in Nat /\ Len(h) + Len(r) \in Nat
    BY <1>2
  <2>2. PICK t, n, N : t = Line(h, r) /\ n = Len(h) /\ N = Len(h) + Len(r)
    OBVIOUS
  <2>3. n \in Nat /\ N \in Nat
    BY <2>1, <2>2
  <2>4. QED
    BY <2>2, <2>3
<1>4. /\ \A k \in 1..N : /\ Follows(t, k - 1, t[k].champion, t[k].at, out)
                         /\ t[k].at < Len(l)
      /\ Follows(t, n, x, i, out)
      /\ i <= Len(l)
  BY <1>1, <1>2, <1>3 DEF BracketFits
<1>5. /\ Len(h) \in Nat /\ Len(r) \in Nat /\ Len(l) \in Nat
      /\ DOMAIN h = 1..Len(h) /\ DOMAIN r = 1..Len(r) /\ DOMAIN l = 1..Len(l)
  BY <1>2
<1>6. \A e \in BracketEntries : e.champion \in Nat /\ e.at \in Nat
  BY DEF BracketEntries
<1>7. \A k \in 1..N : t[k] \in BracketEntries /\ t[k].champion \in Nat /\ t[k].at \in Nat
  BY <1>2, <1>3, BracketLine
<1>8. /\ \A k \in 1..Len(h) : t[k] = h[k] /\ k \in 1..N
      /\ \A k \in 1..Len(r) : t[N - k + 1] = r[k] /\ N - k + 1 \in 1..N
  <2>1. \A k \in 1..Len(h) : Line(h, r)[k] = h[k]
    BY <1>2, LineType
  <2>2. \A k \in 1..Len(r) : Line(h, r)[Len(h) + Len(r) - k + 1] = r[k]
    BY <1>2, LineType
  <2>3. (\A k \in 1..Len(h) : k \in 1..N) /\ \A k \in 1..Len(r) : N - k + 1 \in 1..N
    BY <1>3, <1>5
  <2>4. QED
    BY <1>3, <2>1, <2>2, <2>3
<1>9. \A p \in Nat : p < Len(l) /\ Remains(Picture(p)) => p + 1 \in Standing
  <2>1. TAKE p \in Nat
  <2>2. HAVE p < Len(l) /\ Remains(Picture(p))
  <2>3. p + 1 \in DOMAIN l
    BY <1>5, <2>2
  <2>4. QED
    BY <1>1, <2>2, <2>3 DEF Standing, Picture, At
<1>10. /\ \A k \in 1..Len(h) : Remains(Picture(h[k].champion)) /\ Remains(Picture(h[k].at))
       /\ \A k \in 1..Len(r) : Remains(Picture(r[k].champion)) /\ Remains(Picture(r[k].at))
       /\ Remains(Picture(x))
  <2>1. \A e \in ToSet(h \o r) : Picture(e.champion) \in Named /\ Picture(e.at) \in Named
    BY <1>1 DEF Named
  <2>2. Picture(x) \in Named
    BY <1>1 DEF Named
  <2>3. \A k \in 1..Len(h) : h[k] \in ToSet(h \o r)
    BY <1>2, <1>5, StacksJoin
  <2>4. \A k \in 1..Len(r) : r[k] \in ToSet(h \o r)
    BY <1>2, <1>5, StacksJoin
  <2>5. QED
    BY <2>1, <2>2, <2>3, <2>4
<1>11. \A k \in 1..N : t[k].champion < t[k].at /\ t[k].at < Len(l) /\ t[k].champion < Len(l)
  <2>1. TAKE k \in 1..N
  <2>2. t[k].champion \in Nat /\ t[k].at \in Nat
    BY <1>7
  <2>3. t[k].champion < t[k].at
    BY <1>4 DEF Follows
  <2>4. t[k].at < Len(l)
    BY <1>4
  <2>5. QED
    BY <1>5, <2>2, <2>3, <2>4
<1>12. /\ \A k \in 1..Len(h) : /\ h[k].champion + 1 \in Standing /\ h[k].at + 1 \in Standing
                               /\ h[k].champion < h[k].at /\ h[k].at < Len(l)
       /\ \A k \in 1..Len(r) : /\ r[k].champion + 1 \in Standing /\ r[k].at + 1 \in Standing
                               /\ r[k].champion < r[k].at /\ r[k].at < Len(l)
  BY <1>7, <1>8, <1>9, <1>10, <1>11
<1>13. x < Len(l) /\ x < i /\ x + 1 \in Standing
  <2>1. x < i
    BY <1>4 DEF Follows
  <2>2. x < Len(l)
    BY <1>2, <1>4, <1>5, <2>1
  <2>3. QED
    BY <1>2, <1>9, <1>10, <2>1, <2>2
<1>14. \A k \in 1..N : t[k].champion + 1 \in Standing /\ t[k].at + 1 \in Standing
  <2>1. TAKE k \in 1..N
  <2>2. k \in 1..Len(h) \/ (N - k + 1 \in 1..Len(r) /\ N - (N - k + 1) + 1 = k)
    BY <1>3, <1>5
  <2>3. QED
    BY <1>8, <1>12, <2>2
<1>15. \A k \in 0..N : \A y, j \in Nat : y + 1 \in Standing /\ Follows(t, k, y, j, out) =>
         Left(j) = k + 1 /\ Left(y) = IF k = 0 THEN 0 ELSE Left(Crowned(t[k]))
  <2>1. \A k \in 1..N : /\ t[k] \in BracketEntries
                         /\ t[k].champion + 1 \in Standing /\ t[k].at + 1 \in Standing
                         /\ Follows(t, k - 1, t[k].champion, t[k].at, Out(session.ids, row))
    BY <1>1, <1>4, <1>7, <1>14
  <2>2. session.ids \in Seq(BenchImages) /\ N \in Nat
    BY <1>1, <1>2, <1>3
  <2>3. TAKE k \in 0..N
  <2> TAKE y, j \in Nat
  <2>4. HAVE y + 1 \in Standing /\ Follows(t, k, y, j, out)
  <2>5. Follows(t, k, y, j, Out(session.ids, row))
    BY <1>1, <2>4
  <2>6. QED
    BY <2>1, <2>2, <2>4, <2>5, LineCounts
<1>16. PICK g, q : g = Rebased(h) /\ q = Rebased(r)
  OBVIOUS
<1>17. /\ Len(g) = Len(h) /\ \A k \in 1..Len(h) : g[k] = Rebase(h[k])
       /\ Len(q) = Len(r) /\ \A k \in 1..Len(r) : q[k] = Rebase(r[k])
  BY <1>2, <1>10, <1>16, AllRebased
<1>18. g \in Seq(BracketEntries) /\ q \in Seq(BracketEntries)
  BY <1>1, <1>2, <1>16, RebasedEntries
<1>19. PICK u : u = Line(g, q)
  OBVIOUS
<1>20. DOMAIN u = 1..N /\ \A k \in 1..N : u[k] = Rebase(t[k])
  <2>1. DOMAIN Line(g, q) = 1..Len(g) + Len(q)
    BY <1>18, LineType
  <2>2. ASSUME NEW k \in 1..N PROVE u[k] = Rebase(t[k])
    <3>1. /\ t[k] = IF k <= Len(h) THEN h[k] ELSE r[N - k + 1]
          /\ u[k] = IF k <= Len(g) THEN g[k] ELSE q[N - k + 1]
      BY <1>3, <1>17, <1>19, LineAt
    <3>2. CASE k <= Len(h)
      BY <1>5, <1>17, <3>1, <3>2
    <3>3. CASE ~(k <= Len(h))
      <4>1. N - k + 1 \in 1..Len(r)
        BY <1>3, <1>5, <3>3
      <4>2. QED
        BY <1>17, <3>1, <3>3, <4>1
    <3>4. QED
      BY <3>2, <3>3
  <2>3. QED
    BY <1>3, <1>17, <1>19, <2>1, <2>2
<1>21. \A e : /\ Rebase(e).at = Left(e.at) /\ Rebase(e).champion = Left(e.champion)
              /\ Crowned(Rebase(e)) = Left(Crowned(e))
  BY DEF Rebase, Crowned
<1>22. Continuous(u)
  <2>1. ASSUME NEW k \in 1..N PROVE u[k].at = k /\ u[k].champion = Champions(u, k - 1)
    <3>1. k - 1 \in 0..N /\ (k - 1) + 1 = k /\ (k - 1 # 0 => k - 1 \in 1..N)
      BY <1>3
    <3>2. /\ Left(t[k].at) = (k - 1) + 1
          /\ Left(t[k].champion) = IF k - 1 = 0 THEN 0 ELSE Left(Crowned(t[k - 1]))
      BY <1>4, <1>7, <1>14, <1>15, <3>1
    <3>3. u[k].at = k
      BY <1>20, <1>21, <3>1, <3>2
    <3>4. u[k].champion = IF k - 1 = 0 THEN 0 ELSE Crowned(u[k - 1])
      BY <1>20, <1>21, <3>1, <3>2
    <3>5. QED
      BY <3>3, <3>4 DEF Champions
  <2>2. QED
    BY <1>20, <2>1 DEF Continuous
<1>23. Left(i) = Len(g) + 1 /\ Left(x) = Champions(g, Len(g))
  <2>1. n \in 0..N /\ Len(g) = n
    BY <1>3, <1>5, <1>17
  <2>2. Left(i) = n + 1 /\ Left(x) = IF n = 0 THEN 0 ELSE Left(Crowned(t[n]))
    BY <1>2, <1>4, <1>13, <1>15, <2>1
  <2>3. n # 0 => n \in 1..Len(h) /\ Crowned(g[n]) = Left(Crowned(t[n]))
    BY <1>3, <1>8, <1>17, <1>21
  <2>4. QED
    BY <2>1, <2>2, <2>3 DEF Champions
<1>24. Sound
  <2>1. session.champion < Len(session.ids) /\ Remains(Picture(session.champion))
    BY <1>1, <1>10, <1>13
  <2>2. Left(session.champion) < Left(session.index)
    BY <1>1, <1>2, <1>13, LeftCounts
  <2>3. Valid(session.history) /\ Valid(session.redo)
    BY <1>1, <1>5, <1>12 DEF Valid
  <2>4. g \o Reverse(q) = u
    BY <1>18, <1>19, LineIsConcat
  <2>5. QED
    BY <1>1, <1>16, <1>22, <1>23, <2>1, <2>2, <2>3, <2>4 DEF Sound
<1>25. PICK s : s = RestoredBracket
  OBVIOUS
<1>26. s.ids = StandingIds /\ s.history = g /\ s.redo = q
  BY <1>1, <1>16, <1>24, <1>25 DEF RestoredBracket
<1>27. Told(s, Rebased(h)) = Told(session, h)
  BY <1>1, <1>2, <1>10, <1>12, <1>26, RebasedTells
<1>28. Told(s, Rebased(r)) = Told(session, r)
  BY <1>1, <1>2, <1>10, <1>12, <1>26, RebasedTells
<1>29. QED
  BY <1>1, <1>16, <1>25, <1>26, <1>27, <1>28

\* A restart keeps the history of a cull, and the history and the redo stack of a
\* bracket, as long as the pictures these name are there.
THEOREM DecisionsOutliveRestarts == BenchSpec => RestartKeepsDecisions
<1>1. ASSUME BenchInv, CrashAndReopen, session # NoBench, ~adrift, Reopens,
             \A i \in Named : Remains(i)
      PROVE  /\ Told(session', session'.history) = Told(session, session.history)
             /\ Bracket => Told(session', session'.redo) = Told(session, session.redo)
  <2>1. /\ session \in BenchSessions /\ Unique(session.ids)
        /\ Fits(session, Out(session.ids, row))
    BY <1>1, SessionFits
  <2>2. CASE Bracket
    <3>1. session.ids # <<>>
      <4>1. \A l : l = <<>> => ToSet(l) = {}
        BY DEF ToSet
      <4>2. QED
        BY <1>1, <4>1 DEF Reopens
    <3>2. session' = RestoredBracket
      BY <1>1, <2>2 DEF CrashAndReopen
    <3>3. BracketFits(session.ids, session.history, session.redo, session.champion,
                      session.index, Out(session.ids, row))
      BY <2>1, <2>2 DEF Fits
    <3>4. QED
      BY <1>1, <2>1, <2>2, <3>1, <3>2, <3>3, BracketKeepsAll
  <2>3. CASE ~Bracket
    <3>1. session' = RestoredCull
      BY <1>1, <2>3 DEF CrashAndReopen
    <3>2. CullFits(session.ids, session.history, session.redo, session.index,
                   Out(session.ids, row))
      BY <2>1, <2>3 DEF Fits
    <3>3. RestoredCull.history = session.history
      BY <1>1, <2>1, <2>3, <3>2, CullKeepsHistory
    <3>4. Told(session', session.history) = Told(session, session.history)
      BY <2>3 DEF Told, About
    <3>5. QED
      BY <2>3, <3>1, <3>3, <3>4
  <2>4. QED
    BY <2>2, <2>3
<1>2. BenchNext /\ benchCrashes' # benchCrashes => CrashAndReopen
  BY DEF BenchNext, Open, Choose, UndoChoice, RedoChoice, ReadStep, BeginRead, ReadPlaces,
     LookAtChampion, LookAtNext, LookAtWinner, Look, CrownNext, PassNext, WritePlaces, Spoil
<1>3. BenchInv /\ [BenchNext]_bench =>
        [ /\ benchCrashes' # benchCrashes /\ session # NoBench /\ ~adrift /\ Reopens
          /\ \A i \in Named : Remains(i)
          =>
            /\ Told(session', session'.history) = Told(session, session.history)
            /\ Bracket => Told(session', session'.redo) = Told(session, session.redo) ]_bench
  BY <1>1, <1>2 DEF bench
<1>4. QED
  BY <1>3, BenchFits, PTL DEF BenchSpec, RestartKeepsDecisions
==============================================================================
