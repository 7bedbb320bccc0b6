--------------------------- MODULE BatchMoveProofs ---------------------------
(***************************************************************************)
(* Proofs about BatchMove, for any finite set of pictures and any set of   *)
(* undos.  The invariant says what a file's place, its row and its line in *)
(* the journal can be at each step of the run that has it in hand          *)
(* (MoveIsTraced, UndoIsTraced), what they leave behind (TracesAgree), and *)
(* what an undo still knows of the files that are not back (UndosKnow).    *)
(***************************************************************************)
EXTENDS BatchMove, FiniteSetTheorems, TLAPS

SortIsOver == pc[Sort] \in {"closing", "ended"}

Begun == {"checked", "queued", "working", "file"}

\* A run has a picture in hand only inside a file step, and off its list.
HandsAreBusy ==
    \A r \in Runs : hand[r] # None => pc[r] = "file" /\ hand[r] \notin todo[r]

\* The count of the slot is that of the list, from its making to the end.
ListIsCounted ==
    /\ \A r \in Runs : pc[r] \in Begun =>
         left[r] = Cardinality(todo[r])
    /\ pc[Sort] = "new" => left[Sort] = Cardinality(todo[Sort])

\* A file not yet moved is at home, and one in the move run's hand has its line.
MoveIsTraced ==
    \A i \in Images :
      /\ i \in todo[Sort] \/ At(Sort, i, "taken") \/ At(Sort, i, "intended") =>
           place[i] = "home"
      /\ At(Sort, i, "intended") \/ At(Sort, i, "moved") =>
           journal[i] = "intent" /\ listed[i] \in {"home", "norow"}
      /\ At(Sort, i, "moved") =>
           place[i] \in Targets \cup {"home"} /\ <<i, "home">> \notin foreign
      /\ At(Sort, i, "listed") =>
           journal[i] # "none" /\ (place[i] \in Targets => listed[i] # "home")

\* A file an undo has just put back is at home, and the move run is past it.
UndoIsTraced ==
    \A u \in Undos, i \in Images : At(u, i, "restored") =>
      /\ place[i] = "home"
      /\ i \notin todo[Sort] /\ ~At(Sort, i, "taken") /\ ~At(Sort, i, "intended")

\* What is in the destination is in the journal, by its intent at least until
\* the library knows; what the library has under its own name there is there or
\* on its way home.
TracesAgree ==
    \A i \in Images :
      /\ place[i] \in Targets => journal[i] # "none" /\ (listed[i] = "home" => journal[i] = "intent")
      /\ listed[i] = "dest" => place[i] \in {"dest", "home"}

\* An undo that was not early has the whole journal, and what is still in the
\* destination it has before it, in hand, or among what it left alone.
UndosKnow ==
    ~early => \A u \in Undos : pc[u] \in Begun =>
      /\ SortIsOver
      /\ seen[u] = journal
      /\ \A i \in Images : place[i] \in Targets => i \in todo[u] \cup kept[u] \/ At(u, i, "taken")

\* The marker says that nothing is left to undo.
MarkerIsTrue == marked /\ ~early => SortIsOver /\ \A i \in Images : place[i] \notin Targets

IInv ==
    /\ TypeOK /\ HandsAreBusy /\ ListIsCounted /\ MoveIsTraced /\ UndoIsTraced
    /\ TracesAgree /\ ForeignFilesStay /\ UndosKnow /\ MarkerIsTrue
-----------------------------------------------------------------------------
(* What each step does to the slot *)

SlotVarsOK ==
    /\ status \in S!Statuses /\ epoch \in Nat
    /\ event \in Runs \cup {None} /\ stopped \subseteq Runs
    /\ late \subseteq Runs /\ tooLate \subseteq Runs
    /\ mine \in [Runs -> Nat]

\* The slot's types, seen from the batch move.
LEMMA SlotOK == S!TypeOK <=> SlotVarsOK /\ pc \in [Runs -> S!Pcs] /\ left \in [Runs -> Nat]
  BY DEF S!TypeOK, SlotVarsOK, S!Runs, Runs

\* Slot steps leave lists and counts alone, and nobody goes in or out of a file
\* step; a run that is over stays over, and one gets going from "new" only if it
\* is the move run.
SlotGoesOn ==
    /\ pc' \in [Runs -> S!Pcs]
    /\ \A r \in Runs :
         /\ pc[r] = "file" <=> pc'[r] = "file"
         /\ pc'[r] \in Begun => pc[r] \in Begun \/ (r = Sort /\ pc[r] = "new")
         /\ pc[r] \in {"closing", "ended"} => pc'[r] \in {"closing", "ended"}
         /\ pc'[r] = "new" => pc[r] = "new"

\* What the end of a run changes.
LEMMA CompleteShape ==
  ASSUME S!TypeOK, NEW r \in Runs, S!Complete(r)
  PROVE  SlotVarsOK' /\ SlotGoesOn /\ UNCHANGED left
<1> USE SlotOK DEF S!Statuses, S!Busy, S!Settled, S!Pcs, S!Goes, S!slot, S!ghosts
<1>1. /\ pc[r] = "working" /\ pc' = [pc EXCEPT ![r] = "closing"]
      /\ status' \in {status, "done"}
      /\ UNCHANGED <<epoch, event, stopped, mine, left, late, tooLate>>
  BY DEF S!Complete, S!Report
<1>2. QED
  BY <1>1 DEF SlotVarsOK, SlotGoesOn, Begun

\* What the steps of the slot change.
LEMMA SlotShape ==
  ASSUME S!TypeOK, SlotStep
  PROVE  /\ SlotVarsOK' /\ SlotGoesOn /\ UNCHANGED left
         /\ UNCHANGED <<files, work, robbed, early, dropped, crashes>>
<1>0. UNCHANGED <<files, work, robbed, early, dropped, crashes>>
  BY DEF SlotStep
<1>1. CASE \E r \in Runs : S!StartWork(r) \/ S!SeeCancel(r) \/ S!Fail(r) \/ S!Close(r)
                           \/ S!RefuseUndo(r)
  <2> PICK r \in Runs : S!StartWork(r) \/ S!SeeCancel(r) \/ S!Fail(r) \/ S!Close(r)
                        \/ S!RefuseUndo(r)
    BY <1>1
  <2> USE SlotOK DEF S!Statuses, S!Busy, S!Settled, S!Pcs, S!Goes, S!slot, S!ghosts
  <2>1. /\ \/ pc[r] = "queued" /\ pc' = [pc EXCEPT ![r] = "working"]
           \/ pc[r] = "working" /\ pc' = [pc EXCEPT ![r] = "closing"]
           \/ pc[r] \in {"closing", "checked"} /\ pc' = [pc EXCEPT ![r] = "ended"]
        /\ status' \in {status, "cancelled", "error"} /\ event' \in {event, None}
        /\ UNCHANGED <<epoch, stopped, mine, left, late, tooLate>>
    BY DEF S!StartWork, S!SeeCancel, S!Fail, S!Close, S!RefuseUndo, S!Report
  <2>2. QED
    BY <1>0, <2>1 DEF SlotVarsOK, SlotGoesOn, Begun
<1>2. CASE \E r \in Runs : S!Check(r)
  <2> PICK r \in Runs : S!Check(r)
    BY <1>2
  <2> USE SlotOK DEF S!Pcs, S!Goes, S!slot, S!ghosts
  <2>1. /\ r = Sort /\ pc[r] = "new" /\ pc' = [pc EXCEPT ![r] = "checked"]
        /\ UNCHANGED <<status, epoch, event, stopped, mine, left, late, tooLate>>
    BY DEF S!Check
  <2>2. QED
    BY <1>0, <2>1 DEF SlotVarsOK, SlotGoesOn, Begun
<1>3. CASE \E r \in Runs : S!ClaimSort(r) \/ S!ClaimUndo(r)
  <2> PICK r \in Runs : S!ClaimSort(r) \/ S!ClaimUndo(r)
    BY <1>3
  <2> USE SlotOK DEF S!Statuses, S!Busy, S!Pcs, S!Goes, S!slot, S!ghosts
  <2>1. /\ pc[r] = "checked" /\ pc' = [pc EXCEPT ![r] = "queued"]
        /\ status' = "running" /\ epoch' = epoch + 1 /\ event' = r
        /\ mine' = [mine EXCEPT ![r] = epoch + 1]
        /\ UNCHANGED <<stopped, left, late, tooLate>>
    BY DEF S!ClaimSort, S!ClaimUndo, S!Take
  <2>2. QED
    BY <1>0, <2>1 DEF SlotVarsOK, SlotGoesOn, Begun
<1>4. CASE S!Complete(Sort)
  BY <1>0, <1>4, CompleteShape DEF Runs
<1>5. CASE S!Cancel \/ S!Reset
  <2>1. /\ status' \in {"cancelling", "idle"} /\ epoch' \in {epoch, epoch + 1}
        /\ event' \in {event, None} /\ stopped' \in {stopped, stopped \cup {event}}
        /\ event = None => stopped' = stopped
        /\ UNCHANGED <<pc, mine, left, late, tooLate>>
    BY <1>5 DEF S!Cancel, S!Reset, S!ghosts
  <2>2. QED
    BY <1>0, <2>1, SlotOK DEF SlotVarsOK, SlotGoesOn, S!Statuses, S!Busy
<1>6. QED
  BY <1>1, <1>2, <1>3, <1>4, <1>5 DEF SlotStep

\* Taking up a file, and putting it down.
LEMMA BeginFileShape ==
  ASSUME S!TypeOK, NEW r \in Runs, S!BeginFile(r)
  PROVE  /\ SlotVarsOK'
         /\ pc[r] = "working" /\ pc' = [pc EXCEPT ![r] = "file"]
         /\ left[r] > 0 /\ left' = [left EXCEPT ![r] = left[r] - 1]
  BY SlotOK DEF S!BeginFile, SlotVarsOK, S!Goes, S!slot

\* What passing over a picture changes.
LEMMA PassOverShape ==
  ASSUME S!TypeOK, NEW r \in Runs, S!PassOver(r)
  PROVE  /\ SlotVarsOK'
         /\ pc[r] = "working" /\ UNCHANGED pc
         /\ left[r] > 0 /\ left' = [left EXCEPT ![r] = left[r] - 1]
  BY SlotOK DEF S!PassOver, SlotVarsOK, S!Goes, S!slot, S!ghosts

\* What the end of a file step changes.
LEMMA EndFileShape ==
  ASSUME S!TypeOK, NEW r \in Runs, S!EndFile(r)
  PROVE  /\ SlotVarsOK' /\ UNCHANGED left
         /\ pc[r] = "file"
         /\ \E to \in {"working", "closing"} : pc' = [pc EXCEPT ![r] = to]
  BY SlotOK DEF S!EndFile, SlotVarsOK, S!Goes, S!slot, S!ghosts

\* What the reading of the journal changes.
LEMMA ReadJournalShape ==
  ASSUME S!TypeOK, NEW u \in Undos, S!ReadJournal(u)
  PROVE  /\ SlotVarsOK' /\ left' \in [Runs -> Nat]
         /\ pc[u] = "new" /\ pc' = [pc EXCEPT ![u] = "checked"]
         /\ \A r \in Runs \ {u} : left'[r] = left[r]
<1>1. Cardinality(Images) \in Nat
  BY PicturesAssumption, FS_CardinalityType
<1>2. QED
  BY <1>1, SlotOK DEF S!ReadJournal, SlotVarsOK, S!Goes, S!slot, S!ghosts, Runs

-----------------------------------------------------------------------------
(* The invariant step by step *)

FilesOK ==
    /\ place \in [Images -> Targets \cup {"home", "other"}]
    /\ listed \in [Images -> Targets \cup {"home", "other", "norow"}]
    /\ foreign \subseteq Images \X {"home", "dest"}
    /\ journal \in [Images -> Phases] /\ marked \in BOOLEAN
    /\ todo \in [Runs -> SUBSET Images]
    /\ hand \in [Runs -> Images \cup {None}] /\ step \in [Runs -> Steps]
    /\ seen \in [Undos -> [Images -> Phases]]
    /\ kept \in [Undos -> SUBSET Images] /\ early \in BOOLEAN /\ dropped \subseteq Images

\* What is said of a single picture, and what of the undos' knowledge.
FilesInv == MoveIsTraced /\ UndoIsTraced /\ TracesAgree /\ ForeignFilesStay
Knowledge == UndosKnow /\ MarkerIsTrue

\* The parts of the invariant make the invariant.
LEMMA Parts ==
  ASSUME SlotVarsOK', (pc \in [Runs -> S!Pcs])', (left \in [Runs -> Nat])', FilesOK',
         HandsAreBusy', ListIsCounted', FilesInv', Knowledge'
  PROVE  IInv'
<1>1. S!TypeOK'
  BY DEF SlotVarsOK, S!TypeOK, S!Runs, Runs
<1>2. TypeOK'
  BY <1>1 DEF TypeOK, FilesOK, ListIsCounted, Begun
<1>3. QED
  BY <1>2 DEF IInv, FilesInv, Knowledge

\* The invariant gives its parts.
LEMMA TypedParts ==
  ASSUME IInv
  PROVE  /\ S!TypeOK /\ SlotVarsOK /\ pc \in [Runs -> S!Pcs] /\ left \in [Runs -> Nat] /\ FilesOK
         /\ HandsAreBusy /\ ListIsCounted /\ FilesInv /\ Knowledge
<1>1. TypeOK
  BY DEF IInv
<1>2. S!TypeOK /\ FilesOK
  BY <1>1 DEF TypeOK, FilesOK
<1>3. QED
  BY <1>2, SlotOK DEF IInv, FilesInv, Knowledge

\* While the move run has a picture in hand, no undo that began knew all of it,
\* so nothing is claimed.
LEMMA SortAtWork ==
  ASSUME IInv, NEW i \in Images, hand[Sort] = i
  PROVE  /\ pc[Sort] = "file" /\ ~SortIsOver
         /\ marked => early
         /\ ~early => \A u \in Undos : pc[u] \notin Begun
  BY PicturesAssumption DEF IInv, HandsAreBusy, SortIsOver, UndosKnow, MarkerIsTrue, Runs

\* A step of the move run with the picture it has in hand.
LEMMA InHand ==
  ASSUME IInv, NEW i \in Images, hand[Sort] = i,
         UNCHANGED <<slotVars, todo, hand, seen, kept, marked, robbed, early, dropped, crashes>>,
         FilesOK', FilesInv'
  PROVE  IInv'
<1>1. SlotVarsOK' /\ (pc \in [Runs -> S!Pcs])' /\ (left \in [Runs -> Nat])'
  BY TypedParts DEF SlotVarsOK, slotVars
<1>2. HandsAreBusy' /\ ListIsCounted'
  BY TypedParts DEF HandsAreBusy, ListIsCounted, slotVars
<1>3. Knowledge'
  BY SortAtWork DEF Knowledge, UndosKnow, MarkerIsTrue, slotVars
<1>4. QED
  BY <1>1, <1>2, <1>3, Parts

\* A file step of the move run.
LEMMA SortKeeps ==
  ASSUME IInv, NEW i \in Images,
         SkipFile(i) \/ Intend(i) \/ MoveFile(i) \/ MoveFails(i)
         \/ ListFile(i) \/ ListFails(i) \/ Record(i)
  PROVE  IInv'
<1>0. FilesOK /\ FilesInv
  BY TypedParts
<1>s. Sort \in Runs /\ \A u \in Undos : u # Sort /\ u \in Runs
  BY RequestsAssumption DEF Runs
<1> USE <1>0, <1>s DEF At, Step, List, Target, Targets, Phases, Steps, files,
        FilesOK, FilesInv
<1>1. CASE SkipFile(i) \/ MoveFails(i)
  <2>1. /\ hand[Sort] = i /\ step' = [step EXCEPT ![Sort] = "settled"]
        /\ UNCHANGED <<slotVars, files, todo, hand, seen, kept, robbed, early, dropped, crashes>>
    BY <1>1 DEF SkipFile, MoveFails
  <2>2. FilesOK' /\ FilesInv'
    BY <2>1 DEF MoveIsTraced, UndoIsTraced, TracesAgree, ForeignFilesStay
  <2>3. QED
    BY <2>1, <2>2, InHand
<1>2. CASE Intend(i)
  <2>1. FilesOK' /\ FilesInv'
    BY <1>2 DEF Intend, MoveIsTraced, UndoIsTraced, TracesAgree, ForeignFilesStay
  <2>2. QED
    BY <1>2, <2>1, InHand DEF Intend
<1>3. CASE MoveFile(i)
  <2>1. i \notin todo[Sort]
    BY <1>3, PicturesAssumption, TypedParts DEF MoveFile, HandsAreBusy
  <2>2. FilesOK'
    BY <1>3 DEF MoveFile
  <2>3. MoveIsTraced' /\ UndoIsTraced'
    BY <1>3, <2>1 DEF MoveFile, MoveIsTraced, UndoIsTraced, ForeignFilesStay
  <2>4. TracesAgree' /\ ForeignFilesStay'
    BY <1>3 DEF MoveFile, MoveIsTraced, TracesAgree, ForeignFilesStay
  <2>5. QED
    BY <1>3, <2>2, <2>3, <2>4, InHand DEF MoveFile
<1>4. CASE ListFile(i)
  <2>1. FilesOK' /\ FilesInv'
    BY <1>4 DEF ListFile, MoveIsTraced, UndoIsTraced, TracesAgree, ForeignFilesStay
  <2>2. QED
    BY <1>4, <2>1, InHand DEF ListFile
<1>5. CASE ListFails(i)
  <2>1. FilesOK' /\ FilesInv'
    BY <1>5 DEF ListFails, MoveIsTraced, UndoIsTraced, TracesAgree, ForeignFilesStay
  <2>2. QED
    BY <1>5, <2>1, InHand DEF ListFails
<1>6. CASE Record(i)
  <2>1. FilesOK' /\ FilesInv'
    BY <1>6 DEF Record, MoveIsTraced, UndoIsTraced, TracesAgree, ForeignFilesStay
  <2>2. QED
    BY <1>6, <2>1, InHand DEF Record
<1>7. QED
  BY <1>1, <1>2, <1>3, <1>4, <1>5, <1>6

\* The first and the last step with a picture.
LEMMA TakeUpKeeps ==
  ASSUME IInv, NEW r \in Runs, NEW i \in Images, TakeUp(r, i)
  PROVE  IInv'
<1>0. /\ S!TypeOK /\ SlotVarsOK /\ pc \in [Runs -> S!Pcs] /\ left \in [Runs -> Nat] /\ FilesOK
      /\ HandsAreBusy /\ ListIsCounted /\ FilesInv /\ Knowledge
  BY TypedParts
<1>s. Sort \in Runs /\ \A u \in Undos : u # Sort /\ u \in Runs
  BY RequestsAssumption DEF Runs
<1>1. /\ SlotVarsOK'
      /\ pc[r] = "working" /\ pc' = [pc EXCEPT ![r] = "file"]
      /\ left[r] > 0 /\ left' = [left EXCEPT ![r] = left[r] - 1]
  BY <1>0, BeginFileShape DEF TakeUp
<1>2. /\ i \in todo[r] /\ todo' = [todo EXCEPT ![r] = todo[r] \ {i}]
      /\ hand' = [hand EXCEPT ![r] = i] /\ step' = [step EXCEPT ![r] = "taken"]
      /\ UNCHANGED <<place, listed, foreign, journal, marked, seen, kept, robbed, early, dropped, crashes>>
  BY DEF TakeUp, Step, files
<1>3. hand[r] = None
  BY <1>0, <1>1 DEF HandsAreBusy
<1>4. (pc \in [Runs -> S!Pcs])' /\ (left \in [Runs -> Nat])'
  BY <1>0, <1>1 DEF S!Pcs
<1>5. FilesOK'
  BY <1>0, <1>2 DEF FilesOK, Steps
<1>6. HandsAreBusy'
  BY <1>0, <1>1, <1>2 DEF HandsAreBusy, FilesOK
<1>7. ListIsCounted'
  <2>1. /\ IsFiniteSet(todo[r]) /\ Cardinality(todo[r]) \in Nat
        /\ Cardinality(todo[r] \ {i}) = Cardinality(todo[r]) - 1
    <3>1. IsFiniteSet(todo[r])
      BY <1>0, PicturesAssumption, FS_Subset DEF FilesOK
    <3>2. QED
      BY <3>1, <1>2, FS_CardinalityType, FS_RemoveElement
  <2>2. left[r] = Cardinality(todo[r])
    BY <1>0, <1>1 DEF ListIsCounted, Begun
  <2>3. left'[r] = Cardinality(todo'[r]) /\ pc'[r] = "file"
    BY <1>0, <1>1, <1>2, <2>1, <2>2 DEF FilesOK
  <2>4. \A q \in Runs \ {r} : left'[q] = left[q] /\ todo'[q] = todo[q] /\ pc'[q] = pc[q]
    BY <1>0, <1>1, <1>2 DEF FilesOK
  <2>5. QED
    BY <1>0, <1>s, <2>3, <2>4 DEF ListIsCounted
<1>8. MoveIsTraced' /\ UndoIsTraced'
  BY <1>0, <1>s, <1>2, <1>3 DEF FilesInv, FilesOK, MoveIsTraced, UndoIsTraced, At
<1>9. TracesAgree' /\ ForeignFilesStay'
  BY <1>0, <1>2 DEF FilesInv, TracesAgree, ForeignFilesStay
<1>10. Knowledge'
  <2>1. \A q \in Runs : pc'[q] \in Begun <=> pc[q] \in Begun
    BY <1>0, <1>1 DEF Begun
  <2>2. SortIsOver' <=> SortIsOver
    BY <1>0, <1>s, <1>1 DEF SortIsOver
  <2>3. UndosKnow'
    BY <1>0, <1>s, <1>2, <1>3, <2>1, <2>2, PicturesAssumption DEF Knowledge, UndosKnow, At, FilesOK
  <2>4. MarkerIsTrue'
    BY <1>0, <1>2, <2>2 DEF Knowledge, MarkerIsTrue
  <2>5. QED
    BY <2>3, <2>4 DEF Knowledge
<1>11. QED
  BY <1>1, <1>4, <1>5, <1>6, <1>7, <1>8, <1>9, <1>10, Parts DEF FilesInv

\* A picture is passed over.
LEMMA SkipRowKeeps ==
  ASSUME IInv, NEW i \in Images, SkipRow(i)
  PROVE  IInv'
<1>0. /\ S!TypeOK /\ SlotVarsOK /\ pc \in [Runs -> S!Pcs] /\ left \in [Runs -> Nat] /\ FilesOK
      /\ HandsAreBusy /\ ListIsCounted /\ FilesInv /\ Knowledge
  BY TypedParts
<1>s. Sort \in Runs /\ \A u \in Undos : u # Sort /\ u \in Runs
  BY RequestsAssumption DEF Runs
<1>1. /\ SlotVarsOK' /\ pc[Sort] = "working" /\ UNCHANGED pc
      /\ left[Sort] > 0 /\ left' = [left EXCEPT ![Sort] = left[Sort] - 1]
  BY <1>0, <1>s, PassOverShape DEF SkipRow
<1>2. /\ i \in todo[Sort] /\ todo' = [todo EXCEPT ![Sort] = todo[Sort] \ {i}]
      /\ UNCHANGED <<place, listed, foreign, journal, marked, hand, step, seen, kept, robbed, early, dropped, crashes>>
  BY DEF SkipRow, files
<1>3. (pc \in [Runs -> S!Pcs])' /\ (left \in [Runs -> Nat])'
  BY <1>0, <1>s, <1>1
<1>4. FilesOK'
  BY <1>0, <1>2 DEF FilesOK
<1>5. HandsAreBusy'
  BY <1>0, <1>1, <1>2 DEF HandsAreBusy, FilesOK
<1>6. ListIsCounted'
  <2>1. Cardinality(todo[Sort] \ {i}) = Cardinality(todo[Sort]) - 1
    <3>1. IsFiniteSet(todo[Sort])
      BY <1>0, <1>s, PicturesAssumption, FS_Subset DEF FilesOK
    <3>2. QED
      BY <3>1, <1>2, FS_CardinalityType, FS_RemoveElement
  <2>2. left[Sort] = Cardinality(todo[Sort])
    BY <1>0, <1>s, <1>1 DEF ListIsCounted, Begun
  <2>3. left'[Sort] = Cardinality(todo'[Sort])
    BY <1>0, <1>s, <1>1, <1>2, <2>1, <2>2 DEF FilesOK
  <2>4. \A q \in Runs \ {Sort} : left'[q] = left[q] /\ todo'[q] = todo[q]
    BY <1>0, <1>s, <1>1, <1>2 DEF FilesOK
  <2>5. QED
    BY <1>0, <1>s, <1>1, <2>3, <2>4 DEF ListIsCounted
<1>7. FilesInv'
  BY <1>0, <1>s, <1>2 DEF FilesInv, FilesOK, MoveIsTraced, UndoIsTraced, TracesAgree,
     ForeignFilesStay, At
<1>8. Knowledge'
  BY <1>0, <1>s, <1>1, <1>2 DEF Knowledge, UndosKnow, MarkerIsTrue, SortIsOver, At, FilesOK
<1>9. QED
  BY <1>1, <1>3, <1>4, <1>5, <1>6, <1>7, <1>8, Parts

\* A run puts its picture down.
LEMMA PutDownKeeps ==
  ASSUME IInv, NEW r \in Runs, PutDown(r)
  PROVE  IInv'
<1>0. /\ S!TypeOK /\ SlotVarsOK /\ pc \in [Runs -> S!Pcs] /\ left \in [Runs -> Nat] /\ FilesOK
      /\ HandsAreBusy /\ ListIsCounted /\ FilesInv /\ Knowledge
  BY TypedParts
<1>s. Sort \in Runs /\ \A u \in Undos : u # Sort /\ u \in Runs
  BY RequestsAssumption DEF Runs
<1>1. /\ SlotVarsOK' /\ UNCHANGED left
      /\ pc[r] = "file"
      /\ \E to \in {"working", "closing"} : pc' = [pc EXCEPT ![r] = to]
  BY <1>0, EndFileShape DEF PutDown
<1>2. /\ step[r] = "settled"
      /\ hand' = [hand EXCEPT ![r] = None] /\ step' = [step EXCEPT ![r] = "none"]
      /\ UNCHANGED <<place, listed, foreign, journal, marked, todo, seen, kept, robbed, early, dropped, crashes>>
  BY DEF PutDown, Step, files
<1>4. (pc \in [Runs -> S!Pcs])' /\ (left \in [Runs -> Nat])'
  BY <1>0, <1>1 DEF S!Pcs
<1>5. FilesOK'
  BY <1>0, <1>2 DEF FilesOK, Steps
<1>6. HandsAreBusy' /\ ListIsCounted'
  BY <1>0, <1>1, <1>2 DEF HandsAreBusy, ListIsCounted, FilesOK, Begun
<1>8. MoveIsTraced' /\ UndoIsTraced'
  BY <1>0, <1>s, <1>2, PicturesAssumption DEF FilesInv, FilesOK, MoveIsTraced, UndoIsTraced, At
<1>9. TracesAgree' /\ ForeignFilesStay'
  BY <1>0, <1>2 DEF FilesInv, TracesAgree, ForeignFilesStay
<1>10. Knowledge'
  <2>1. \A q \in Runs : pc'[q] \in Begun => pc[q] \in Begun
    BY <1>0, <1>1 DEF Begun
  <2>2. SortIsOver => SortIsOver'
    BY <1>0, <1>s, <1>1 DEF SortIsOver
  <2>3. UndosKnow'
    BY <1>0, <1>s, <1>2, <2>1, <2>2, PicturesAssumption DEF Knowledge, UndosKnow, At, FilesOK
  <2>4. MarkerIsTrue'
    BY <1>0, <1>2, <2>2 DEF Knowledge, MarkerIsTrue
  <2>5. QED
    BY <2>3, <2>4 DEF Knowledge
<1>11. QED
  BY <1>1, <1>4, <1>5, <1>6, <1>8, <1>9, <1>10, Parts DEF FilesInv

\* An undo with a picture in hand. The size of a file tells it from another one,
\* so what is put back is always the picture's own file.
LEMMA PutBackTakesItsOwn ==
  ASSUME IInv, NEW u \in Undos, NEW i \in Images, ToPutBack(u, i) # None, HomeIsFree(i)
  PROVE  place[i] = ToPutBack(u, i) /\ place[i] \in Targets
<1>1. FilesOK /\ FilesInv
  BY TypedParts
<1>2. listed[i] = "dest" => place[i] \in {"dest", "home"}
  BY <1>1 DEF FilesInv, TracesAgree
<1>3. \A p : <<i, p>> \in foreign => p \in {"home", "dest"}
  BY <1>1 DEF FilesOK
<1>4. CASE seen[u][i] \in Targets
  BY <1>1, <1>2, <1>3, <1>4 DEF ToPutBack, ListedPath, HomeIsFree, Exists, Targets
<1>5. CASE seen[u][i] \notin Targets
  BY <1>1, <1>2, <1>3, <1>5 DEF ToPutBack, InterruptedTarget, ListedPath, HomeIsFree, Exists, Targets
<1>6. QED
  BY <1>4, <1>5

\* A file step of an undo.
LEMMA UndoKeeps ==
  ASSUME IInv, NEW u \in Undos, NEW i \in Images,
         LeaveBack(u, i) \/ Keep(u, i) \/ PutBack(u, i) \/ Relist(u, i)
  PROVE  IInv'
<1>0. /\ S!TypeOK /\ SlotVarsOK /\ pc \in [Runs -> S!Pcs] /\ left \in [Runs -> Nat] /\ FilesOK
      /\ HandsAreBusy /\ ListIsCounted /\ FilesInv /\ Knowledge
  BY TypedParts
<1>s. Sort \in Runs /\ u \in Runs /\ \A q \in Undos : q # Sort /\ q \in Runs
  BY RequestsAssumption DEF Runs
<1>1. /\ hand[u] = i /\ step[u] \in {"taken", "restored"}
      /\ UNCHANGED <<slotVars, journal, marked, todo, hand, seen, early, dropped, crashes>>
      /\ \E to \in {"settled", "restored"} : step' = [step EXCEPT ![u] = to]
  BY DEF LeaveBack, Keep, PutBack, Relist, At, Step, files
<1>2. SlotVarsOK' /\ (pc \in [Runs -> S!Pcs])' /\ (left \in [Runs -> Nat])'
  BY <1>0, <1>1 DEF SlotVarsOK, slotVars
<1>3. HandsAreBusy' /\ ListIsCounted'
  BY <1>0, <1>1 DEF HandsAreBusy, ListIsCounted, slotVars
<1>4. pc[u] \in Begun
  BY <1>0, <1>1, <1>s, PicturesAssumption DEF HandsAreBusy, Begun
<1>5. CASE LeaveBack(u, i)
  <2>1. /\ step[u] = "taken" /\ step' = [step EXCEPT ![u] = "settled"] /\ AlreadyBack(u, i)
        /\ UNCHANGED <<place, listed, foreign, kept, robbed>>
    BY <1>5 DEF LeaveBack, At, Step, files
  <2>2. FilesOK' /\ FilesInv'
    BY <1>0, <1>1, <1>s, <2>1 DEF FilesOK, Steps, FilesInv, At, MoveIsTraced, UndoIsTraced,
       TracesAgree, ForeignFilesStay
  <2>3. ~early => place[i] \notin Targets
    <3>1. seen[u][i] \in Targets /\ listed[i] = "home"
      BY <2>1 DEF AlreadyBack
    <3>2. ~early => seen[u] = journal
      BY <1>0, <1>4 DEF Knowledge, UndosKnow
    <3>3. QED
      BY <1>0, <3>1, <3>2 DEF FilesInv, TracesAgree, Targets
  <2>4. Knowledge'
    BY <1>0, <1>1, <1>s, <2>1, <2>3 DEF Knowledge, UndosKnow, MarkerIsTrue, SortIsOver, At, slotVars, FilesOK
  <2>5. QED
    BY <1>2, <1>3, <2>2, <2>4, Parts
<1>6. CASE Keep(u, i)
  <2>1. /\ step[u] = "taken" /\ step' = [step EXCEPT ![u] = "settled"]
        /\ kept' = [kept EXCEPT ![u] = kept[u] \cup {i}]
        /\ UNCHANGED <<place, listed, foreign, robbed>>
    BY <1>6 DEF Keep, At, Step, files
  <2>2. FilesOK' /\ FilesInv'
    BY <1>0, <1>1, <1>s, <2>1 DEF FilesOK, Steps, FilesInv, At, MoveIsTraced, UndoIsTraced,
       TracesAgree, ForeignFilesStay
  <2>3. Knowledge'
    BY <1>0, <1>1, <1>s, <2>1 DEF Knowledge, UndosKnow, MarkerIsTrue, SortIsOver, At, slotVars, FilesOK
  <2>4. QED
    BY <1>2, <1>3, <2>2, <2>3, Parts
<1>7. CASE PutBack(u, i)
  <2>1. place[i] = ToPutBack(u, i) /\ place[i] \in Targets /\ HomeIsFree(i)
    BY <1>7, PutBackTakesItsOwn DEF PutBack
  <2>2. /\ step[u] = "taken" /\ step' = [step EXCEPT ![u] = "restored"]
        /\ place' = [place EXCEPT ![i] = "home"]
        /\ <<i, "home">> \notin foreign
        /\ UNCHANGED <<listed, foreign, kept, robbed>>
    BY <1>7, <2>1 DEF PutBack, HomeIsFree, Exists, At, Step
  <2>3. FilesOK'
    BY <1>0, <1>1, <2>2 DEF FilesOK, Steps
  <2>4. MoveIsTraced' /\ TracesAgree' /\ ForeignFilesStay'
    BY <1>0, <1>1, <1>s, <2>2 DEF FilesOK, FilesInv, At, MoveIsTraced, TracesAgree, ForeignFilesStay, Targets
  <2>5. i \notin todo[Sort] /\ ~At(Sort, i, "taken") /\ ~At(Sort, i, "intended")
    BY <1>0, <2>1 DEF FilesInv, MoveIsTraced, Targets
  <2>6. UndoIsTraced'
    BY <1>0, <1>1, <1>s, <2>2, <2>5 DEF FilesOK, FilesInv, At, UndoIsTraced
  <2>7. Knowledge'
    BY <1>0, <1>1, <1>s, <2>2 DEF Knowledge, UndosKnow, MarkerIsTrue, SortIsOver, At, slotVars, FilesOK, Targets
  <2>8. QED
    BY <1>2, <1>3, <2>3, <2>4, <2>6, <2>7, Parts DEF FilesInv
<1>8. CASE Relist(u, i)
  <2>1. /\ step[u] = "restored" /\ step' = [step EXCEPT ![u] = "settled"]
        /\ listed' = [listed EXCEPT ![i] = IF listed[i] = "norow" THEN "norow" ELSE "home"]
        /\ UNCHANGED <<place, foreign, kept, robbed>>
    BY <1>8 DEF Relist, List, At, Step
  <2>2. place[i] = "home"
    BY <1>0, <1>1, <2>1 DEF FilesInv, UndoIsTraced, At
  <2>3. FilesOK' /\ FilesInv'
    BY <1>0, <1>1, <1>s, <2>1, <2>2 DEF FilesOK, Steps, FilesInv, At, MoveIsTraced, UndoIsTraced,
       TracesAgree, ForeignFilesStay, Targets
  <2>4. Knowledge'
    BY <1>0, <1>1, <1>s, <2>1, <2>2 DEF Knowledge, UndosKnow, MarkerIsTrue, SortIsOver, At, slotVars, FilesOK
  <2>5. QED
    BY <1>2, <1>3, <2>3, <2>4, Parts
<1>9. QED
  BY <1>5, <1>6, <1>7, <1>8

\* An undo reads the journal.
LEMMA ReadJournalKeeps ==
  ASSUME IInv, NEW u \in Undos, ReadJournal(u)
  PROVE  IInv'
<1>0. /\ S!TypeOK /\ SlotVarsOK /\ pc \in [Runs -> S!Pcs] /\ left \in [Runs -> Nat] /\ FilesOK
      /\ HandsAreBusy /\ ListIsCounted /\ FilesInv /\ Knowledge
  BY TypedParts
<1>s. Sort \in Runs /\ u \in Runs /\ u # Sort /\ \A q \in Undos : q # Sort /\ q \in Runs
  BY RequestsAssumption DEF Runs
<1>1. /\ SlotVarsOK' /\ left' \in [Runs -> Nat]
      /\ pc[u] = "new" /\ pc' = [pc EXCEPT ![u] = "checked"]
      /\ \A r \in Runs \ {u} : left'[r] = left[r]
  BY <1>0, ReadJournalShape DEF ReadJournal
<1>2. /\ ~marked /\ seen' = [seen EXCEPT ![u] = journal]
      /\ todo' = [todo EXCEPT ![u] = {i \in Images : journal[i] # "none"}]
      /\ left'[u] = Cardinality(todo'[u])
      /\ kept' = [kept EXCEPT ![u] = {}]
      /\ early' = (early \/ pc[Sort] \notin {"closing", "ended"})
      /\ UNCHANGED <<place, listed, foreign, journal, marked, hand, step, robbed, dropped>>
  BY DEF ReadJournal, files
<1>3. (pc \in [Runs -> S!Pcs])' /\ (left \in [Runs -> Nat])'
  BY <1>0, <1>1 DEF S!Pcs
<1>4. FilesOK'
  <2>1. early' \in BOOLEAN
    BY <1>2
  <2>2. QED
    BY <1>0, <1>2, <2>1 DEF FilesOK
<1>5. HandsAreBusy'
  BY <1>0, <1>1, <1>2 DEF HandsAreBusy, FilesOK
<1>6. ListIsCounted'
  BY <1>0, <1>s, <1>1, <1>2 DEF ListIsCounted, FilesOK, Begun
<1>7. FilesInv'
  BY <1>0, <1>s, <1>2 DEF FilesInv, FilesOK, MoveIsTraced, UndoIsTraced, TracesAgree,
     ForeignFilesStay, At
<1>8. Knowledge'
  <2>1. ~early' => ~early /\ SortIsOver /\ SortIsOver'
    BY <1>0, <1>s, <1>1, <1>2 DEF SortIsOver
  <2>2. ASSUME ~early', NEW q \in Undos, pc'[q] \in Begun
        PROVE  /\ seen'[q] = journal'
               /\ \A i \in Images : place'[i] \in Targets =>
                    i \in todo'[q] \cup kept'[q] \/ At(q, i, "taken")'
    <3>1. CASE q = u
      BY <1>0, <1>s, <1>2, <3>1 DEF FilesOK, FilesInv, TracesAgree
    <3>2. CASE q # u
      <4>1. pc[q] \in Begun
        BY <1>0, <1>s, <1>1, <2>2, <3>2
      <4>2. QED
        BY <1>0, <1>s, <1>2, <2>1, <2>2, <3>2, <4>1 DEF Knowledge, UndosKnow, FilesOK, At
    <3>3. QED
      BY <3>1, <3>2
  <2>3. QED
    BY <1>2, <2>1, <2>2 DEF Knowledge, UndosKnow, MarkerIsTrue
<1>9. QED
  BY <1>1, <1>3, <1>4, <1>5, <1>6, <1>7, <1>8, Parts

\* An undo that left nothing alone and has nothing on its list has put
\* everything back, so the marker may be written.
LEMMA FinishUndoKeeps ==
  ASSUME IInv, NEW u \in Undos, FinishUndo(u)
  PROVE  IInv'
<1>0. /\ S!TypeOK /\ SlotVarsOK /\ pc \in [Runs -> S!Pcs] /\ left \in [Runs -> Nat] /\ FilesOK
      /\ HandsAreBusy /\ ListIsCounted /\ FilesInv /\ Knowledge
  BY TypedParts
<1>s. Sort \in Runs /\ u \in Runs /\ u # Sort /\ \A q \in Undos : q # Sort /\ q \in Runs
  BY RequestsAssumption DEF Runs
<1>1. SlotVarsOK' /\ SlotGoesOn /\ UNCHANGED left
  BY <1>0, <1>s, CompleteShape DEF FinishUndo
<1>2. /\ marked' = (marked \/ kept[u] = {})
      /\ UNCHANGED <<place, listed, foreign, journal, todo, hand, step, seen, kept, robbed, early, dropped, crashes>>
  BY DEF FinishUndo, work
<1>3. pc[u] = "working" /\ left[u] = 0
  BY DEF FinishUndo, S!Complete, S!Goes
<1>4. (pc \in [Runs -> S!Pcs])' /\ (left \in [Runs -> Nat])'
  BY <1>0, <1>1 DEF SlotGoesOn
<1>5. FilesOK'
  <2>1. marked' \in BOOLEAN
    BY <1>0, <1>2 DEF FilesOK
  <2>2. QED
    BY <1>0, <1>2, <2>1 DEF FilesOK
<1>6. HandsAreBusy' /\ ListIsCounted'
  BY <1>0, <1>1, <1>2, <1>s DEF HandsAreBusy, ListIsCounted, SlotGoesOn, Begun
<1>7. FilesInv'
  BY <1>0, <1>2 DEF FilesInv, MoveIsTraced, UndoIsTraced, TracesAgree, ForeignFilesStay, At
<1>8. todo[u] = {} /\ hand[u] = None
  <2>1. Cardinality(todo[u]) = 0 /\ IsFiniteSet(todo[u])
    BY <1>0, <1>s, <1>3, PicturesAssumption, FS_Subset DEF ListIsCounted, FilesOK, Begun
  <2>2. QED
    BY <1>0, <1>s, <1>3, <2>1, FS_EmptySet DEF HandsAreBusy
<1>9. ~early /\ kept[u] = {} => SortIsOver /\ \A i \in Images : place[i] \notin Targets
  BY <1>0, <1>3, <1>8, PicturesAssumption DEF Knowledge, UndosKnow, Begun, At
<1>10. Knowledge'
  <2>1. SortIsOver => SortIsOver'
    BY <1>1, <1>s DEF SlotGoesOn, SortIsOver
  <2>2. UndosKnow'
    BY <1>0, <1>1, <1>2, <1>s, <2>1 DEF Knowledge, UndosKnow, SlotGoesOn, At
  <2>3. MarkerIsTrue'
    BY <1>0, <1>2, <1>9, <2>1 DEF Knowledge, MarkerIsTrue
  <2>4. QED
    BY <2>2, <2>3 DEF Knowledge
<1>11. QED
  BY <1>1, <1>4, <1>5, <1>6, <1>7, <1>10, Parts

\* A step of the slot.
LEMMA SlotKeeps ==
  ASSUME IInv, SlotStep
  PROVE  IInv'
<1>0. /\ S!TypeOK /\ SlotVarsOK /\ pc \in [Runs -> S!Pcs] /\ left \in [Runs -> Nat] /\ FilesOK
      /\ HandsAreBusy /\ ListIsCounted /\ FilesInv /\ Knowledge
  BY TypedParts
<1>s. Sort \in Runs /\ \A q \in Undos : q # Sort /\ q \in Runs
  BY RequestsAssumption DEF Runs
<1>1. /\ SlotVarsOK' /\ SlotGoesOn /\ UNCHANGED left
      /\ UNCHANGED <<place, listed, foreign, journal, marked, todo, hand, step, seen, kept,
                     robbed, early, dropped, crashes>>
  BY <1>0, SlotShape DEF files, work
<1>2. (pc \in [Runs -> S!Pcs])' /\ (left \in [Runs -> Nat])' /\ FilesOK'
  BY <1>0, <1>1 DEF SlotGoesOn, FilesOK
<1>3. HandsAreBusy' /\ ListIsCounted'
  BY <1>0, <1>1, <1>s DEF HandsAreBusy, ListIsCounted, SlotGoesOn, Begun
<1>4. FilesInv'
  BY <1>0, <1>1 DEF FilesInv, MoveIsTraced, UndoIsTraced, TracesAgree, ForeignFilesStay, At
<1>5. Knowledge'
  <2>1. SortIsOver => SortIsOver'
    BY <1>1, <1>s DEF SlotGoesOn, SortIsOver
  <2>2. UndosKnow'
    BY <1>0, <1>1, <1>s, <2>1 DEF Knowledge, UndosKnow, SlotGoesOn, At
  <2>3. MarkerIsTrue'
    BY <1>0, <1>1, <2>1 DEF Knowledge, MarkerIsTrue
  <2>4. QED
    BY <2>2, <2>3 DEF Knowledge
<1>6. QED
  BY <1>1, <1>2, <1>3, <1>4, <1>5, Parts

\* Other programs and the library change files and rows.
LEMMA OthersKeep ==
  ASSUME IInv, NEW i \in Images, Others(i)
  PROVE  IInv'
<1>0. /\ S!TypeOK /\ SlotVarsOK /\ pc \in [Runs -> S!Pcs] /\ left \in [Runs -> Nat] /\ FilesOK
      /\ HandsAreBusy /\ ListIsCounted /\ FilesInv /\ Knowledge
  BY TypedParts
<1>s. Sort \in Runs /\ \A q \in Undos : q # Sort /\ q \in Runs
  BY RequestsAssumption DEF Runs
<1>1. UNCHANGED <<slotVars, journal, marked, todo, hand, step, seen, kept, robbed, early, dropped, crashes>>
  BY DEF Others, work
<1>2. SlotVarsOK' /\ (pc \in [Runs -> S!Pcs])' /\ (left \in [Runs -> Nat])'
  BY <1>0, <1>1 DEF SlotVarsOK, slotVars
<1>3. HandsAreBusy' /\ ListIsCounted'
  BY <1>0, <1>1 DEF HandsAreBusy, ListIsCounted, slotVars
<1>4. \/ /\ place[i] \in Targets /\ listed[i] = place[i]
         /\ place' = [place EXCEPT ![i] = "other"]
         /\ listed' = [listed EXCEPT ![i] = "other"]
         /\ UNCHANGED foreign
      \/ /\ listed' = [listed EXCEPT ![i] = "norow"]
         /\ UNCHANGED <<place, foreign>>
      \/ \E p \in {"home", "dest"} :
           /\ place[i] # p /\ (p = "home" => \A r \in Runs : hand[r] # i)
           /\ foreign' = foreign \cup {<<i, p>>}
           /\ UNCHANGED <<place, listed>>
  BY DEF Others, Exists
<1>5. FilesOK' /\ FilesInv'
  <2>1. CASE /\ place[i] \in Targets /\ listed[i] = place[i]
             /\ place' = [place EXCEPT ![i] = "other"]
             /\ listed' = [listed EXCEPT ![i] = "other"]
             /\ UNCHANGED foreign
    BY <1>0, <1>1, <1>s, <2>1 DEF FilesOK, FilesInv, MoveIsTraced, UndoIsTraced, TracesAgree,
       ForeignFilesStay, At, Targets
  <2>2. CASE /\ listed' = [listed EXCEPT ![i] = "norow"]
             /\ UNCHANGED <<place, foreign>>
    BY <1>0, <1>1, <1>s, <2>2 DEF FilesOK, FilesInv, MoveIsTraced, UndoIsTraced, TracesAgree,
       ForeignFilesStay, At, Targets
  <2>3. CASE \E p \in {"home", "dest"} :
               /\ place[i] # p /\ (p = "home" => \A r \in Runs : hand[r] # i)
               /\ foreign' = foreign \cup {<<i, p>>}
               /\ UNCHANGED <<place, listed>>
    BY <1>0, <1>1, <1>s, <2>3 DEF FilesOK, FilesInv, MoveIsTraced, UndoIsTraced, TracesAgree,
       ForeignFilesStay, At, Targets
  <2>4. QED
    BY <1>4, <2>1, <2>2, <2>3
<1>6. Knowledge'
  <2>1. \A j \in Images : place'[j] \in Targets => place[j] \in Targets
    BY <1>0, <1>4 DEF FilesOK, Targets
  <2>2. QED
    BY <1>0, <1>1, <2>1 DEF Knowledge, UndosKnow, MarkerIsTrue, SortIsOver, At, slotVars
<1>7. QED
  BY <1>2, <1>3, <1>5, <1>6, Parts

\* Nobody has a picture in hand after a crash, the move run is over, and the undos
\* have nothing yet.
LEMMA CrashKeeps ==
  ASSUME IInv, Crash
  PROVE  IInv'
<1>0. /\ S!TypeOK /\ SlotVarsOK /\ pc \in [Runs -> S!Pcs] /\ left \in [Runs -> Nat] /\ FilesOK
      /\ HandsAreBusy /\ ListIsCounted /\ FilesInv /\ Knowledge
  BY TypedParts
<1>s. Sort \in Runs /\ \A q \in Undos : q # Sort /\ q \in Runs
  BY RequestsAssumption DEF Runs
<1>1. /\ status' = "idle" /\ epoch' = 0 /\ event' = None /\ stopped' = {}
      /\ pc' = [r \in Runs |-> IF r \in Undos \/ pc[r] = "new" THEN "new" ELSE "ended"]
      /\ hand' = [r \in Runs |-> None] /\ step' = [r \in Runs |-> "none"]
      /\ mine' = [r \in Runs |-> 0]
      /\ UNCHANGED <<left, late, tooLate, place, listed, foreign, journal, marked, todo, seen,
                     kept, robbed, early>>
      /\ dropped' \subseteq dropped \cup Images
  BY DEF Crash, files
<1>2. SlotVarsOK' /\ (pc \in [Runs -> S!Pcs])' /\ (left \in [Runs -> Nat])'
  BY <1>0, <1>1 DEF SlotVarsOK, S!Statuses, S!Pcs
<1>3. FilesOK'
  BY <1>0, <1>1 DEF FilesOK, Steps
<1>4. HandsAreBusy' /\ ListIsCounted'
  BY <1>0, <1>1, <1>s DEF HandsAreBusy, ListIsCounted, Begun
<1>5. FilesInv'
  BY <1>0, <1>1, <1>s, PicturesAssumption DEF FilesInv, MoveIsTraced, UndoIsTraced, TracesAgree,
     ForeignFilesStay, At
<1>6. Knowledge'
  <2>1. \A q \in Undos : pc'[q] \notin Begun
    BY <1>1, <1>s DEF Begun
  <2>2. SortIsOver => SortIsOver'
    BY <1>1, <1>s, RequestsAssumption DEF SortIsOver
  <2>3. QED
    BY <1>0, <1>1, <2>1, <2>2 DEF Knowledge, UndosKnow, MarkerIsTrue
<1>7. QED
  BY <1>2, <1>3, <1>4, <1>5, <1>6, Parts

-----------------------------------------------------------------------------
\* The first state.
LEMMA InitInv == Init => IInv
<1> SUFFICES ASSUME Init PROVE IInv
  OBVIOUS
<1>s. Sort \in Runs /\ \A q \in Undos : q # Sort /\ q \in Runs
  BY RequestsAssumption DEF Runs
<1>1. S!TypeOK
  <2>1. Cardinality(Images) \in Nat
    BY PicturesAssumption, FS_CardinalityType
  <2>2. left \in [Runs -> Nat]
    BY <2>1 DEF Init, S!Init, S!Runs, Runs
  <2>3. QED
    BY <2>2 DEF Init, S!Init, S!TypeOK, S!Statuses, S!Pcs, S!Runs, Runs
<1>2. FilesOK
  <2>1. /\ place = [i \in Images |-> "home"] /\ listed = [i \in Images |-> "home"]
        /\ foreign \in SUBSET {<<i, "dest">> : i \in Images}
        /\ journal = [i \in Images |-> "none"] /\ marked = FALSE
        /\ todo = [r \in Runs |-> IF r = Sort THEN Images ELSE {}]
        /\ hand = [r \in Runs |-> None] /\ step = [r \in Runs |-> "none"]
        /\ seen = [u \in Undos |-> journal]
        /\ kept = [u \in Undos |-> {}] /\ early = FALSE /\ dropped = {}
    BY DEF Init
  <2>2. foreign \subseteq Images \X {"home", "dest"}
    BY <2>1
  <2>3. todo \in [Runs -> SUBSET Images] /\ seen \in [Undos -> [Images -> Phases]]
    BY <2>1 DEF Phases
  <2>4. QED
    BY <2>1, <2>2, <2>3 DEF FilesOK, Steps, Phases
<1>3. HandsAreBusy /\ ListIsCounted
  BY <1>s DEF Init, S!Init, HandsAreBusy, ListIsCounted, Begun, Runs, S!Runs
<1>4. FilesInv
  BY <1>s, PicturesAssumption DEF Init, FilesInv, MoveIsTraced, UndoIsTraced, TracesAgree,
     ForeignFilesStay, At, Targets
<1>5. Knowledge
  BY <1>s DEF Init, S!Init, Knowledge, UndosKnow, MarkerIsTrue, Begun, Runs, S!Runs
<1>6. TypeOK
  BY <1>1, <1>2, <1>3 DEF TypeOK, FilesOK, ListIsCounted, Begun
<1>7. QED
  BY <1>3, <1>4, <1>5, <1>6 DEF IInv, FilesInv, Knowledge

\* The invariant holds of every move with its undos, whatever others do to the
\* files and wherever the process stops.
THEOREM Invariance == Spec => []IInv
<1>1. IInv /\ [Next]_vars => IInv'
  <2> SUFFICES ASSUME IInv, [Next]_vars PROVE IInv'
    OBVIOUS
  <2>1. CASE SlotStep
    BY <2>1, SlotKeeps
  <2>2. CASE Crash
    BY <2>2, CrashKeeps
  <2>3. ASSUME NEW i \in Images, SortStep(i) PROVE IInv'
    BY <2>3, TakeUpKeeps, SkipRowKeeps, SortKeeps DEF SortStep, Runs
  <2>4. ASSUME NEW i \in Images, Others(i) PROVE IInv'
    BY <2>4, OthersKeep
  <2>5. ASSUME NEW u \in Undos, ReadJournal(u) \/ FinishUndo(u) PROVE IInv'
    BY <2>5, ReadJournalKeeps, FinishUndoKeeps
  <2>6. ASSUME NEW u \in Undos, NEW i \in Images, UndoStep(u, i) PROVE IInv'
    BY <2>6, TakeUpKeeps, UndoKeeps DEF UndoStep, Runs
  <2>7. ASSUME NEW r \in Runs, PutDown(r) PROVE IInv'
    BY <2>7, PutDownKeeps
  <2>8. CASE UNCHANGED vars
    <3>1. /\ SlotVarsOK' /\ (pc \in [Runs -> S!Pcs])' /\ (left \in [Runs -> Nat])' /\ FilesOK'
          /\ HandsAreBusy' /\ ListIsCounted'
      BY <2>8, TypedParts DEF vars, slotVars, files, work, SlotVarsOK, FilesOK, HandsAreBusy, ListIsCounted
    <3>2. FilesInv' /\ Knowledge'
      BY <2>8, TypedParts DEF vars, slotVars, files, work, FilesInv, Knowledge, MoveIsTraced,
         UndoIsTraced, TracesAgree, ForeignFilesStay, UndosKnow, MarkerIsTrue, SortIsOver, At
    <3>3. QED
      BY <3>1, <3>2, Parts
  <2>9. QED
    BY <2>1, <2>2, <2>3, <2>4, <2>5, <2>6, <2>7, <2>8 DEF Next
<1>2. QED
  BY <1>1, InitInv, PTL DEF Spec

\* Every variable keeps its type, and the count of the slot is that of the list.
THEOREM TypeCorrect == Spec => []TypeOK
<1>1. IInv => TypeOK
  BY DEF IInv
<1>2. QED
  BY <1>1, Invariance, PTL

\* However many pictures and undos, and wherever the power is cut: a file in the
\* destination is in the journal and its run can be undone.
THEOREM MovesCanBeUndone == Spec => []MovedFilesCanBeUndone
<1>1. IInv => MovedFilesCanBeUndone
  BY DEF IInv, MovedFilesCanBeUndone, TracesAgree, MarkerIsTrue
<1>2. QED
  BY <1>1, Invariance, PTL

\* Nor does a move or an undo ever write over a file of someone else, or take one
\* for its own.
THEOREM ForeignFilesAreSafe == Spec => []ForeignFilesStay
<1>1. IInv => ForeignFilesStay
  BY DEF IInv
<1>2. QED
  BY <1>1, Invariance, PTL
-----------------------------------------------------------------------------
(* Library and disk *)

Away(i) == listed[i] \notin {"norow", place[i]}

\* A row that has lost its file has a run about to set it right, or a crash has
\* taken that run.
AwayInv ==
    \A i \in Images : Away(i) => i \in dropped \/ \E r \in Runs : HasMoved(r, i)

\* A step that only takes pictures up, passes them over or puts them down.
LEMMA NothingMoves ==
  ASSUME IInv, AwayInv, NEW r \in Runs, step[r] \notin {"moved", "restored"} \/ hand[r] = None,
         UNCHANGED <<place, listed, dropped>>,
         \A q \in Runs \ {r} : hand'[q] = hand[q] /\ step'[q] = step[q]
  PROVE  AwayInv'
<1>1. ASSUME NEW i \in Images, NEW q \in Runs, HasMoved(q, i)
      PROVE  HasMoved(q, i)'
  BY <1>1, PicturesAssumption DEF HasMoved, At
<1>2. QED
  BY <1>1 DEF AwayInv, Away

\* A run changes file or row of the picture in its hand: every other picture is as
\* it was, and this one is in order or still the run's to set right.
LEMMA OneMoves ==
  ASSUME IInv, AwayInv, NEW r \in Runs, NEW i \in Images, hand[r] = i,
         \A j \in Images \ {i} : place'[j] = place[j] /\ listed'[j] = listed[j],
         \A q \in Runs \ {r} : step'[q] = step[q],
         UNCHANGED <<hand, dropped>>,
         ~Away(i)' \/ HasMoved(r, i)'
  PROVE  AwayInv'
<1>1. ASSUME NEW j \in Images \ {i}, Away(j)' PROVE j \in dropped' \/ \E q \in Runs : HasMoved(q, j)'
  <2>1. Away(j)
    BY <1>1 DEF Away
  <2>2. ASSUME NEW q \in Runs, HasMoved(q, j) PROVE HasMoved(q, j)'
    BY <2>2 DEF HasMoved, At
  <2>3. QED
    BY <2>1, <2>2 DEF AwayInv
<1>2. QED
  BY <1>1 DEF AwayInv

\* The move run's steps with a picture.
LEMMA SortFinds ==
  ASSUME IInv, AwayInv, NEW i \in Images,
         SkipFile(i) \/ Intend(i) \/ MoveFile(i) \/ MoveFails(i)
         \/ ListFile(i) \/ ListFails(i) \/ Record(i)
  PROVE  AwayInv'
<1>0. FilesOK /\ FilesInv
  BY TypedParts
<1>s. Sort \in Runs
  BY DEF Runs
<1>1. CASE SkipFile(i) \/ Intend(i) \/ MoveFails(i) \/ Record(i)
  <2>1. /\ step[Sort] \notin {"moved", "restored"}
        /\ UNCHANGED <<place, listed, hand, dropped>>
        /\ \A q \in Runs \ {Sort} : step'[q] = step[q]
    BY <1>0, <1>1, <1>s DEF SkipFile, Intend, MoveFails, Record, At, Step, files, FilesOK
  <2>2. QED
    BY <2>1, <1>s, NothingMoves
<1>2. CASE MoveFile(i)
  <2>1. HasMoved(Sort, i)'
    BY <1>0, <1>2, <1>s DEF MoveFile, HasMoved, At, Step, FilesOK
  <2>2. QED
    BY <1>0, <1>2, <1>s, <2>1, OneMoves DEF MoveFile, At, Step, FilesOK
<1>3. CASE ListFile(i)
  <2>1. ~Away(i)'
    BY <1>0, <1>3 DEF ListFile, List, Away, FilesOK
  <2>2. QED
    BY <1>0, <1>3, <1>s, <2>1, OneMoves DEF ListFile, List, At, Step, FilesOK
<1>4. CASE ListFails(i)
  <2>1. ~Away(i)'
    BY <1>0, <1>4 DEF ListFails, Away, FilesOK, FilesInv, MoveIsTraced
  <2>2. QED
    BY <1>0, <1>4, <1>s, <2>1, OneMoves DEF ListFails, At, Step, FilesOK
<1>5. QED
  BY <1>1, <1>2, <1>3, <1>4

\* An undo's steps with a picture.
LEMMA UndoFinds ==
  ASSUME IInv, AwayInv, NEW u \in Undos, NEW i \in Images,
         LeaveBack(u, i) \/ Keep(u, i) \/ PutBack(u, i) \/ Relist(u, i)
  PROVE  AwayInv'
<1>0. FilesOK /\ FilesInv
  BY TypedParts
<1>s. u \in Runs
  BY DEF Runs
<1>1. CASE LeaveBack(u, i) \/ Keep(u, i)
  <2>1. /\ step[u] \notin {"moved", "restored"}
        /\ UNCHANGED <<place, listed, hand, dropped>>
        /\ \A q \in Runs \ {u} : step'[q] = step[q]
    BY <1>0, <1>1, <1>s DEF LeaveBack, Keep, At, Step, files, FilesOK
  <2>2. QED
    BY <2>1, <1>s, NothingMoves
<1>2. CASE PutBack(u, i)
  <2>1. HasMoved(u, i)'
    BY <1>0, <1>2, <1>s DEF PutBack, HasMoved, At, Step, FilesOK
  <2>2. \A j \in Images \ {i} : place'[j] = place[j] /\ listed'[j] = listed[j]
    BY <1>0, <1>2 DEF PutBack, FilesOK
  <2>3. QED
    BY <1>0, <1>2, <1>s, <2>1, <2>2, OneMoves DEF PutBack, At, Step, FilesOK
<1>3. CASE Relist(u, i)
  <2>1. ~Away(i)'
    BY <1>0, <1>3 DEF Relist, List, Away, FilesOK, FilesInv, UndoIsTraced
  <2>2. QED
    BY <1>0, <1>3, <1>s, <2>1, OneMoves DEF Relist, List, At, Step, FilesOK
<1>4. QED
  BY <1>1, <1>2, <1>3

\* Everything else.
LEMMA RestFinds ==
  ASSUME IInv, AwayInv,
         \/ SlotStep \/ Crash \/ UNCHANGED vars
         \/ \E i \in Images : Others(i) \/ SkipRow(i)
         \/ \E u \in Undos : ReadJournal(u) \/ FinishUndo(u)
         \/ \E r \in Runs, i \in Images : TakeUp(r, i)
         \/ \E r \in Runs : PutDown(r)
  PROVE  AwayInv'
<1>0. FilesOK /\ S!TypeOK /\ HandsAreBusy
  BY TypedParts
<1>1. CASE \/ SlotStep \/ UNCHANGED vars \/ \E i \in Images : SkipRow(i)
           \/ \E u \in Undos : ReadJournal(u) \/ FinishUndo(u)
  <2>1. UNCHANGED <<place, listed, hand, step, dropped>>
    BY <1>1 DEF SlotStep, SkipRow, ReadJournal, FinishUndo, vars, files, work
  <2>2. QED
    BY <2>1 DEF AwayInv, Away, HasMoved, At
<1>2. CASE Crash
  <2>1. /\ UNCHANGED <<place, listed>>
        /\ dropped' = dropped \cup {i \in Images : \E r \in Runs : HasMoved(r, i)}
    BY <1>2 DEF Crash, files
  <2>2. QED
    BY <2>1 DEF AwayInv, Away
<1>3. ASSUME NEW i \in Images, Others(i) PROVE AwayInv'
  <2>1. /\ UNCHANGED <<hand, step, dropped>>
        /\ \A j \in Images : Away(j)' => Away(j)
    BY <1>0, <1>3 DEF Others, Away, work, FilesOK
  <2>2. QED
    BY <2>1 DEF AwayInv, HasMoved, At
<1>4. ASSUME NEW r \in Runs, NEW i \in Images, TakeUp(r, i) PROVE AwayInv'
  <2>1. pc[r] = "working"
    BY <1>0, <1>4, BeginFileShape DEF TakeUp
  <2>2. hand[r] = None
    BY <1>0, <2>1 DEF HandsAreBusy
  <2>3. QED
    BY <1>0, <1>4, <2>2, NothingMoves DEF TakeUp, Step, files, FilesOK
<1>5. ASSUME NEW r \in Runs, PutDown(r) PROVE AwayInv'
  BY <1>0, <1>5, NothingMoves DEF PutDown, Step, files, FilesOK
<1>6. QED
  BY <1>1, <1>2, <1>3, <1>4, <1>5

\* Whatever is cancelled, reset, refused or undone twice, and whatever others do to
\* the files: a picture that library and disk disagree about, and no run has in
\* hand, was caught by a crash between its file and its row.
THEOREM LibraryAgrees == Spec => []LibraryFindsItsFiles
<1>1. Init => AwayInv
  BY DEF Init, AwayInv, Away
<1>2. IInv /\ AwayInv /\ [Next]_vars => AwayInv'
  <2> SUFFICES ASSUME IInv, AwayInv, [Next]_vars PROVE AwayInv'
    OBVIOUS
  <2>1. ASSUME NEW i \in Images, SortStep(i) PROVE AwayInv'
    BY <2>1, SortFinds, RestFinds DEF SortStep, Runs
  <2>2. ASSUME NEW u \in Undos, NEW i \in Images, UndoStep(u, i) PROVE AwayInv'
    BY <2>2, UndoFinds, RestFinds DEF UndoStep, Runs
  <2>3. QED
    BY <2>1, <2>2, RestFinds DEF Next
<1>3. AwayInv => LibraryFindsItsFiles
  BY DEF AwayInv, Away, LibraryFindsItsFiles, Astray, HasMoved, At
<1>4. QED
  BY <1>1, <1>2, <1>3, Invariance, PTL DEF Spec
=============================================================================
