------------------------------ MODULE BatchMove ------------------------------
(* A batch move and its undos: what they do to files, library rows and the    *)
(* run's journal (services/sorting/batch_move.py, batch_move_undo.py,         *)
(* move_journal.py, move.py), over the slot of BatchSlot. Every step the      *)
(* disk can keep is a step of its own: the process may stop between any two.  *)
(*                                                                            *)
(* A picture's file has four places: its home, its own name in the            *)
(* destination, a suffixed name there ("alt"), and any "other" place.         *)
EXTENDS Naturals, FiniteSets

CONSTANTS Images,
          Sort,        \* the move run
          Undos,       \* the requests to undo it
          Outside,     \* subset of {"move", "remove", "home", "dest"}: see Others
          Resets, MaxCrashes, None

ASSUME OutsideAssumption == Outside \subseteq {"move", "remove", "home", "dest"}
ASSUME PicturesAssumption == IsFiniteSet(Images) /\ None \notin Images
ASSUME RequestsAssumption == Sort \notin Undos /\ None \notin {Sort} \cup Undos

VARIABLES
    status, epoch, event, stopped, pc, mine, left, late, tooLate,  \* BatchSlot
    place,     \* where each picture's file is
    listed,    \* where the library says it is, or "norow"
    foreign,   \* <<picture, "home" | "dest">>: places another file has taken
    journal,   \* each picture: "none", "intent", or the place its done line names
    marked,    \* the .undone marker exists
    todo,      \* what each run has still to take up
    hand,      \* the picture each run has in hand, or None
    step,      \* how far it is with that picture
    seen,      \* the journal as each undo read it
    kept,      \* the files each undo left alone, with a reason
    robbed,    \* pictures for which an undo moved someone else's file
    early,     \* an undo read the journal of a run that was still at work
    dropped,   \* pictures whose file a crash left ahead of their row
    crashes

Runs == {Sort} \cup Undos

S == INSTANCE BatchSlot WITH Sorts <- {Sort}, MaxFiles <- Cardinality(Images)

slotVars == <<status, epoch, event, stopped, pc, mine, left, late, tooLate>>
files == <<place, listed, foreign, journal, marked>>
work == <<todo, hand, step, seen, kept>>
vars == <<slotVars, files, work, robbed, early, dropped, crashes>>

Phases == {"none", "intent", "dest", "alt"}
Steps == {"none", "taken", "intended", "moved", "listed", "restored", "settled"}
Targets == {"dest", "alt"}

Init ==
    /\ S!Init /\ left[Sort] = Cardinality(Images)
    /\ place = [i \in Images |-> "home"] /\ listed = [i \in Images |-> "home"]
    /\ foreign \in SUBSET {<<i, "dest">> : i \in Images}
    /\ journal = [i \in Images |-> "none"] /\ marked = FALSE
    /\ todo = [r \in Runs |-> IF r = Sort THEN Images ELSE {}]
    /\ hand = [r \in Runs |-> None] /\ step = [r \in Runs |-> "none"]
    /\ seen = [u \in Undos |-> journal]
    /\ kept = [u \in Undos |-> {}]
    /\ robbed = {} /\ early = FALSE /\ dropped = {} /\ crashes = 0

\* os.path.exists of one of the picture's places.
Exists(i, p) == place[i] = p \/ <<i, p>> \in foreign

At(r, i, from) == hand[r] = i /\ step[r] = from
Step(r, to) == step' = [step EXCEPT ![r] = to]

\* The run takes up its next file (BatchSlot looks at the cancel event).
TakeUp(r, i) ==
    /\ S!BeginFile(r)
    /\ i \in todo[r]
    /\ todo' = [todo EXCEPT ![r] = todo[r] \ {i}]
    /\ hand' = [hand EXCEPT ![r] = i]
    /\ Step(r, "taken")
    /\ UNCHANGED <<files, seen, kept, robbed, early, dropped, crashes>>

\* The move run passes over a picture whose row is gone.
SkipRow(i) ==
    /\ S!PassOver(Sort)
    /\ i \in todo[Sort] /\ listed[i] = "norow"
    /\ todo' = [todo EXCEPT ![Sort] = todo[Sort] \ {i}]
    /\ UNCHANGED <<files, hand, step, seen, kept, robbed, early, dropped, crashes>>

PutDown(r) ==
    /\ step[r] = "settled"
    /\ S!EndFile(r)
    /\ hand' = [hand EXCEPT ![r] = None]
    /\ Step(r, "none")
    /\ UNCHANGED <<files, todo, seen, kept, robbed, early, dropped, crashes>>

------------------------------------------------------------------------------
(* The move run                                                               *)

\* No file, an unreadable file or a journal that cannot be written.
SkipFile(i) ==
    /\ At(Sort, i, "taken")
    /\ Step(Sort, "settled")
    /\ UNCHANGED <<slotVars, files, todo, hand, seen, kept, robbed, early, dropped, crashes>>

\* The intent is on disk before the file is touched.
Intend(i) ==
    /\ At(Sort, i, "taken")
    /\ listed[i] = "home" /\ place[i] = "home"
    /\ journal' = [journal EXCEPT ![i] = "intent"]
    /\ Step(Sort, "intended")
    /\ UNCHANGED <<slotVars, place, listed, foreign, marked, todo, hand, seen, kept, robbed, early, dropped, crashes>>

\* The destination is taken under the file's own name: it gets a suffix.
Target(i) == IF <<i, "dest">> \in foreign THEN "alt" ELSE "dest"

MoveFile(i) ==
    /\ At(Sort, i, "intended") /\ place[i] = "home"
    /\ place' = [place EXCEPT ![i] = Target(i)]
    /\ Step(Sort, "moved")
    /\ UNCHANGED <<slotVars, listed, foreign, journal, marked, todo, hand, seen, kept, robbed, early, dropped, crashes>>

\* The file could not be moved; its intent line stays.
MoveFails(i) ==
    /\ At(Sort, i, "intended")
    /\ Step(Sort, "settled")
    /\ UNCHANGED <<slotVars, files, todo, hand, seen, kept, robbed, early, dropped, crashes>>

List(i, p) == listed' = [listed EXCEPT ![i] = IF listed[i] = "norow" THEN "norow" ELSE p]

ListFile(i) ==
    /\ At(Sort, i, "moved")
    /\ List(i, place[i])
    /\ Step(Sort, "listed")
    /\ UNCHANGED <<slotVars, place, foreign, journal, marked, todo, hand, seen, kept, robbed, early, dropped, crashes>>

\* The library refuses the new path: the file goes back (move_image). That this
\* way back fails too is left out.
ListFails(i) ==
    /\ At(Sort, i, "moved")
    /\ place' = [place EXCEPT ![i] = "home"]
    /\ Step(Sort, "settled")
    /\ UNCHANGED <<slotVars, listed, foreign, journal, marked, todo, hand, seen, kept, robbed, early, dropped, crashes>>

\* The done line; without it (the disk is full, the file is gone again) the
\* intent line stays and the run goes on.
Record(i) ==
    /\ At(Sort, i, "listed")
    /\ Step(Sort, "settled")
    /\ \/ place[i] \in Targets /\ journal' = [journal EXCEPT ![i] = place[i]]
       \/ UNCHANGED journal
    /\ UNCHANGED <<slotVars, place, listed, foreign, marked, todo, hand, seen, kept, robbed, early, dropped, crashes>>

SortStep(i) ==
    \/ TakeUp(Sort, i) \/ SkipRow(i) \/ SkipFile(i) \/ Intend(i) \/ MoveFile(i) \/ MoveFails(i)
    \/ ListFile(i) \/ ListFails(i) \/ Record(i)

------------------------------------------------------------------------------
(* An undo                                                                    *)

\* The journal exists once the worker runs; a marked run is refused (409), one
\* that is still at work is not.
ReadJournal(u) ==
    /\ pc[Sort] \notin {"new", "checked", "queued"}
    /\ ~marked
    /\ S!ReadJournal(u)
    /\ seen' = [seen EXCEPT ![u] = journal]
    /\ todo' = [todo EXCEPT ![u] = {i \in Images : journal[i] # "none"}]
    /\ left'[u] = Cardinality(todo'[u])
    /\ kept' = [kept EXCEPT ![u] = {}]
    /\ early' = (early \/ pc[Sort] \notin {"closing", "ended"})
    /\ UNCHANGED <<files, hand, step, robbed, dropped, crashes>>

ListedPath(i) == IF listed[i] # "norow" /\ Exists(i, listed[i]) THEN listed[i] ELSE None

\* A recorded file is already back when library and disk agree that it is home.
AlreadyBack(u, i) ==
    seen[u][i] \in Targets /\ listed[i] = "home" /\ Exists(i, "home")

\* The file of an interrupted move, found in the destination where the library
\* lists it or under its own name. Its size tells it from another file: two
\* files of one name are taken to differ in size.
\* (Fault: the size is not compared.)
MutInterruptedTarget(i) ==
    IF ListedPath(i) = "alt" THEN "alt"
    ELSE IF Exists(i, "dest") THEN "dest" ELSE None

InterruptedTarget(i) ==
    IF ListedPath(i) = "alt" THEN "alt"
    ELSE IF place[i] = "dest" THEN "dest" ELSE None

\* Where the file to put back is, or None when a reason keeps it.
ToPutBack(u, i) ==
    IF listed[i] = "norow" THEN None
    ELSE IF seen[u][i] \in Targets
    THEN IF ListedPath(i) = seen[u][i] THEN seen[u][i] ELSE None
    ELSE IF ListedPath(i) = "other" \/ Exists(i, "home") THEN None
    ELSE InterruptedTarget(i)

LeaveBack(u, i) ==
    /\ At(u, i, "taken") /\ AlreadyBack(u, i)
    /\ Step(u, "settled")
    /\ UNCHANGED <<slotVars, files, todo, hand, seen, kept, robbed, early, dropped, crashes>>

\* Nothing to put back, the home taken, or a file operation that fails.
\* (Fault: a file left alone is not counted.)
MutKeep(u, i) ==
    /\ At(u, i, "taken") /\ ~AlreadyBack(u, i)
    /\ Step(u, "settled")
    /\ UNCHANGED <<slotVars, files, todo, hand, seen, kept, robbed, early, dropped, crashes>>

Keep(u, i) ==
    /\ At(u, i, "taken") /\ ~AlreadyBack(u, i)
    /\ kept' = [kept EXCEPT ![u] = kept[u] \cup {i}]
    /\ Step(u, "settled")
    /\ UNCHANGED <<slotVars, files, todo, hand, seen, robbed, early, dropped, crashes>>

\* _restore_file_to_original_path refuses when another file is at home.
HomeIsFree(i) == ~Exists(i, "home")

PutBack(u, i) ==
    /\ At(u, i, "taken") /\ ~AlreadyBack(u, i)
    /\ ToPutBack(u, i) # None /\ HomeIsFree(i)
    /\ IF place[i] = ToPutBack(u, i)
       THEN place' = [place EXCEPT ![i] = "home"] /\ UNCHANGED <<foreign, robbed>>
       ELSE /\ foreign' = (foreign \ {<<i, "dest">>}) \cup {<<i, "home">>}
            /\ robbed' = robbed \cup {i}
            /\ UNCHANGED place
    /\ Step(u, "restored")
    /\ UNCHANGED <<slotVars, listed, journal, marked, todo, hand, seen, kept, early, dropped, crashes>>

\* (Fault: the library keeps the old path.)
MutRelist(u, i) ==
    /\ At(u, i, "restored")
    /\ Step(u, "settled")
    /\ UNCHANGED <<slotVars, files, todo, hand, seen, kept, robbed, early, dropped, crashes>>

Relist(u, i) ==
    /\ At(u, i, "restored")
    /\ List(i, "home")
    /\ Step(u, "settled")
    /\ UNCHANGED <<slotVars, place, foreign, journal, marked, todo, hand, seen, kept, robbed, early, dropped, crashes>>

\* The marker is written only when nothing was kept.
FinishUndo(u) ==
    /\ S!Complete(u)
    /\ marked' = (marked \/ kept[u] = {})
    /\ UNCHANGED <<place, listed, foreign, journal, work, robbed, early, dropped, crashes>>

UndoStep(u, i) ==
    TakeUp(u, i) \/ LeaveBack(u, i) \/ Keep(u, i) \/ PutBack(u, i) \/ Relist(u, i)

------------------------------------------------------------------------------
(* The slot, other people, and the power switch                               *)

SlotStep ==
    /\ \/ \E r \in Runs : \/ S!StartWork(r) \/ S!SeeCancel(r) \/ S!Fail(r) \/ S!Close(r)
                          \/ S!Check(r) \/ S!ClaimSort(r) \/ S!ClaimUndo(r) \/ S!RefuseUndo(r)
       \/ S!Complete(Sort) \/ S!Cancel \/ S!Reset
    /\ UNCHANGED <<files, work, robbed, early, dropped, crashes>>

\* Someone moves a sorted picture on, removes its row, saves another file at a
\* home that is free and not for the moment only, or one under its name in the
\* destination.
Others(i) ==
    /\ \/ /\ "move" \in Outside /\ place[i] \in Targets /\ listed[i] = place[i]
          /\ place' = [place EXCEPT ![i] = "other"]
          /\ listed' = [listed EXCEPT ![i] = "other"]
          /\ UNCHANGED foreign
       \/ /\ "remove" \in Outside /\ listed[i] # "norow"
          /\ listed' = [listed EXCEPT ![i] = "norow"]
          /\ UNCHANGED <<place, foreign>>
       \/ \E p \in Outside \cap {"home", "dest"} :
             /\ ~Exists(i, p) /\ (p = "home" => \A r \in Runs : hand[r] # i)
             /\ foreign' = foreign \cup {<<i, p>>}
             /\ UNCHANGED <<place, listed>>
    /\ UNCHANGED <<slotVars, journal, marked, work, robbed, early, dropped, crashes>>

\* The run has changed the file of the picture in its hand, and not yet its row.
HasMoved(r, i) == At(r, i, "moved") \/ At(r, i, "restored")

\* The process stops and starts again: the slot is as new, the move run is over
\* and an undo can be asked for once more.
Crash ==
    /\ crashes < MaxCrashes
    /\ crashes' = crashes + 1
    /\ status' = "idle" /\ epoch' = 0 /\ event' = None /\ stopped' = {}
    /\ pc' = [r \in Runs |-> IF r \in Undos \/ pc[r] = "new" THEN "new" ELSE "ended"]
    /\ hand' = [r \in Runs |-> None] /\ step' = [r \in Runs |-> "none"]
    /\ mine' = [r \in Runs |-> 0]
    /\ dropped' = dropped \cup {i \in Images : \E r \in Runs : HasMoved(r, i)}
    /\ UNCHANGED <<left, late, tooLate, files, todo, seen, kept, robbed, early>>

Next ==
    \/ SlotStep \/ Crash
    \/ \E i \in Images : SortStep(i) \/ Others(i)
    \/ \E u \in Undos : ReadJournal(u) \/ FinishUndo(u)
    \/ \E u \in Undos, i \in Images : UndoStep(u, i)
    \/ \E r \in Runs : PutDown(r)

Spec == Init /\ [][Next]_vars

------------------------------------------------------------------------------
(* Properties                                                                 *)

TypeOK ==
    /\ S!TypeOK
    /\ place \in [Images -> Targets \cup {"home", "other"}]
    /\ listed \in [Images -> Targets \cup {"home", "other", "norow"}]
    /\ foreign \subseteq Images \X {"home", "dest"}
    /\ journal \in [Images -> Phases] /\ marked \in BOOLEAN
    /\ todo \in [Runs -> SUBSET Images]
    /\ hand \in [Runs -> Images \cup {None}] /\ step \in [Runs -> Steps]
    /\ seen \in [Undos -> [Images -> Phases]]
    /\ kept \in [Undos -> SUBSET Images] /\ early \in BOOLEAN /\ dropped \subseteq Images
    /\ \A r \in Runs : pc[r] = "working" => left[r] = Cardinality(todo[r])

\* Whatever stopped the run or its undo, each file that is still where the run
\* put it can be undone: it is in the journal (batch_move.py:422-449), and the run
\* is not marked undone, which would refuse it from then on
\* (batch_move_undo.py:261-264). An undo asked for while the run is at work knows
\* only the part of the journal it read, and marks the run all the same.
MovedFilesCanBeUndone ==
    \A i \in Images : place[i] \in Targets => journal[i] # "none" /\ (marked => early)

\* Library and disk agree on every picture no run has in hand, whatever was
\* cancelled, refused or undone meanwhile: only a crash leaves one astray, and only
\* one whose file a run had changed and whose row it had not (move_image and
\* _restore_file_to_original_path change the file first and the row second).
Astray == {i \in Images : /\ listed[i] \notin {"norow", place[i]}
                          /\ \A r \in Runs : hand[r] # i}
LibraryFindsItsFiles == Astray \subseteq dropped

\* Files of others are left alone: another file under its name is not taken for
\* the run's file (tests/test_batch_move_journal_crash.py:198), and neither a move
\* nor an undo writes over one (image_manager.py:1183, move.py:176-183).
ForeignFilesStay ==
    /\ robbed = {}
    /\ \A i \in Images : place[i] \in {"home", "dest"} => <<i, place[i]>> \notin foreign
==============================================================================
