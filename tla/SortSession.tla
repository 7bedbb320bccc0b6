----------------------------- MODULE SortSession -----------------------------
(* The manual sort session in slot (WASD) mode: services/sorting/session.py,  *)
(* its file (sorting_session_store.py) and the restore at start-up            *)
(* (session_state.py). GET /sort/current, POST set-folders, DELETE session     *)
(* are `async def` routes and run one at a time on the event loop;            *)
(* POST /sort/start and POST /sort/action run on pool threads beside it. The  *)
(* session lock is held for a whole sort action, but a read of the current    *)
(* picture and a start let go of it half way, and a clear removes the file    *)
(* after letting go.                                                          *)
EXTENDS Naturals, Sequences, FiniteSets, SequencesExt, Subsequences

CONSTANTS Images,      \* ids of library pictures
          Lists,       \* the id lists a start may select: sequences without repeats
          Effects,     \* the deciding keys with an effect: a subset of {"move", "collect"}
          Starters,    \* pool threads that may be starting a session
          Failures,    \* what happens to pictures: a subset of {"vanish", "return", "delete"}
          Clears,      \* whether sessions are cleared
          MaxCrashes,  \* bound: crashes of one behaviour
          MaxUnsaved,  \* bound: failed saves of one behaviour
          None         \* no request, no pending action, no file

ASSUME ListsAssumption ==
    \A l \in Lists : /\ l \in Seq(Images)
                     /\ \A p, q \in 1..Len(l) : l[p] = l[q] => p = q
ASSUME EffectsAssumption == Effects \subseteq {"move", "collect"}
ASSUME FailuresAssumption ==
    Failures \subseteq {"vanish", "return", "delete"}

\* An entry of history or redo stack; `prior`: the effect was there before the key.
Entries == [action : {"move", "collect", "skip"}, image : Images, prior : BOOLEAN]

ASSUME NoneAssumption ==
    /\ None \notin [ids : Seq(Images), replace : BOOLEAN]
    /\ None \notin [kind : {"decide", "undo", "redo"}, entry : Entries]
    /\ None \notin [active : BOOLEAN, ids : Seq(Images), index : Nat,
                    history : Seq(Entries), redo : Seq(Entries), slots : BOOLEAN]

VARIABLES
    active, ids, index, history, redo, slots, \* _sort_session; index is zero-based
    saved,       \* _sort_session_save_error is None
    disk,        \* the session file, or None
    unsaved,     \* saves that failed
    image,       \* each picture: "ok", "nofile" (no readable file), "norow"
    applied,     \* {<<picture, key>>}: moved into its slot folder / in its collection
    base,        \* what was applied when the session in memory began
    pending,     \* the sort action that holds the lock, its effect done, or None
    loop,        \* the event loop: the step of the GET or the clear it runs
    looked,      \* the picture GET read from the session before it let go of the lock
    request,     \* [Starters -> the start that passed the 409 check, or None]
    crashes

memory == <<active, ids, index, history, redo, slots>>
library == <<image, applied>>
file == <<saved, disk, unsaved>>
vars == <<memory, file, library, base, pending, loop, looked, request, crashes>>

Keys == Effects \cup {"skip"}
Positions(l) == [i \in ToSet(l) |-> CHOOSE p \in 1..Len(l) : l[p] = i]

LockFree == pending = None

Unfinished == active /\ index < Len(ids)
Current == ids[index + 1]

Persisted == [active |-> active, ids |-> ids, index |-> index,
              history |-> history, redo |-> redo, slots |-> slots]

\* Write the session that memory holds after this step; a failed write leaves
\* the old file (temp file, then replace) and is remembered.
Save ==
    \/ /\ saved' = TRUE /\ disk' = Persisted'
       /\ UNCHANGED unsaved
    \/ /\ unsaved < MaxUnsaved
       /\ saved' = FALSE /\ unsaved' = unsaved + 1
       /\ UNCHANGED disk

Init ==
    /\ active = FALSE /\ ids = <<>> /\ index = 0 /\ history = <<>> /\ redo = <<>>
    /\ slots = FALSE /\ saved = TRUE /\ disk = None /\ unsaved = 0
    /\ image = [i \in Images |-> "ok"] /\ applied = {} /\ base = {}
    /\ pending = None /\ loop = "idle" /\ looked = None
    /\ request = [s \in Starters |-> None]
    /\ crashes = 0

------------------------------------------------------------------------------
(* POST /sort/start                                                           *)

\* The 409 check, under the lock; the lock is then let go to select the ids.
StartAllowed(replace) == ~Unfinished \/ replace

BeginStart(s, l, replace) ==
    /\ LockFree /\ request[s] = None
    /\ StartAllowed(replace)
    /\ \A i \in ToSet(l) : image[i] # "norow"
    /\ request' = [request EXCEPT ![s] = [ids |-> l, replace |-> replace]]
    /\ UNCHANGED <<memory, file, library, base, pending, loop, looked, crashes>>

\* The lock is taken again and the session replaced, whatever it is by now.
\* (Fault: the redo stack of the last session is kept.)
MutCommitStart(s) ==
    /\ LockFree /\ request[s] # None
    /\ active' = TRUE /\ ids' = request[s].ids /\ index' = 0
    /\ history' = <<>> /\ redo' = redo /\ slots' \in BOOLEAN
    /\ base' = applied
    /\ Save
    /\ request' = [request EXCEPT ![s] = None]
    /\ UNCHANGED <<library, pending, loop, looked, crashes>>

CommitStart(s) ==
    /\ LockFree /\ request[s] # None
    /\ active' = TRUE /\ ids' = request[s].ids /\ index' = 0
    /\ history' = <<>> /\ redo' = <<>> /\ slots' \in BOOLEAN
    /\ base' = applied
    /\ Save
    /\ request' = [request EXCEPT ![s] = None]
    /\ UNCHANGED <<library, pending, loop, looked, crashes>>

------------------------------------------------------------------------------
(* GET /sort/current: a loop that walks past pictures it cannot show          *)

BeginGet ==
    /\ loop = "idle" /\ Unfinished
    /\ loop' = "read"
    /\ UNCHANGED <<memory, file, library, base, pending, looked, request, crashes>>

GetRead ==
    /\ loop = "read" /\ LockFree
    /\ IF Unfinished THEN loop' = "look" /\ looked' = Current
                     ELSE loop' = "idle" /\ looked' = None
    /\ UNCHANGED <<memory, file, library, base, pending, request, crashes>>

\* The row and the file are read without the lock.
GetLook ==
    /\ loop = "look"
    /\ looked' = None
    /\ loop' = IF image[looked] = "ok" THEN "idle" ELSE "advance"
    /\ UNCHANGED <<memory, file, library, base, pending, request, crashes>>

\* The lock is taken again and one is added to the index there is by now.
\* (Fault: the cursor is not moved.)
MutGetAdvanceStays ==
    /\ loop = "advance" /\ LockFree
    /\ index' = index
    /\ UNCHANGED <<active, ids, history, redo, slots>>
    /\ Save
    /\ loop' = "read"
    /\ UNCHANGED <<library, base, pending, looked, request, crashes>>

GetAdvance ==
    /\ loop = "advance" /\ LockFree
    /\ index' = index + 1
    /\ UNCHANGED <<active, ids, history, redo, slots>>
    /\ Save
    /\ loop' = "read"
    /\ UNCHANGED <<library, base, pending, looked, request, crashes>>

------------------------------------------------------------------------------
(* POST /sort/action: the lock is held from the first check to the save. The  *)
(* file or database effect comes first; `pending` is the rest of the action.  *)
(* An action that fails (no folder for the key, no file, a file operation     *)
(* that raises, nothing to undo) restores the stacks and changes nothing.     *)

Begins == LockFree /\ active
Holds(kind, e) == pending' = [kind |-> kind, entry |-> e]

Present(i) == image[i] # "norow"

\* move needs a folder and a readable file, collect an assigned collection.
Feasible(key, i) ==
    /\ Present(i)
    /\ key # "skip" => slots
    /\ key = "move" => image[i] = "ok"

BeginDecide(key) ==
    /\ Begins /\ index < Len(ids) /\ Feasible(key, Current)
    /\ Holds("decide", [action |-> key, image |-> Current,
                        prior |-> <<Current, key>> \in applied])
    /\ applied' = IF key = "skip" THEN applied ELSE applied \cup {<<Current, key>>}
    /\ UNCHANGED <<memory, file, image, base, loop, looked, request, crashes>>

\* The picture's row is gone: the cursor steps over it, nothing is recorded.
StepOverMissingRow ==
    /\ Begins /\ index < Len(ids) /\ ~Present(Current)
    /\ index' = index + 1
    /\ UNCHANGED <<active, ids, history, redo, slots>>
    /\ Save
    /\ UNCHANGED <<library, base, pending, loop, looked, request, crashes>>

\* A move is taken back to where its entry says it came from; a picture whose
\* row or file cannot be found is left alone, and the undo goes on.
\* (Fault: what was there before the key is taken out as well.)
MutTakeBack(e) ==
    IF e.action = "skip" \/ (e.action = "move" /\ image[e.image] # "ok")
    THEN applied
    ELSE applied \ {<<e.image, e.action>>}

TakeBack(e) ==
    IF e.prior \/ e.action = "skip" \/ (e.action = "move" /\ image[e.image] # "ok")
    THEN applied
    ELSE applied \ {<<e.image, e.action>>}

BeginUndo ==
    /\ Begins /\ history # <<>>
    /\ Holds("undo", Last(history))
    /\ applied' = TakeBack(Last(history))
    /\ UNCHANGED <<memory, file, image, base, loop, looked, request, crashes>>

RedoFeasible(e) ==
    \/ e.action = "skip"
    \/ e.action = "collect" /\ Present(e.image)
    \/ e.action = "move" /\ slots /\ image[e.image] = "ok"

BeginRedo ==
    /\ Begins /\ redo # <<>> /\ RedoFeasible(Last(redo))
    /\ Holds("redo", Last(redo))
    /\ applied' = IF Last(redo).action = "skip" THEN applied
                  ELSE applied \cup {<<Last(redo).image, Last(redo).action>>}
    /\ UNCHANGED <<memory, file, image, base, loop, looked, request, crashes>>

Finish(kind) ==
    /\ pending # None /\ pending.kind = kind
    /\ pending' = None
    /\ UNCHANGED <<active, ids, slots, library, base, loop, looked, request, crashes>>

\* (Fault: a new decision leaves the redo stack as it is.)
MutFinishDecide ==
    /\ Finish("decide")
    /\ history' = Append(history, pending.entry)
    /\ redo' = redo
    /\ index' = index + 1
    /\ Save

FinishDecide ==
    /\ Finish("decide")
    /\ history' = Append(history, pending.entry)
    /\ redo' = <<>>
    /\ index' = index + 1
    /\ Save

\* The save is skipped when the index is still past the end of the list.
FinishUndo ==
    /\ Finish("undo")
    /\ history' = Front(history)
    /\ redo' = Append(redo, pending.entry)
    /\ index' = IF index = 0 THEN 0 ELSE index - 1
    /\ IF index' < Len(ids) THEN Save ELSE UNCHANGED file

FinishRedo ==
    /\ Finish("redo")
    /\ redo' = Front(redo)
    /\ history' = Append(history, pending.entry)
    /\ index' = index + 1
    /\ Save

------------------------------------------------------------------------------
(* Folders and collections of the keys; clearing the session                  *)

SetFolders ==
    /\ loop = "idle" /\ LockFree
    /\ slots' = ~slots
    /\ UNCHANGED <<active, ids, index, history, redo>>
    /\ Save
    /\ UNCHANGED <<library, base, pending, loop, looked, request, crashes>>

\* The state goes back to its default under the lock, the file after it.
Clear ==
    /\ Clears /\ loop = "idle" /\ LockFree
    /\ active' = FALSE /\ ids' = <<>> /\ index' = 0 /\ history' = <<>> /\ redo' = <<>>
    /\ slots' = FALSE /\ saved' = TRUE /\ base' = applied
    /\ loop' = "unlink"
    /\ UNCHANGED <<disk, unsaved, library, pending, looked, request, crashes>>

RemoveFile ==
    /\ loop = "unlink"
    /\ disk' = None
    /\ loop' = "idle"
    /\ UNCHANGED <<memory, saved, unsaved, library, base, pending, looked, request, crashes>>

------------------------------------------------------------------------------
(* The process dies and comes back: load_session_from_disk                    *)

\* Positions are those of the list on disk; ids without a row are dropped, and
\* with them their entries and the share of the index they stood for.
\* The index may lie past the end of the list; counting places up to it clamps it,
\* as the code does by hand.
Restored(f) ==
    LET position   == Positions(f.ids)
        rows       == {p \in DOMAIN f.ids : Present(f.ids[p])}
        known(e)   == e.image \in ToSet(f.ids) /\ Present(e.image)
        past       == {k \in DOMAIN f.history :
                         known(f.history[k]) /\ position[f.history[k].image] <= f.index}
        decided    == {e.image : e \in {x \in ToSet(f.history) : known(x)}}
        ahead      == {k \in DOMAIN f.redo :
                         /\ known(f.redo[k]) /\ f.redo[k].image \notin decided
                         /\ position[f.redo[k].image] > f.index}
    IN  [active  |-> TRUE,
         ids     |-> Pick(f.ids, rows),
         index   |-> Cardinality({p \in rows : p <= f.index}),
         history |-> Pick(f.history, past),
         redo    |-> Pick(f.redo, ahead),
         slots   |-> f.slots]

Resumes == disk # None /\ disk.active /\ \E i \in ToSet(disk.ids) : Present(i)

Restore ==
    IF Resumes
    THEN LET r == Restored(disk)
         IN  /\ active' = TRUE /\ ids' = r.ids /\ index' = r.index
             /\ history' = r.history /\ redo' = r.redo /\ slots' = r.slots
             /\ Save
    ELSE /\ active' = FALSE /\ ids' = <<>> /\ index' = 0
         /\ history' = <<>> /\ redo' = <<>> /\ slots' = FALSE /\ saved' = TRUE
         /\ disk' = IF disk # None /\ disk.active THEN None ELSE disk
         /\ UNCHANGED unsaved

CrashAndRestart ==
    /\ crashes < MaxCrashes
    /\ Restore
    /\ pending' = None /\ loop' = "idle" /\ looked' = None
    /\ request' = [s \in Starters |-> None]
    /\ crashes' = crashes + 1
    /\ base' = IF Resumes THEN base ELSE applied
    /\ UNCHANGED library

------------------------------------------------------------------------------
(* The library under the session: files go away and come back, rows go        *)

Damage(i) ==
    /\ \/ "vanish" \in Failures /\ image[i] = "ok"     /\ image' = [image EXCEPT ![i] = "nofile"]
       \/ "return" \in Failures /\ image[i] = "nofile" /\ image' = [image EXCEPT ![i] = "ok"]
       \/ "delete" \in Failures /\ image[i] # "norow"  /\ image' = [image EXCEPT ![i] = "norow"]
    /\ UNCHANGED <<memory, file, applied, base, pending, loop, looked, request, crashes>>

LoopStep == GetRead \/ GetLook \/ GetAdvance \/ RemoveFile
FinishAction == FinishDecide \/ FinishUndo \/ FinishRedo

Request ==
    \/ \E s \in Starters, l \in Lists, replace \in BOOLEAN : BeginStart(s, l, replace)
    \/ BeginGet \/ BeginUndo \/ BeginRedo \/ StepOverMissingRow \/ SetFolders \/ Clear
    \/ \E key \in Keys : BeginDecide(key)

Next ==
    \/ Request \/ LoopStep \/ FinishAction
    \/ \E s \in Starters : CommitStart(s)
    \/ CrashAndRestart
    \/ \E i \in Images : Damage(i)

\* A request that was accepted is run to its end by its thread.
Fairness == /\ WF_vars(LoopStep)
            /\ WF_vars(FinishAction)
            /\ \A s \in Starters : WF_vars(CommitStart(s))

Spec == Init /\ [][Next]_vars /\ Fairness

------------------------------------------------------------------------------
(* Properties                                                                 *)

\* No picture is decided twice in one session, and a decided one lies behind the
\* cursor, redone ones included (session.py:535-715): undo steps one place back
\* whatever GET stepped over, and still no interleaving of reads, actions, starts
\* and clears brings a decided picture under the cursor again, nor does redo
\* decide a picture still to be shown.  A restart may drop a redo entry and leave
\* the next one out of line (session_state.py:565), so nothing is said after one.
DecidedOnceBehindCursor ==
    crashes = 0 => \A p \in DOMAIN history :
        /\ \A q \in DOMAIN history : history[p].image = history[q].image => p = q
        /\ \E k \in DOMAIN ids : k <= index /\ ids[k] = history[p].image

Recorded == {<<e.image, e.action>> : e \in {x \in ToSet(history) : ~x.prior /\ x.action # "skip"}}
Unrecorded == applied \ (base \cup Recorded)
Phantom == (base \cup Recorded) \ applied

\* Files and collections are what the history says, but for one effect per
\* crash between a file operation and the save that records it
\* (session.py:614-643, 714), as long as every save succeeded: neither an
\* effect that undo cannot reach nor an entry whose effect is gone piles up.
EffectsAreRecorded ==
    pending = None /\ unsaved = 0 =>
        Cardinality(Unrecorded) + Cardinality(Phantom) <= crashes

\* GET's loop over broken pictures ends, once the other requests pause: while it
\* runs it blocks the event loop (routers/sorting.py:730).
GetAnswers ==
    <>[][~Request]_vars => (loop # "idle" ~> loop = "idle")

\* The session is an undo log on a list, durable whenever the page was told so.
UndoLogOf(f) ==
    LET key(e) == <<e.image, e.action>>
        entries == f.history \o Reverse(f.redo)
    IN  [list  |-> f.ids,
         trail |-> [k \in DOMAIN entries |-> key(entries[k])],
         at    |-> f.index]

Log == INSTANCE UndoLog WITH
    Pictures  <- Images,
    Decisions <- Keys,
    log       <- UndoLogOf(Persisted),
    stable    <- IF disk = None THEN UndoLogOf([ids |-> <<>>, history |-> <<>>,
                                                redo |-> <<>>, index |-> 0])
                 ELSE UndoLogOf(disk),
    saved     <- saved

\* While no picture goes missing and no session is cleared, the session
\* implements UndoLog: cursor, history and redo stack move as one, a crash at
\* any point resumes from the last save, and "saved" is never wrong.
ImplementsUndoLog == Log!Spec

==============================================================================
