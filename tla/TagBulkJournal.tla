--------------------------- MODULE TagBulkJournal ---------------------------
(***************************************************************************)
(* Bulk edits of tags and their undo journal                               *)
(* (src/backend/routers/tags_bulk.py, tags_bulk_journal_ops.py,            *)
(* services/tag_bulk_journal.py).  One bulk operation or undo runs at a    *)
(* time; taggers, captioners and imports write tags beside it, each in one *)
(* transaction.  A bulk operation reads its pictures outside its own       *)
(* transaction, chunk by chunk, writes in that transaction, and journals   *)
(* in a second one; an undo restores picture by picture, a transaction     *)
(* each, journals itself, and then marks the operation.                    *)
(*                                                                         *)
(* A picture stands for a chunk, pictures are taken in any order, and the  *)
(* rows of a picture map folded tag names to their spelling and grade of   *)
(* confidence: the digest of rows is their domain.                         *)
(***************************************************************************)
EXTENDS Naturals, FiniteSets

CONSTANTS
    Images,
    Tags,       \* tag names, case folded
    Spellings,  \* how a name can be written
    Requests,   \* bulk operations a client may ask for
    Foreign,    \* rows that other writers leave
    StartRows,  \* the rows of every picture at first
    MaxImages,  \* MAX_JOURNAL_IMAGES
    MaxOps,     \* MAX_RETAINED_OPS
    MaxRuns,    \* bound: bulk operations and undos together
    MaxWrites,  \* bound: writes and deletions by others
    MaxStops    \* bound: failing steps and crashes

Grades == {1, 2}
Rows == UNION {[N -> Spellings \X Grades] : N \in SUBSET Tags}
NoRows == [t \in {} |-> 0]
NoTag == "no tag"

FindReplaces == [kind : {"find_replace"}, find : Tags, put : Tags \cup {NoTag}, as : Spellings]
BulkAdds == [kind : {"bulk_add"}, add : SUBSET Tags, as : Spellings, grade : Grades]
BulkRemoves == [kind : {"bulk_remove"}, drop : SUBSET Tags]
Cleanups == [kind : {"cleanup"}, least : Nat]

ASSUME JournalAssumption ==
    /\ Requests \subseteq FindReplaces \cup BulkAdds \cup BulkRemoves \cup Cleanups
    /\ Foreign \subseteq Rows
    /\ StartRows \in Rows
    /\ MaxImages \in Nat /\ MaxOps \in Nat \ {0} /\ MaxRuns \in Nat
    /\ MaxWrites \in Nat /\ MaxStops \in Nat

VARIABLES
    tags,       \* table tags, what is committed
    alive,      \* the pictures that have a row in table images
    journal,    \* table tag_bulk_ops, by the number of the insertion
    recorded,   \* insertions so far
    pc,         \* where the run is that holds _op_run_lock; "idle" when none
    request,    \* the bulk operation of that run
    undoing,    \* the journal row that it undoes; 0 for a bulk operation
    force,      \* BulkUndoRequest.force
    todo,       \* pictures still to be handled
    at,         \* the pictures read and not yet written: none or one
    seen,       \* what was read
    written,    \* what this run has written (a bulk operation: not committed yet)
    buffer,     \* JournalBuffer.serialized_json
    full,       \* JournalBuffer.truncated
    runs, writes, stops,    \* counters of the bounds
    author,     \* history: the run that wrote a picture last; 0 for others
    prior,      \* history: the rows before that write
    raced       \* history: <<run, picture>>, someone wrote between read and write

tables == <<tags, alive, journal, recorded>>
runVars == <<pc, request, undoing, force, todo, at, seen, written, buffer, full>>
history == <<author, prior, raced>>
vars == <<tables, runVars, runs, writes, stops, history>>

Names(rows) == DOMAIN rows
Empty == [i \in {} |-> NoRows]
Over(f, g) == [i \in DOMAIN f \cup DOMAIN g |-> IF i \in DOMAIN f THEN f[i] ELSE g[i]]

-----------------------------------------------------------------------------
(* What the four operations make of the rows of a picture *)

Matched(rows, op) == op.find \in Names(rows)

\* Names that meet keep the row with the higher confidence; the row a rename
\* makes is as sure as the row it renames.
Renamed(rows, op) ==
    LET kept == [t \in Names(rows) \ {op.find} |-> rows[t]]
        new == [t \in {op.put} |-> <<op.as, rows[op.find][2]>>]
    IN  IF op.put = NoTag THEN kept
        ELSE IF op.put \in Names(kept) /\ kept[op.put][2] >= new[op.put][2]
        THEN kept ELSE Over(new, kept)

Lacking(rows, op) == op.add \ Names(rows)
Extended(rows, op) == Over(rows, [t \in Lacking(rows, op) |-> <<op.as, op.grade>>])

Dropped(rows, op) == Names(rows) \cap op.drop
Reduced(rows, op) == [t \in Names(rows) \ op.drop |-> rows[t]]

Unsure(rows, op) == {t \in Names(rows) : rows[t][2] < op.least}
Cleaned(rows, op) == [t \in Names(rows) \ Unsure(rows, op) |-> rows[t]]

Affects(op, rows) ==
    \/ op.kind = "find_replace" /\ Matched(rows, op)
    \/ op.kind = "bulk_add" /\ Lacking(rows, op) # {}
    \/ op.kind = "bulk_remove" /\ Dropped(rows, op) # {}
    \/ op.kind = "cleanup" /\ Unsure(rows, op) # {}

Rewritten(op, rows) ==
    CASE op.kind = "find_replace" -> Renamed(rows, op)
      [] op.kind = "bulk_add"     -> Extended(rows, op)
      [] op.kind = "bulk_remove"  -> Reduced(rows, op)
      [] op.kind = "cleanup"      -> Cleaned(rows, op)

NoRequest == [kind |-> "none"]

Init ==
    /\ tags = [i \in Images |-> StartRows] /\ alive = Images
    /\ journal = Empty /\ recorded = 0
    /\ pc = "idle" /\ request = NoRequest /\ undoing = 0 /\ force = FALSE
    /\ todo = {} /\ at = {} /\ seen = NoRows
    /\ written = Empty /\ buffer = Empty /\ full = FALSE
    /\ runs = 0 /\ writes = 0 /\ stops = 0
    /\ author = [i \in Images |-> 0]
    /\ prior = [i \in Images |-> StartRows]
    /\ raced = {}

-----------------------------------------------------------------------------
(* The lock, the buffer and the writer *)

\* _run_exclusive: the lock is there or the request is refused.
Acquire(where, op, id, forced, pictures) ==
    /\ pc = "idle"
    /\ runs < MaxRuns /\ runs' = runs + 1
    /\ pc' = where /\ request' = op /\ undoing' = id /\ force' = forced
    /\ todo' = pictures /\ at' = {} /\ seen' = NoRows
    /\ written' = Empty /\ buffer' = Empty /\ full' = FALSE
    /\ UNCHANGED <<tables, writes, stops, history>>

\* The finally of _run_exclusive; nothing of the run is left in memory.
\* (Fault: a failure keeps the lock.)
MutRelease == pc' = "held" /\ UNCHANGED <<request, undoing, force, todo, at, seen, written, buffer, full>>
Release ==
    /\ pc' = "idle" /\ request' = NoRequest /\ undoing' = 0 /\ force' = FALSE
    /\ todo' = {} /\ at' = {} /\ seen' = NoRows
    /\ written' = Empty /\ buffer' = Empty /\ full' = FALSE

\* append_journal_entry: one picture or one byte too many empties the buffer for
\* good.  (Fault: only the entry that did not fit is left out.)
Keep(i, before, after) ==
    /\ buffer' = Over(buffer, [j \in {i} |-> [before |-> before, after |-> after]])
    /\ full' = full
MutAppendEntry(i, before, after) ==
    IF Cardinality(DOMAIN buffer) < MaxImages
    THEN Keep(i, before, after) \/ UNCHANGED <<buffer, full>>
    ELSE UNCHANGED <<buffer, full>>
AppendEntry(i, before, after) ==
    \/ ~full /\ Cardinality(DOMAIN buffer) < MaxImages /\ Keep(i, before, after)
    \/ buffer' = Empty /\ full' = TRUE

\* Foreign keys: a picture that is gone takes no tag.
Storable(i, rows) == i \in alive \/ rows = NoRows

\* The bulk transaction has SQLite's write lock from its first write on.
WriteLocked == pc \in {"read", "write"} /\ written # Empty

Put(i, rows) ==
    /\ tags' = [tags EXCEPT ![i] = rows]
    /\ prior' = [prior EXCEPT ![i] = tags[i]]

-----------------------------------------------------------------------------
(* A bulk operation *)

Bulk(op, scope) == Acquire("read", op, 0, FALSE, scope)

\* get_image_tags_map: a connection of its own, so only what is committed.
ReadPicture(i) ==
    /\ pc = "read" /\ i \in todo
    /\ pc' = "write" /\ at' = {i} /\ seen' = tags[i]
    /\ UNCHANGED <<tables, request, undoing, force, todo, written, buffer, full, runs, writes, stops, history>>

SkipPicture(i) ==
    /\ pc = "write" /\ i \in at
    /\ ~Affects(request, seen)
    /\ pc' = "read" /\ todo' = todo \ at /\ at' = {} /\ seen' = NoRows
    /\ UNCHANGED <<tables, request, undoing, force, written, buffer, full, runs, writes, stops, history>>

WritePicture(i) ==
    LET new == Rewritten(request, seen) IN
    /\ pc = "write" /\ i \in at
    /\ Affects(request, seen) /\ Storable(i, new)
    /\ AppendEntry(i, seen, new)
    /\ written' = Over([j \in {i} |-> new], written)
    /\ pc' = "read" /\ todo' = todo \ at /\ at' = {} /\ seen' = NoRows
    /\ UNCHANGED <<tables, request, undoing, force, runs, writes, stops, history>>

\* _commit_tag_updates: the failure of one picture takes the transaction back.
RollBack(i) ==
    /\ pc = "write" /\ i \in at
    /\ Affects(request, seen) /\ ~Storable(i, Rewritten(request, seen))
    /\ Release
    /\ UNCHANGED <<tables, runs, writes, stops, history>>

\* The end of tag_update_transaction; nothing is journalled when nothing changed.
Commit ==
    /\ pc = "read" /\ todo = {}
    /\ tags' = Over(written, tags)
    /\ prior' = [i \in Images |-> IF i \in DOMAIN written THEN tags[i] ELSE prior[i]]
    /\ author' = [i \in Images |-> IF i \in DOMAIN written THEN runs ELSE author[i]]
    /\ \/ written # Empty /\ pc' = "record"
          /\ UNCHANGED <<request, undoing, force, todo, at, seen, written, buffer, full>>
       \/ written = Empty /\ Release
    /\ UNCHANGED <<alive, journal, recorded, runs, writes, stops, raced>>

-----------------------------------------------------------------------------
(* The journal *)

Entry ==
    [run |-> runs, entries |-> buffer, truncated |-> full, undone |-> FALSE,
     wrote |-> DOMAIN written]

\* record_op: insert, and keep the newest MAX_RETAINED_OPS.  A failure is only a
\* warning, for a bulk operation and for an undo alike.
Retained(k) == k + MaxOps > recorded + 1
RecordOp ==
    /\ pc = "record"
    /\ \/ /\ recorded' = recorded + 1
          /\ journal' = Over([k \in {recorded + 1} |-> Entry],
                             [k \in {k \in DOMAIN journal : Retained(k)} |-> journal[k]])
          /\ stops' = stops
       \/ /\ stops < MaxStops /\ stops' = stops + 1
          /\ UNCHANGED <<journal, recorded>>
    /\ IF undoing = 0 THEN Release
       ELSE pc' = "mark" /\ UNCHANGED <<request, undoing, force, todo, at, seen, written, buffer, full>>
    /\ UNCHANGED <<tags, alive, runs, writes, history>>

Available(k) == k \in DOMAIN journal /\ ~journal[k].truncated /\ ~journal[k].undone

\* undo_op up to its loop.
Undo(k, forced) ==
    /\ Available(k)
    /\ Acquire("check", NoRequest, k, forced, DOMAIN journal[k].entries)

EntryOf(i) == journal[undoing].entries[i]

\* A picture whose names are not those the operation left is skipped.
\* (Fault: the digest is not looked at.)
MutConflict(i) == FALSE
Conflict(i) == ~force /\ Names(tags[i]) # Names(EntryOf(i).after)

SkipConflict(i) ==
    /\ pc = "check" /\ i \in todo
    /\ Conflict(i)
    /\ todo' = todo \ {i}
    /\ UNCHANGED <<tables, pc, request, undoing, force, at, seen, written, buffer, full, runs, writes, stops, history>>

CheckPicture(i) ==
    /\ pc = "check" /\ i \in todo
    /\ ~Conflict(i)
    /\ pc' = "restore" /\ at' = {i} /\ seen' = tags[i]
    /\ UNCHANGED <<tables, request, undoing, force, todo, written, buffer, full, runs, writes, stops, history>>

\* add_tags, then the entry of the redo.  (Fault: the entry goes the wrong way.)
MutRestorePicture(i) ==
    LET before == EntryOf(i).before IN
    /\ pc = "restore" /\ i \in at
    /\ Storable(i, before)
    /\ Put(i, before)
    /\ author' = [author EXCEPT ![i] = runs]
    /\ AppendEntry(i, before, seen)
    /\ written' = Over([j \in {i} |-> before], written)
    /\ pc' = "check" /\ todo' = todo \ at /\ at' = {} /\ seen' = NoRows
    /\ UNCHANGED <<alive, journal, recorded, request, undoing, force, runs, writes, stops, raced>>
RestorePicture(i) ==
    LET before == EntryOf(i).before IN
    /\ pc = "restore" /\ i \in at
    /\ Storable(i, before)
    /\ Put(i, before)
    /\ author' = [author EXCEPT ![i] = runs]
    /\ AppendEntry(i, seen, before)
    /\ written' = Over([j \in {i} |-> before], written)
    /\ pc' = "check" /\ todo' = todo \ at /\ at' = {} /\ seen' = NoRows
    /\ UNCHANGED <<alive, journal, recorded, request, undoing, force, runs, writes, stops, raced>>

\* The picture is gone: the undo ends here, with what it has restored in place,
\* not journalled and not marked.
RestoreFails(i) ==
    /\ pc = "restore" /\ i \in at
    /\ ~Storable(i, EntryOf(i).before)
    /\ Release
    /\ UNCHANGED <<tables, runs, writes, stops, history>>

UndoLoopEnds ==
    /\ pc = "check" /\ todo = {}
    /\ pc' = IF written = Empty THEN "mark" ELSE "record"
    /\ UNCHANGED <<tables, request, undoing, force, todo, at, seen, written, buffer, full, runs, writes, stops, history>>

\* The row may have been pruned by the undo's own record.
MarkUndone ==
    /\ pc = "mark"
    /\ journal' = [k \in DOMAIN journal |->
                     IF k = undoing THEN [journal[k] EXCEPT !.undone = TRUE] ELSE journal[k]]
    /\ Release
    /\ UNCHANGED <<tags, alive, recorded, runs, writes, stops, history>>

-----------------------------------------------------------------------------
(* Others *)

\* Any step may raise, and the process may end: either way the transaction that
\* is open is gone and so is all of the run that is in memory.
Stop ==
    /\ pc # "idle"
    /\ stops < MaxStops /\ stops' = stops + 1
    /\ Release
    /\ UNCHANGED <<tables, runs, writes, history>>

Others(i) ==
    /\ i \in alive /\ ~WriteLocked
    /\ writes < MaxWrites /\ writes' = writes + 1
    /\ author' = [author EXCEPT ![i] = 0]
    /\ raced' = IF i \in at THEN raced \cup {<<runs, i>>} ELSE raced
    /\ UNCHANGED <<journal, recorded, runVars, runs, stops>>

\* A tagger, a captioner or an import replaces the rows of a picture.
Write(i, rows) ==
    /\ Others(i)
    /\ Put(i, rows)
    /\ alive' = alive

\* A picture is removed from the library; its tags go with it.
Delete(i) ==
    /\ Others(i)
    /\ Put(i, NoRows)
    /\ alive' = alive \ {i}

-----------------------------------------------------------------------------
BulkStep ==
    \/ \E i \in Images : ReadPicture(i) \/ SkipPicture(i) \/ WritePicture(i) \/ RollBack(i)
    \/ Commit
UndoStep ==
    \/ \E i \in Images : SkipConflict(i) \/ CheckPicture(i) \/ RestorePicture(i) \/ RestoreFails(i)
    \/ UndoLoopEnds
    \/ MarkUndone
RunStep == BulkStep \/ RecordOp \/ UndoStep

Next ==
    \/ \E op \in Requests, scope \in SUBSET Images : Bulk(op, scope)
    \/ \E k \in DOMAIN journal, forced \in BOOLEAN : Undo(k, forced)
    \/ RunStep
    \/ Stop
    \/ \E i \in Images : Delete(i) \/ \E rows \in Foreign : Write(i, rows)

Spec == Init /\ [][Next]_vars

\* The thread of the request runs on.
FairSpec == Spec /\ WF_vars(RunStep)

-----------------------------------------------------------------------------
(* Properties *)

Entries == UNION {[I -> [before : Rows, after : Rows]] : I \in SUBSET Images}
JournalRow ==
    [run : Nat, entries : Entries, truncated : BOOLEAN, undone : BOOLEAN, wrote : SUBSET Images]

TypeOK ==
    /\ tags \in [Images -> Rows] /\ prior \in [Images -> Rows]
    /\ alive \subseteq Images /\ todo \subseteq Images /\ at \subseteq Images
    /\ recorded \in Nat /\ undoing \in Nat /\ runs \in Nat
    /\ DOMAIN journal \subseteq 1 .. recorded
    /\ \A k \in DOMAIN journal : journal[k] \in JournalRow
    /\ pc \in {"idle", "read", "write", "record", "check", "restore", "mark"}
    /\ request \in Requests \cup {NoRequest}
    /\ force \in BOOLEAN /\ full \in BOOLEAN
    /\ seen \in Rows
    /\ buffer \in Entries
    /\ written \in UNION {[I -> Rows] : I \in SUBSET Images}
    /\ author \in [Images -> Nat]
    /\ undoing # 0 /\ pc \in {"check", "restore"} => undoing \in DOMAIN journal

\* An operation that is offered for undo can be undone whole: its journal has
\* every picture it wrote, or it is not offered at all (tag_bulk_journal.py:22-30).
AvailableUndoIsWhole ==
    \A k \in DOMAIN journal : Available(k) => DOMAIN journal[k].entries = journal[k].wrote

\* Undoing leads back, and undoing the undo leads forth again: what the last
\* writer of a picture has in its journal is what the picture held before and
\* holds now, so an unforced undo finds no conflict (tag_bulk_journal.py:3-10).
\* Only rows that someone else wrote between the read and the write are lost to
\* the journal.
LastWriterCanBeUndone ==
    \A k \in DOMAIN journal : Available(k) =>
        \A i \in DOMAIN journal[k].entries :
            author[i] = journal[k].run =>
                /\ Names(tags[i]) = Names(journal[k].entries[i].after)
                /\ \/ prior[i] = journal[k].entries[i].before
                   \/ <<journal[k].run, i>> \in raced

\* An undo that is not forced does not take away what someone has written since
\* (tag_bulk_journal.py:328-334), unless it came between its look at the picture
\* and its write.
EditsSurviveUndo ==
    [][ \A i \in Images :
          pc = "restore" /\ pc' = "check" /\ ~force /\ i \in at /\ author[i] = 0 =>
              \/ Names(tags[i]) = Names(EntryOf(i).after)
              \/ <<runs, i>> \in raced ]_vars

\* Whatever fails, the lock is given back and the next operation is not refused.
RunEnds == pc # "idle" ~> pc = "idle"
=============================================================================
