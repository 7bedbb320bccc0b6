------------------------- MODULE TagBulkJournalProofs -------------------------
(***************************************************************************)
(* Proofs about TagBulkJournal, for every library, set of requests and     *)
(* bound: what a bulk edit makes of the rows of a picture, what the        *)
(* journal offers for undo, and that an undo spares later edits.           *)
(***************************************************************************)
EXTENDS TagBulkJournal, TLAPS

Values == Spellings \X Grades

-----------------------------------------------------------------------------
(* What the four operations make of the rows of a picture *)

LEMMA OverIsAFunction ==
  ASSUME NEW A, NEW B, NEW X, NEW f \in [A -> X], NEW g \in [B -> X]
  PROVE  Over(f, g) \in [A \cup B -> X]
BY DEF Over

LEMMA RowsOf ==
  ASSUME NEW N \in SUBSET Tags, NEW f \in [N -> Values]
  PROVE  f \in Rows
BY DEF Rows, Values

LEMMA RowsAre ==
  ASSUME NEW f \in Rows
  PROVE  DOMAIN f \in SUBSET Tags /\ f \in [DOMAIN f -> Values]
BY DEF Rows, Values

LEMMA NoRowsAreRows == NoRows \in Rows
<1>1. NoRows \in [{} -> Values]
  BY DEF NoRows
<1>2. QED
  BY <1>1, RowsOf

LEMMA RenamedIsRows ==
  ASSUME NEW rows \in Rows, NEW op \in FindReplaces, Matched(rows, op)
  PROVE  Renamed(rows, op) \in Rows
<1> DEFINE kept == [t \in Names(rows) \ {op.find} |-> rows[t]]
           new == [t \in {op.put} |-> <<op.as, rows[op.find][2]>>]
<1>1. Names(rows) \in SUBSET Tags /\ rows \in [Names(rows) -> Values]
  BY RowsAre DEF Names
<1>2. op.find \in Tags /\ op.put \in Tags \cup {NoTag} /\ op.as \in Spellings
  BY DEF FindReplaces
<1>3. kept \in [Names(rows) \ {op.find} -> Values]
  BY <1>1
<1>4. rows[op.find] \in Values
  BY <1>1 DEF Matched
<1>5. new \in [{op.put} -> Values]
  BY <1>2, <1>4 DEF Values
<1>6. kept \in Rows
  BY <1>1, <1>3, RowsOf
<1>7. op.put # NoTag => Over(new, kept) \in Rows
  <2>1. Over(new, kept) \in [{op.put} \cup (Names(rows) \ {op.find}) -> Values]
    BY <1>3, <1>5, OverIsAFunction
  <2>2. op.put # NoTag => {op.put} \cup (Names(rows) \ {op.find}) \in SUBSET Tags
    BY <1>1, <1>2
  <2>3. QED
    BY <2>1, <2>2, RowsOf
<1>8. QED
  BY <1>6, <1>7 DEF Renamed

LEMMA ExtendedIsRows ==
  ASSUME NEW rows \in Rows, NEW op \in BulkAdds
  PROVE  Extended(rows, op) \in Rows
<1> DEFINE new == [t \in Lacking(rows, op) |-> <<op.as, op.grade>>]
<1>1. Names(rows) \in SUBSET Tags /\ rows \in [Names(rows) -> Values]
  BY RowsAre DEF Names
<1>2. op.add \in SUBSET Tags /\ <<op.as, op.grade>> \in Values
  BY DEF BulkAdds, Values
<1>3. new \in [Lacking(rows, op) -> Values]
  BY <1>2
<1>4. Over(rows, new) \in [Names(rows) \cup Lacking(rows, op) -> Values]
  BY <1>1, <1>3, OverIsAFunction
<1>5. Names(rows) \cup Lacking(rows, op) \in SUBSET Tags
  BY <1>1, <1>2 DEF Lacking
<1>6. QED
  BY <1>4, <1>5, RowsOf DEF Extended

LEMMA PartIsRows ==
  ASSUME NEW rows \in Rows, NEW N, N \subseteq Names(rows)
  PROVE  [t \in N |-> rows[t]] \in Rows
<1>1. Names(rows) \in SUBSET Tags /\ rows \in [Names(rows) -> Values]
  BY RowsAre DEF Names
<1>2. [t \in N |-> rows[t]] \in [N -> Values] /\ N \in SUBSET Tags
  BY <1>1
<1>3. QED
  BY <1>2, RowsOf

\* Every operation turns rows into rows: no name twice, every name, spelling and
\* grade one that exists (tags_bulk.py:304-316, tags_bulk.py:372-407).
THEOREM RewritingIsTyped ==
  ASSUME NEW rows \in Rows, NEW op \in Requests, Affects(op, rows)
  PROVE  Rewritten(op, rows) \in Rows
<1>1. CASE op \in FindReplaces
  <2>1. op.kind = "find_replace"
    BY <1>1 DEF FindReplaces
  <2>2. Matched(rows, op)
    BY <2>1 DEF Affects
  <2>3. QED
    BY <1>1, <2>1, <2>2, RenamedIsRows DEF Rewritten
<1>2. CASE op \in BulkAdds
  <2>1. op.kind = "bulk_add"
    BY <1>2 DEF BulkAdds
  <2>2. QED
    BY <1>2, <2>1, ExtendedIsRows DEF Rewritten
<1>3. CASE op \in BulkRemoves
  <2>1. op.kind = "bulk_remove"
    BY <1>3 DEF BulkRemoves
  <2>2. Reduced(rows, op) \in Rows
    BY PartIsRows DEF Reduced
  <2>3. QED
    BY <2>1, <2>2 DEF Rewritten
<1>4. CASE op \in Cleanups
  <2>1. op.kind = "cleanup"
    BY <1>4 DEF Cleanups
  <2>2. Cleaned(rows, op) \in Rows
    BY PartIsRows DEF Cleaned
  <2>3. QED
    BY <2>1, <2>2 DEF Rewritten
<1>5. QED
  BY <1>1, <1>2, <1>3, <1>4, JournalAssumption

-----------------------------------------------------------------------------
(* The inductive invariant *)

Both == [before : Rows, after : Rows]
Maps(X) == UNION {[I -> X] : I \in SUBSET Images}

LEMMA AddOne ==
  ASSUME NEW X, NEW f \in Maps(X), NEW i \in Images, NEW one \in [{i} -> X]
  PROVE  /\ Over(one, f) \in Maps(X) /\ DOMAIN Over(one, f) = DOMAIN f \cup {i}
         /\ Over(f, one) \in Maps(X) /\ DOMAIN Over(f, one) = DOMAIN f \cup {i}
<1>1. PICK I \in SUBSET Images : f \in [I -> X]
  BY DEF Maps
<1>2. Over(one, f) \in [{i} \cup I -> X] /\ Over(f, one) \in [I \cup {i} -> X]
  BY <1>1, OverIsAFunction
<1>3. {i} \cup I \in SUBSET Images /\ I \cup {i} \in SUBSET Images
  OBVIOUS
<1>4. QED
  BY <1>1, <1>2, <1>3 DEF Maps

LEMMA EmptyIsAMap == ASSUME NEW X PROVE Empty \in Maps(X) /\ DOMAIN Empty = {}
<1>1. Empty \in [{} -> X]
  BY DEF Empty
<1>2. QED
  BY <1>1 DEF Maps

FlagsOK == force \in BOOLEAN /\ full \in BOOLEAN

JournalOK ==
    /\ recorded \in Nat
    /\ DOMAIN journal \subseteq 1 .. recorded
    /\ \A k \in DOMAIN journal : journal[k] \in JournalRow

TablesOK ==
    /\ tags \in [Images -> Rows] /\ prior \in [Images -> Rows]
    /\ alive \subseteq Images
    /\ runs \in Nat
    /\ author \in [Images -> Nat]

RunOK ==
    /\ todo \subseteq Images /\ at \subseteq Images
    /\ undoing \in Nat
    /\ pc \in {"idle", "read", "write", "record", "check", "restore", "mark"}
    /\ request \in Requests \cup {NoRequest}
    /\ pc \in {"read", "write"} => request \in Requests
    /\ seen \in Rows
    /\ buffer \in Maps(Both)
    /\ written \in Maps(Rows)

\* An undo works on the pictures of a row that is there.
UndoHasItsRow ==
    pc \in {"check", "restore"} =>
        /\ undoing \in DOMAIN journal
        /\ todo \subseteq DOMAIN journal[undoing].entries
        /\ at \subseteq DOMAIN journal[undoing].entries

\* The buffer has what the run has written, or nothing at all.
BufferIsWhole == full \/ DOMAIN buffer = DOMAIN written

JournalIsWhole ==
    \A k \in DOMAIN journal : ~journal[k].truncated => DOMAIN journal[k].entries = journal[k].wrote

\* What an unforced undo is about to write over is what the operation left.
RestoreHasLooked ==
    pc = "restore" /\ ~force =>
        \A i \in at : Names(tags[i]) = Names(EntryOf(i).after) \/ <<runs, i>> \in raced

IInv == /\ FlagsOK /\ JournalOK /\ TablesOK /\ RunOK
        /\ UndoHasItsRow /\ BufferIsWhole /\ JournalIsWhole /\ RestoreHasLooked

LEMMA TypeOfIInv == IInv => TypeOK
BY DEF IInv, FlagsOK, JournalOK, TablesOK, RunOK, UndoHasItsRow, TypeOK, Maps, Both, Entries

LEMMA InitInv == Init => IInv
<1> SUFFICES ASSUME Init PROVE IInv
  OBVIOUS
<1>1. FlagsOK
  BY DEF Init, FlagsOK
<1>2. JournalOK /\ JournalIsWhole /\ DOMAIN journal = {}
  BY EmptyIsAMap DEF Init, JournalOK, JournalIsWhole
<1>3. TablesOK
  BY JournalAssumption DEF Init, TablesOK
<1>4. RunOK
  BY NoRowsAreRows, EmptyIsAMap DEF Init, RunOK
<1>5. UndoHasItsRow /\ BufferIsWhole /\ RestoreHasLooked
  BY DEF Init, UndoHasItsRow, BufferIsWhole, RestoreHasLooked
<1>6. QED
  BY <1>1, <1>2, <1>3, <1>4, <1>5 DEF IInv

\* The parts that speak of the run in memory.
RunInv == FlagsOK /\ RunOK /\ UndoHasItsRow /\ BufferIsWhole /\ RestoreHasLooked

\* Nothing is left of a run that is over.
LEMMA ReleaseLeavesNothing == Release => RunInv'
<1> SUFFICES ASSUME Release PROVE RunInv'
  OBVIOUS
<1>1. FlagsOK'
  BY DEF Release, FlagsOK
<1>2. RunOK'
  BY NoRowsAreRows, EmptyIsAMap DEF Release, RunOK
<1>3. UndoHasItsRow' /\ BufferIsWhole' /\ RestoreHasLooked'
  BY DEF Release, UndoHasItsRow, BufferIsWhole, RestoreHasLooked
<1>4. QED
  BY <1>1, <1>2, <1>3 DEF RunInv

\* A run that begins has written nothing.
LEMMA AcquireBegins ==
  ASSUME IInv, NEW where, NEW op, NEW id, NEW forced \in BOOLEAN, NEW pictures,
         Acquire(where, op, id, forced, pictures),
         pictures \subseteq Images, id \in Nat,
         \/ where = "read" /\ op \in Requests
         \/ where = "check" /\ op = NoRequest /\ id \in DOMAIN journal
            /\ pictures \subseteq DOMAIN journal[id].entries
  PROVE  RunInv' /\ TablesOK'
<1> USE DEF IInv, Acquire, tables, history
<1>1. FlagsOK'
  BY DEF FlagsOK
<1>2. RunOK'
  BY NoRowsAreRows, EmptyIsAMap DEF RunOK
<1>3. UndoHasItsRow'
  BY DEF UndoHasItsRow
<1>4. BufferIsWhole' /\ RestoreHasLooked'
  BY DEF BufferIsWhole, RestoreHasLooked
<1>5. TablesOK'
  BY DEF TablesOK
<1>6. QED
  BY <1>1, <1>2, <1>3, <1>4, <1>5 DEF RunInv

\* A picture that is written is journalled, or the buffer is given up.
LEMMA AppendKeeps ==
  ASSUME IInv, NEW i \in Images, NEW before \in Rows, NEW after \in Rows, NEW new \in Rows,
         AppendEntry(i, before, after), written' = Over([j \in {i} |-> new], written)
  PROVE  /\ full' \in BOOLEAN
         /\ buffer' \in Maps(Both) /\ written' \in Maps(Rows)
         /\ BufferIsWhole'
<1>1. written' \in Maps(Rows) /\ DOMAIN written' = DOMAIN written \cup {i}
  <2>1. written \in Maps(Rows)
    BY DEF IInv, RunOK
  <2> DEFINE one == [j \in {i} |-> new]
  <2>2. one \in [{i} -> Rows] /\ written' = Over(one, written)
    OBVIOUS
  <2> HIDE DEF one
  <2>3. Over(one, written) \in Maps(Rows) /\ DOMAIN Over(one, written) = DOMAIN written \cup {i}
    BY <2>1, <2>2, AddOne
  <2>4. QED
    BY <2>2, <2>3
<1>2. CASE ~full /\ Keep(i, before, after)
  <2>1. [before |-> before, after |-> after] \in Both
    BY DEF Both
  <2>2. buffer' \in Maps(Both) /\ DOMAIN buffer' = DOMAIN buffer \cup {i}
    <3>1. buffer \in Maps(Both)
      BY DEF IInv, RunOK
    <3> DEFINE one == [j \in {i} |-> [before |-> before, after |-> after]]
    <3>2. one \in [{i} -> Both] /\ buffer' = Over(buffer, one)
      BY <1>2, <2>1 DEF Keep
    <3> HIDE DEF one
    <3>3. QED
      BY <2>1, <3>1, <3>2, AddOne
  <2>3. full' = full /\ DOMAIN buffer = DOMAIN written
    BY <1>2 DEF Keep, IInv, BufferIsWhole
  <2>4. QED
    BY <1>1, <2>2, <2>3 DEF BufferIsWhole, IInv, FlagsOK
<1>3. CASE buffer' = Empty /\ full' = TRUE
  BY <1>1, <1>3, EmptyIsAMap DEF BufferIsWhole
<1>4. QED
  BY <1>2, <1>3 DEF AppendEntry

\* The tables of a step that only works in memory.
LEMMA TablesStay ==
  ASSUME IInv, UNCHANGED <<tables, runs, author, prior>>
  PROVE  JournalOK' /\ TablesOK' /\ JournalIsWhole'
<1> USE DEF IInv, tables
<1>1. JournalOK'
  BY DEF JournalOK
<1>2. TablesOK'
  BY DEF TablesOK
<1>3. JournalIsWhole'
  BY DEF JournalIsWhole
<1>4. QED
  BY <1>1, <1>2, <1>3

LEMMA BulkKeeps == ASSUME IInv, NEW op \in Requests, NEW scope \in SUBSET Images, Bulk(op, scope) PROVE IInv'
<1>1. RunInv' /\ TablesOK'
  BY AcquireBegins DEF Bulk
<1>2. JournalOK' /\ JournalIsWhole'
  BY DEF Bulk, Acquire, tables, IInv, JournalOK, JournalIsWhole
<1>3. QED
  BY <1>1, <1>2 DEF IInv, RunInv

LEMMA UndoKeeps == ASSUME IInv, NEW k \in DOMAIN journal, NEW forced \in BOOLEAN, Undo(k, forced) PROVE IInv'
<1>1. k \in Nat
  BY DEF IInv, JournalOK
<1>2. DOMAIN journal[k].entries \subseteq Images
  BY DEF IInv, JournalOK, JournalRow, Entries
<1>3. RunInv' /\ TablesOK'
  BY <1>1, <1>2, AcquireBegins DEF Undo
<1>4. JournalOK' /\ JournalIsWhole'
  BY DEF Undo, Acquire, tables, IInv, JournalOK, JournalIsWhole
<1>5. QED
  BY <1>3, <1>4 DEF IInv, RunInv

LEMMA ReadPictureKeeps == ASSUME IInv, NEW i \in Images, ReadPicture(i) PROVE IInv'
<1>1. JournalOK' /\ TablesOK' /\ JournalIsWhole'
  BY TablesStay DEF ReadPicture, history
<1>2. FlagsOK'
  BY DEF ReadPicture, IInv, FlagsOK
<1>3. RunOK'
  BY DEF ReadPicture, tables, IInv, RunOK, TablesOK
<1>4. UndoHasItsRow' /\ BufferIsWhole' /\ RestoreHasLooked'
  BY DEF ReadPicture, IInv, UndoHasItsRow, BufferIsWhole, RestoreHasLooked
<1>5. QED
  BY <1>1, <1>2, <1>3, <1>4 DEF IInv

LEMMA SkipPictureKeeps == ASSUME IInv, NEW i \in Images, SkipPicture(i) PROVE IInv'
<1>1. JournalOK' /\ TablesOK' /\ JournalIsWhole'
  BY TablesStay DEF SkipPicture, history
<1>2. FlagsOK'
  BY DEF SkipPicture, IInv, FlagsOK
<1>3. RunOK'
  BY NoRowsAreRows DEF SkipPicture, tables, IInv, RunOK, TablesOK
<1>4. UndoHasItsRow' /\ BufferIsWhole' /\ RestoreHasLooked'
  BY DEF SkipPicture, IInv, UndoHasItsRow, BufferIsWhole, RestoreHasLooked
<1>5. QED
  BY <1>1, <1>2, <1>3, <1>4 DEF IInv

LEMMA WritePictureKeeps == ASSUME IInv, NEW i \in Images, WritePicture(i) PROVE IInv'
<1> DEFINE new == Rewritten(request, seen)
<1>1. JournalOK' /\ TablesOK' /\ JournalIsWhole'
  BY TablesStay DEF WritePicture, history
<1>2. seen \in Rows /\ request \in Requests /\ Affects(request, seen)
  BY DEF WritePicture, IInv, RunOK
<1>3. new \in Rows
  BY <1>2, RewritingIsTyped
<1>4. AppendEntry(i, seen, new) /\ written' = Over([j \in {i} |-> new], written)
  BY DEF WritePicture
<1> HIDE DEF new
<1>5. /\ full' \in BOOLEAN
      /\ buffer' \in Maps(Both) /\ written' \in Maps(Rows)
      /\ BufferIsWhole'
  BY <1>2, <1>3, <1>4, AppendKeeps
<1>6. FlagsOK'
  BY <1>5 DEF WritePicture, IInv, FlagsOK
<1>7. RunOK'
  BY <1>5, NoRowsAreRows DEF WritePicture, tables, IInv, RunOK
<1>8. UndoHasItsRow' /\ RestoreHasLooked'
  BY DEF WritePicture, UndoHasItsRow, RestoreHasLooked
<1>9. QED
  BY <1>1, <1>5, <1>6, <1>7, <1>8 DEF IInv

LEMMA OverKeepsShape ==
  ASSUME NEW X, NEW f \in Maps(X), NEW g \in [Images -> X]
  PROVE  Over(f, g) \in [Images -> X]
<1>1. PICK I \in SUBSET Images : f \in [I -> X]
  BY DEF Maps
<1>2. Over(f, g) \in [I \cup Images -> X]
  BY <1>1, OverIsAFunction
<1>3. I \cup Images = Images
  OBVIOUS
<1>4. QED
  BY <1>2, <1>3

LEMMA CommitKeeps == ASSUME IInv, Commit PROVE IInv'
<1>1. JournalOK' /\ JournalIsWhole'
  BY DEF Commit, IInv, JournalOK, JournalIsWhole
<1>2. TablesOK'
  <2>1. Over(written, tags) \in [Images -> Rows]
    BY OverKeepsShape DEF IInv, RunOK, TablesOK
  <2>2. tags' \in [Images -> Rows]
    BY <2>1 DEF Commit
  <2>3. prior' \in [Images -> Rows]
    BY DEF Commit, IInv, TablesOK
  <2>4. author' \in [Images -> Nat]
    BY DEF Commit, IInv, TablesOK
  <2>5. QED
    BY <2>2, <2>3, <2>4 DEF Commit, IInv, TablesOK
<1>3. CASE Release
  BY <1>1, <1>2, <1>3, ReleaseLeavesNothing DEF IInv, RunInv
<1>4. CASE pc' = "record" /\ UNCHANGED <<request, undoing, force, todo, at, seen, written, buffer, full>>
  <2>1. FlagsOK'
    BY <1>4 DEF IInv, FlagsOK
  <2>2. RunOK'
    BY <1>4 DEF IInv, RunOK
  <2>3. UndoHasItsRow' /\ BufferIsWhole' /\ RestoreHasLooked'
    BY <1>4 DEF IInv, UndoHasItsRow, BufferIsWhole, RestoreHasLooked
  <2>4. QED
    BY <1>1, <1>2, <2>1, <2>2, <2>3 DEF IInv
<1>5. QED
  BY <1>3, <1>4 DEF Commit

\* A run that ends without having touched the tables.
LEMMA EndKeeps == ASSUME IInv, Release, UNCHANGED <<tables, runs, author, prior>> PROVE IInv'
BY ReleaseLeavesNothing, TablesStay DEF IInv, RunInv

LEMMA RecordOpKeeps == ASSUME IInv, RecordOp PROVE IInv'
<1>1. Entry \in JournalRow /\ (~Entry.truncated => DOMAIN Entry.entries = Entry.wrote)
  <2>1. buffer \in Entries /\ DOMAIN written \subseteq Images /\ runs \in Nat
    BY DEF IInv, RunOK, TablesOK, Maps, Both, Entries
  <2>2. full \in BOOLEAN
    BY DEF IInv, FlagsOK
  <2>3. Entry \in JournalRow
    BY <2>1, <2>2 DEF Entry, JournalRow
  <2>4. QED
    BY <2>3 DEF IInv, BufferIsWhole, Entry
<1>2. JournalOK' /\ JournalIsWhole'
  <2> DEFINE old == [k \in {k \in DOMAIN journal : Retained(k)} |-> journal[k]]
             one == [k \in {recorded + 1} |-> Entry]
  <2>1. CASE recorded' = recorded + 1 /\ journal' = Over(one, old)
    <3>1. /\ DOMAIN journal' = {recorded + 1} \cup {k \in DOMAIN journal : Retained(k)}
          /\ \A k \in DOMAIN journal' : journal'[k] = Entry \/ (k \in DOMAIN journal /\ journal'[k] = journal[k])
      BY <2>1 DEF Over
    <3>2. recorded \in Nat /\ DOMAIN journal \subseteq 1 .. recorded
      BY DEF IInv, JournalOK
    <3>3. DOMAIN journal' \subseteq 1 .. recorded'
      BY <2>1, <3>1, <3>2
    <3>4. \A k \in DOMAIN journal' : journal'[k] \in JournalRow
      BY <1>1, <3>1 DEF IInv, JournalOK
    <3>5. JournalIsWhole'
      BY <1>1, <3>1 DEF IInv, JournalIsWhole
    <3>6. QED
      BY <2>1, <3>2, <3>3, <3>4, <3>5 DEF JournalOK
  <2>2. CASE UNCHANGED <<journal, recorded>>
    BY <2>2 DEF IInv, JournalOK, JournalIsWhole
  <2>3. QED
    BY <2>1, <2>2 DEF RecordOp
<1>3. TablesOK'
  BY DEF RecordOp, history, IInv, TablesOK
<1>4. RunInv'
  <2>1. CASE Release
    BY <2>1, ReleaseLeavesNothing
  <2>2. CASE pc' = "mark" /\ UNCHANGED <<request, undoing, force, todo, at, seen, written, buffer, full>>
    <3>1. FlagsOK'
      BY <2>2 DEF IInv, FlagsOK
    <3>2. RunOK'
      BY <2>2 DEF IInv, RunOK
    <3>3. UndoHasItsRow' /\ BufferIsWhole' /\ RestoreHasLooked'
      BY <2>2 DEF IInv, UndoHasItsRow, BufferIsWhole, RestoreHasLooked
    <3>4. QED
      BY <3>1, <3>2, <3>3 DEF RunInv
  <2>3. QED
    BY <2>1, <2>2 DEF RecordOp
<1>5. QED
  BY <1>2, <1>3, <1>4 DEF IInv, RunInv

LEMMA SkipConflictKeeps == ASSUME IInv, NEW i \in Images, SkipConflict(i) PROVE IInv'
<1>1. JournalOK' /\ TablesOK' /\ JournalIsWhole'
  BY TablesStay DEF SkipConflict, history
<1>2. FlagsOK'
  BY DEF SkipConflict, IInv, FlagsOK
<1>3. RunOK'
  BY DEF SkipConflict, IInv, RunOK
<1>4. UndoHasItsRow' /\ BufferIsWhole' /\ RestoreHasLooked'
  BY DEF SkipConflict, tables, IInv, UndoHasItsRow, BufferIsWhole, RestoreHasLooked
<1>5. QED
  BY <1>1, <1>2, <1>3, <1>4 DEF IInv

LEMMA CheckPictureKeeps == ASSUME IInv, NEW i \in Images, CheckPicture(i) PROVE IInv'
<1>1. JournalOK' /\ TablesOK' /\ JournalIsWhole'
  BY TablesStay DEF CheckPicture, history
<1>2. FlagsOK'
  BY DEF CheckPicture, IInv, FlagsOK
<1>3. RunOK'
  BY DEF CheckPicture, tables, IInv, RunOK, TablesOK
<1>4. UndoHasItsRow' /\ BufferIsWhole'
  BY DEF CheckPicture, tables, IInv, UndoHasItsRow, BufferIsWhole
<1>5. RestoreHasLooked'
  BY DEF CheckPicture, tables, Conflict, EntryOf, RestoreHasLooked
<1>6. QED
  BY <1>1, <1>2, <1>3, <1>4, <1>5 DEF IInv

LEMMA RestorePictureKeeps == ASSUME IInv, NEW i \in Images, RestorePicture(i) PROVE IInv'
<1> DEFINE before == EntryOf(i).before
<1>1. before \in Rows /\ seen \in Rows
  <2>1. i \in DOMAIN journal[undoing].entries /\ undoing \in DOMAIN journal
    BY DEF RestorePicture, IInv, UndoHasItsRow
  <2>2. journal[undoing] \in JournalRow
    BY <2>1 DEF IInv, JournalOK
  <2>3. journal[undoing].entries[i] \in Both
    BY <2>1, <2>2 DEF JournalRow, Entries, Both
  <2>4. QED
    BY <2>3 DEF EntryOf, Both, IInv, RunOK
<1>2. /\ AppendEntry(i, seen, before)
      /\ written' = Over([j \in {i} |-> before], written)
      /\ tags' = [tags EXCEPT ![i] = before] /\ prior' = [prior EXCEPT ![i] = tags[i]]
      /\ author' = [author EXCEPT ![i] = runs]
      /\ pc' = "check" /\ todo' = todo \ at /\ at' = {} /\ seen' = NoRows
      /\ UNCHANGED <<alive, journal, recorded, request, undoing, force, runs>>
  BY DEF RestorePicture, Put
<1>3. pc = "restore"
  BY DEF RestorePicture
<1> HIDE DEF before
<1>4. /\ full' \in BOOLEAN
      /\ buffer' \in Maps(Both) /\ written' \in Maps(Rows)
      /\ BufferIsWhole'
  BY <1>1, <1>2, AppendKeeps
<1>5. FlagsOK'
  BY <1>2, <1>4 DEF IInv, FlagsOK
<1>6. TablesOK'
  BY <1>1, <1>2 DEF IInv, TablesOK
<1>7. JournalOK' /\ JournalIsWhole'
  BY <1>2 DEF IInv, JournalOK, JournalIsWhole
<1>8. RunOK'
  BY <1>2, <1>4, NoRowsAreRows DEF IInv, RunOK
<1>9. UndoHasItsRow' /\ RestoreHasLooked'
  BY <1>2, <1>3 DEF IInv, UndoHasItsRow, RestoreHasLooked
<1>10. QED
  BY <1>4, <1>5, <1>6, <1>7, <1>8, <1>9 DEF IInv

LEMMA UndoLoopEndsKeeps == ASSUME IInv, UndoLoopEnds PROVE IInv'
<1>1. JournalOK' /\ TablesOK' /\ JournalIsWhole'
  BY TablesStay DEF UndoLoopEnds, history
<1>2. FlagsOK'
  BY DEF UndoLoopEnds, IInv, FlagsOK
<1>3. RunOK'
  BY DEF UndoLoopEnds, IInv, RunOK
<1>4. UndoHasItsRow' /\ BufferIsWhole' /\ RestoreHasLooked'
  BY DEF UndoLoopEnds, IInv, UndoHasItsRow, BufferIsWhole, RestoreHasLooked
<1>5. QED
  BY <1>1, <1>2, <1>3, <1>4 DEF IInv

LEMMA MarkUndoneKeeps == ASSUME IInv, MarkUndone PROVE IInv'
<1>1. JournalOK' /\ JournalIsWhole'
  <2>1. /\ DOMAIN journal' = DOMAIN journal
        /\ \A k \in DOMAIN journal :
              journal'[k] = journal[k] \/ journal'[k] = [journal[k] EXCEPT !.undone = TRUE]
    BY DEF MarkUndone
  <2>2. \A k \in DOMAIN journal : journal[k] \in JournalRow
    BY DEF IInv, JournalOK
  <2>3. \A k \in DOMAIN journal :
          /\ journal'[k] \in JournalRow
          /\ journal'[k].truncated = journal[k].truncated
          /\ journal'[k].entries = journal[k].entries
          /\ journal'[k].wrote = journal[k].wrote
    BY <2>1, <2>2 DEF JournalRow
  <2>4. JournalOK'
    BY <2>1, <2>3 DEF MarkUndone, IInv, JournalOK
  <2>5. JournalIsWhole'
    BY <2>1, <2>3 DEF IInv, JournalIsWhole
  <2>6. QED
    BY <2>4, <2>5
<1>2. TablesOK'
  BY DEF MarkUndone, history, IInv, TablesOK
<1>3. RunInv'
  BY ReleaseLeavesNothing DEF MarkUndone
<1>4. QED
  BY <1>1, <1>2, <1>3 DEF IInv, RunInv

LEMMA OthersKeep ==
  ASSUME IInv, NEW i \in Images, NEW rows \in Rows, Others(i), Put(i, rows), alive' \subseteq Images
  PROVE  IInv'
<1> USE DEF Others, runVars
<1>1. JournalOK' /\ JournalIsWhole'
  BY DEF IInv, JournalOK, JournalIsWhole
<1>2. FlagsOK'
  BY DEF IInv, FlagsOK
<1>3. TablesOK'
  BY DEF Put, IInv, TablesOK
<1>4. RunOK'
  BY DEF IInv, RunOK
<1>5. UndoHasItsRow' /\ BufferIsWhole'
  BY DEF IInv, UndoHasItsRow, BufferIsWhole
<1>6. RestoreHasLooked'
  BY DEF Put, IInv, TablesOK, RestoreHasLooked, EntryOf
<1>7. QED
  BY <1>1, <1>2, <1>3, <1>4, <1>5, <1>6 DEF IInv

LEMMA StutterKeeps == ASSUME IInv, UNCHANGED vars PROVE IInv'
BY DEF vars, tables, runVars, history, IInv, FlagsOK, JournalOK, TablesOK, RunOK, UndoHasItsRow,
       BufferIsWhole, JournalIsWhole, RestoreHasLooked, EntryOf

LEMMA Invariance == IInv /\ [Next]_vars => IInv'
<1> SUFFICES ASSUME IInv, [Next]_vars PROVE IInv'
  OBVIOUS
<1>1. ASSUME NEW op \in Requests, NEW scope \in SUBSET Images, Bulk(op, scope) PROVE IInv'
  BY <1>1, BulkKeeps
<1>2. ASSUME NEW k \in DOMAIN journal, NEW forced \in BOOLEAN, Undo(k, forced) PROVE IInv'
  BY <1>2, UndoKeeps
<1>3. CASE BulkStep
  <2>1. ASSUME NEW i \in Images, RollBack(i) PROVE IInv'
    BY <2>1, EndKeeps DEF RollBack, history
  <2>2. QED
    BY <1>3, <2>1, ReadPictureKeeps, SkipPictureKeeps, WritePictureKeeps, CommitKeeps DEF BulkStep
<1>4. CASE RecordOp
  BY <1>4, RecordOpKeeps
<1>5. CASE UndoStep
  <2>1. ASSUME NEW i \in Images, RestoreFails(i) PROVE IInv'
    BY <2>1, EndKeeps DEF RestoreFails, history
  <2>2. QED
    BY <1>5, <2>1, SkipConflictKeeps, CheckPictureKeeps, RestorePictureKeeps, UndoLoopEndsKeeps,
       MarkUndoneKeeps DEF UndoStep
<1>6. CASE Stop
  BY <1>6, EndKeeps DEF Stop, history
<1>7. ASSUME NEW i \in Images, Delete(i) PROVE IInv'
  BY <1>7, OthersKeep, NoRowsAreRows DEF Delete, IInv, TablesOK
<1>8. ASSUME NEW i \in Images, NEW rows \in Foreign, Write(i, rows) PROVE IInv'
  BY <1>8, OthersKeep, JournalAssumption DEF Write, IInv, TablesOK
<1>9. CASE UNCHANGED vars
  BY <1>9, StutterKeeps
<1>10. QED
  BY <1>1, <1>2, <1>3, <1>4, <1>5, <1>6, <1>7, <1>8, <1>9 DEF Next, RunStep

-----------------------------------------------------------------------------
(* Undo leads back: a second invariant, on top of the first *)

RunsInOrder ==
    /\ \A i \in Images : author[i] <= runs
    /\ \A k \in DOMAIN journal : 0 < journal[k].run /\ journal[k].run <= runs
    /\ pc # "idle" => 0 < runs
    /\ pc \in {"read", "write", "record", "check", "restore"} =>
          \A k \in DOMAIN journal : journal[k].run < runs

PicturesOnce ==
    /\ at \subseteq todo /\ todo \cap DOMAIN written = {}
    /\ pc = "check" => at = {}

LookIsFresh ==
    pc \in {"write", "restore"} => \A i \in at : seen = tags[i] \/ <<runs, i>> \in raced

\* What a bulk operation has in its buffer is what it will commit over.
BulkIsBuffered ==
    pc \in {"read", "write"} /\ ~full =>
        \A i \in DOMAIN buffer :
            /\ buffer[i].after = written[i]
            /\ buffer[i].before = tags[i] \/ <<runs, i>> \in raced

\* The entry tells what the run made of the picture.
Tells(entry, run, i) ==
    /\ Names(tags[i]) = Names(entry.after)
    /\ prior[i] = entry.before \/ <<run, i>> \in raced

RunIsBuffered ==
    pc \in {"record", "check", "restore"} /\ ~full =>
        \A i \in DOMAIN buffer : author[i] = runs => Tells(buffer[i], runs, i)

JournalTells ==
    \A k \in DOMAIN journal : ~journal[k].truncated =>
        \A i \in DOMAIN journal[k].entries :
            author[i] = journal[k].run => Tells(journal[k].entries[i], journal[k].run, i)

LInv == RunsInOrder /\ PicturesOnce /\ LookIsFresh /\ BulkIsBuffered /\ RunIsBuffered /\ JournalTells

LEMMA InitLast == Init => LInv
<1> SUFFICES ASSUME Init PROVE LInv
  OBVIOUS
<1>1. DOMAIN journal = {} /\ DOMAIN written = {}
  BY EmptyIsAMap DEF Init
<1>2. QED
  BY <1>1 DEF Init, LInv, RunsInOrder, PicturesOnce, LookIsFresh, BulkIsBuffered, RunIsBuffered, JournalTells

\* Nothing is buffered of a run that is over, or that begins.
LEMMA FreshRun ==
  ASSUME IInv, LInv, UNCHANGED <<tables, author, prior, raced>>,
         at' = {}, written' = Empty, buffer' = Empty,
         \/ pc' = "idle" /\ runs' = runs /\ todo' = {}
         \/ runs' = runs + 1
  PROVE  LInv'
<1> USE DEF tables
<1>1. DOMAIN written' = {} /\ DOMAIN buffer' = {}
  BY EmptyIsAMap
<1>2. runs \in Nat /\ (\A i \in Images : author[i] \in Nat) /\ (\A k \in DOMAIN journal : journal[k].run \in Nat)
  BY DEF IInv, TablesOK, JournalOK, JournalRow
<1>3. RunsInOrder'
  BY <1>2 DEF LInv, RunsInOrder
<1>4. PicturesOnce' /\ LookIsFresh' /\ BulkIsBuffered' /\ RunIsBuffered'
  BY <1>1 DEF PicturesOnce, LookIsFresh, BulkIsBuffered, RunIsBuffered
<1>5. JournalTells'
  BY DEF LInv, JournalTells, Tells
<1>6. QED
  BY <1>3, <1>4, <1>5 DEF LInv

\* A step in memory that writes nothing.
LEMMA QuietStep ==
  ASSUME IInv, LInv, UNCHANGED <<tables, author, prior, raced, runs, written, buffer, full>>,
         \/ pc \in {"read", "write"} /\ pc' \in {"read", "write"}
         \/ pc \in {"check", "restore"} /\ pc' \in {"check", "restore", "record"}
         \/ pc' = "mark" /\ pc # "idle",
         todo' \subseteq todo,
         \/ at' = {}
         \/ \E i \in todo : at' = {i} /\ seen' = tags[i] /\ todo' = todo /\ pc' # "check"
  PROVE  LInv'
<1> USE DEF tables
<1>1. RunsInOrder'
  BY DEF LInv, RunsInOrder
<1>2. PicturesOnce'
  BY DEF LInv, PicturesOnce
<1>3. LookIsFresh'
  BY DEF LookIsFresh
<1>4. BulkIsBuffered'
  BY DEF LInv, BulkIsBuffered
<1>5. RunIsBuffered'
  BY DEF LInv, RunIsBuffered, Tells
<1>6. JournalTells'
  BY DEF LInv, JournalTells, Tells
<1>7. QED
  BY <1>1, <1>2, <1>3, <1>4, <1>5, <1>6 DEF LInv

LEMMA WritePictureTells == ASSUME IInv, LInv, NEW i \in Images, WritePicture(i) PROVE LInv'
<1> DEFINE new == Rewritten(request, seen)
<1>1. /\ pc = "write" /\ i \in at /\ AppendEntry(i, seen, new)
      /\ written' = Over([j \in {i} |-> new], written)
      /\ pc' = "read" /\ todo' = todo \ at /\ at' = {}
      /\ UNCHANGED <<tags, alive, journal, recorded, runs, author, prior, raced>>
  BY DEF WritePicture, tables, history
<1> HIDE DEF new
<1>2. /\ DOMAIN written' = DOMAIN written \cup {i}
      /\ written'[i] = new /\ \A j \in DOMAIN written : j # i => written'[j] = written[j]
  BY <1>1 DEF Over
<1>3. i \notin DOMAIN written
  BY <1>1 DEF LInv, PicturesOnce
<1>4. RunsInOrder'
  BY <1>1 DEF LInv, RunsInOrder
<1>5. PicturesOnce'
  BY <1>1, <1>2 DEF LInv, PicturesOnce
<1>6. BulkIsBuffered'
  <2>1. CASE ~full /\ Keep(i, seen, new)
    <3>1. DOMAIN buffer = DOMAIN written
      BY <2>1 DEF IInv, BufferIsWhole
    <3>2. /\ DOMAIN buffer' = DOMAIN buffer \cup {i}
          /\ buffer'[i] = [before |-> seen, after |-> new]
          /\ \A j \in DOMAIN buffer : buffer'[j] = buffer[j]
      BY <1>3, <2>1, <3>1 DEF Keep, Over
    <3>3. seen = tags[i] \/ <<runs, i>> \in raced
      BY <1>1 DEF LInv, LookIsFresh
    <3>4. \A j \in DOMAIN buffer : /\ buffer[j].after = written[j]
                                   /\ buffer[j].before = tags[j] \/ <<runs, j>> \in raced
      BY <1>1, <2>1 DEF LInv, BulkIsBuffered
    <3>5. buffer'[i].after = new /\ buffer'[i].before = seen
      BY <3>2
    <3>6. \A j \in DOMAIN buffer : j # i /\ written'[j] = written[j]
      BY <1>2, <1>3, <3>1
    <3>7. \A j \in DOMAIN buffer' : /\ buffer'[j].after = written'[j]
                                    /\ buffer'[j].before = tags[j] \/ <<runs, j>> \in raced
      BY <1>2, <3>2, <3>3, <3>4, <3>5, <3>6
    <3>8. \A j \in DOMAIN buffer' : /\ buffer'[j].after = written'[j]
                                    /\ buffer'[j].before = tags'[j] \/ <<runs', j>> \in raced'
      BY <1>1, <3>7
    <3>9. QED
      BY <3>8 DEF BulkIsBuffered
  <2>2. CASE full' = TRUE
    BY <2>2 DEF BulkIsBuffered
  <2>3. QED
    BY <1>1, <2>1, <2>2 DEF AppendEntry
<1>7. LookIsFresh' /\ RunIsBuffered'
  BY <1>1 DEF LookIsFresh, RunIsBuffered
<1>8. JournalTells'
  BY <1>1 DEF LInv, JournalTells, Tells
<1>9. QED
  BY <1>4, <1>5, <1>6, <1>7, <1>8 DEF LInv

LEMMA CommitTells == ASSUME IInv, LInv, Commit PROVE LInv'
<1>1. /\ pc = "read"
      /\ tags' = Over(written, tags)
      /\ prior' = [i \in Images |-> IF i \in DOMAIN written THEN tags[i] ELSE prior[i]]
      /\ author' = [i \in Images |-> IF i \in DOMAIN written THEN runs ELSE author[i]]
      /\ UNCHANGED <<alive, journal, recorded, runs, raced>>
  BY DEF Commit
<1>2. /\ \A i \in DOMAIN written : i \in Images /\ tags'[i] = written[i]
      /\ \A i \in Images : i \notin DOMAIN written => tags'[i] = tags[i]
  BY <1>1 DEF Over, IInv, RunOK, Maps, TablesOK
<1>3. /\ \A i \in Images : author[i] \in Nat /\ author[i] <= runs
      /\ runs \in Nat /\ 0 < runs
      /\ \A k \in DOMAIN journal : journal[k].run \in Nat /\ 0 < journal[k].run /\ journal[k].run < runs
  BY <1>1 DEF IInv, TablesOK, JournalOK, JournalRow, LInv, RunsInOrder
<1>4. \A i \in Images : author'[i] = runs \/ (author'[i] = author[i] /\ i \notin DOMAIN written)
  BY <1>1
<1>5. JournalTells'
  <2> SUFFICES ASSUME NEW k \in DOMAIN journal, ~journal[k].truncated, NEW i \in DOMAIN journal[k].entries,
                      author'[i] = journal[k].run
               PROVE  Tells(journal[k].entries[i], journal[k].run, i)'
    BY <1>1 DEF JournalTells
  <2>1. i \in Images
    BY DEF IInv, JournalOK, JournalRow, Entries
  <2>2. author'[i] = author[i] /\ i \notin DOMAIN written
    BY <1>3, <1>4, <2>1
  <2>3. tags'[i] = tags[i] /\ prior'[i] = prior[i]
    BY <1>1, <1>2, <2>1, <2>2
  <2>4. Tells(journal[k].entries[i], journal[k].run, i)
    BY <2>2 DEF LInv, JournalTells
  <2>5. QED
    BY <1>1, <2>3, <2>4 DEF Tells
<1>6. CASE Release
  <2>1. RunsInOrder'
    BY <1>1, <1>3, <1>4, <1>6 DEF Release, RunsInOrder
  <2>2. DOMAIN written' = {} /\ DOMAIN buffer' = {}
    BY <1>6, EmptyIsAMap DEF Release
  <2>3. PicturesOnce' /\ LookIsFresh' /\ BulkIsBuffered' /\ RunIsBuffered'
    BY <1>6, <2>2 DEF Release, PicturesOnce, LookIsFresh, BulkIsBuffered, RunIsBuffered
  <2>4. QED
    BY <1>5, <2>1, <2>3 DEF LInv
<1>7. CASE pc' = "record" /\ UNCHANGED <<request, undoing, force, todo, at, seen, written, buffer, full>>
  <2>1. RunsInOrder'
    BY <1>1, <1>3, <1>4, <1>7 DEF RunsInOrder
  <2>2. PicturesOnce' /\ LookIsFresh' /\ BulkIsBuffered'
    BY <1>7 DEF LInv, PicturesOnce, LookIsFresh, BulkIsBuffered
  <2>3. RunIsBuffered'
    <3> SUFFICES ASSUME ~full, NEW i \in DOMAIN buffer PROVE Tells(buffer[i], runs, i)'
      BY <1>1, <1>7 DEF RunIsBuffered
    <3>1. i \in DOMAIN written
      BY DEF IInv, BufferIsWhole
    <3>2. /\ buffer[i].after = written[i]
          /\ buffer[i].before = tags[i] \/ <<runs, i>> \in raced
      BY <1>1 DEF LInv, BulkIsBuffered
    <3>3. tags'[i] = written[i] /\ prior'[i] = tags[i]
      BY <1>1, <1>2, <3>1
    <3>4. QED
      BY <1>1, <1>7, <3>2, <3>3 DEF Tells
  <2>4. QED
    BY <1>5, <2>1, <2>2, <2>3 DEF LInv
<1>8. QED
  BY <1>6, <1>7 DEF Commit

LEMMA RecordOpTells == ASSUME IInv, LInv, RecordOp PROVE LInv'
<1>1. /\ pc = "record" /\ pc' \in {"idle", "mark"}
      /\ UNCHANGED <<tags, alive, runs, author, prior, raced>>
  BY DEF RecordOp, Release, history
<1>2. \A k \in DOMAIN journal' : (k \in DOMAIN journal /\ journal'[k] = journal[k]) \/ journal'[k] = Entry
  BY DEF RecordOp, Over
<1>3. Entry.run = runs /\ Entry.entries = buffer /\ Entry.truncated = full
  BY DEF Entry
<1>4. RunsInOrder'
  BY <1>1, <1>2, <1>3 DEF LInv, RunsInOrder, IInv, TablesOK
<1>5. PicturesOnce'
  <2>1. CASE Release
    BY <2>1 DEF Release, PicturesOnce
  <2>2. CASE UNCHANGED <<todo, at, written>>
    BY <1>1, <2>2 DEF LInv, PicturesOnce
  <2>3. QED
    BY <2>1, <2>2 DEF RecordOp
<1>6. LookIsFresh' /\ BulkIsBuffered' /\ RunIsBuffered'
  BY <1>1 DEF LookIsFresh, BulkIsBuffered, RunIsBuffered
<1>7. JournalTells'
  BY <1>1, <1>2, <1>3 DEF LInv, JournalTells, RunIsBuffered, Tells
<1>8. QED
  BY <1>4, <1>5, <1>6, <1>7 DEF LInv

LEMMA RestorePictureTells == ASSUME IInv, LInv, NEW i \in Images, RestorePicture(i) PROVE LInv'
<1> DEFINE before == EntryOf(i).before
<1>1. /\ pc = "restore" /\ i \in at /\ AppendEntry(i, seen, before)
      /\ written' = Over([j \in {i} |-> before], written)
      /\ tags' = [tags EXCEPT ![i] = before] /\ prior' = [prior EXCEPT ![i] = tags[i]]
      /\ author' = [author EXCEPT ![i] = runs]
      /\ pc' = "check" /\ todo' = todo \ at /\ at' = {}
      /\ UNCHANGED <<alive, journal, recorded, runs, raced>>
  BY DEF RestorePicture, Put
<1> HIDE DEF before
<1>2. /\ tags'[i] = before /\ prior'[i] = tags[i] /\ author'[i] = runs
      /\ \A j \in Images : j # i => tags'[j] = tags[j] /\ prior'[j] = prior[j] /\ author'[j] = author[j]
  BY <1>1 DEF IInv, TablesOK
<1>3. i \notin DOMAIN written /\ DOMAIN written' = DOMAIN written \cup {i}
  BY <1>1 DEF LInv, PicturesOnce, Over
<1>4. /\ runs \in Nat
      /\ \A k \in DOMAIN journal : journal[k].run \in Nat /\ journal[k].run < runs
  BY <1>1 DEF IInv, TablesOK, JournalOK, JournalRow, LInv, RunsInOrder
<1>5. RunsInOrder'
  BY <1>1, <1>2, <1>4 DEF LInv, RunsInOrder
<1>6. PicturesOnce'
  BY <1>1, <1>3 DEF LInv, PicturesOnce
<1>7. LookIsFresh' /\ BulkIsBuffered'
  BY <1>1 DEF LookIsFresh, BulkIsBuffered
<1>8. RunIsBuffered'
  <2>1. CASE ~full /\ Keep(i, seen, before)
    <3>1. DOMAIN buffer = DOMAIN written /\ DOMAIN buffer \subseteq Images
      BY <2>1 DEF IInv, BufferIsWhole, RunOK, Maps
    <3>2. /\ DOMAIN buffer' = DOMAIN buffer \cup {i}
          /\ buffer'[i] = [before |-> seen, after |-> before]
          /\ \A j \in DOMAIN buffer : buffer'[j] = buffer[j]
      BY <1>3, <2>1, <3>1 DEF Keep, Over
    <3>3. seen = tags[i] \/ <<runs, i>> \in raced
      BY <1>1 DEF LInv, LookIsFresh
    <3>4. Tells(buffer[i], runs, i)'
      BY <1>1, <1>2, <3>2, <3>3 DEF Tells
    <3>5. \A j \in DOMAIN buffer : author[j] = runs => Tells(buffer[j], runs, j)
      BY <1>1, <2>1 DEF LInv, RunIsBuffered
    <3>6. \A j \in DOMAIN buffer : j # i /\ j \in Images
      BY <1>3, <3>1
    <3>7. ASSUME NEW j \in DOMAIN buffer, author'[j] = runs PROVE Tells(buffer[j], runs, j)'
      <4>1. tags'[j] = tags[j] /\ prior'[j] = prior[j] /\ author'[j] = author[j] /\ buffer'[j] = buffer[j]
        BY <1>2, <3>2, <3>6
      <4>2. Tells(buffer[j], runs, j)
        BY <3>5, <3>7, <4>1
      <4>3. QED
        BY <1>1, <4>1, <4>2 DEF Tells
    <3>8. ASSUME NEW j \in DOMAIN buffer', author'[j] = runs PROVE Tells(buffer[j], runs, j)'
      <4>1. CASE j = i
        BY <3>4, <4>1
      <4>2. CASE j \in DOMAIN buffer
        BY <3>7, <3>8, <4>2
      <4>3. QED
        BY <3>2, <4>1, <4>2
    <3>9. \A j \in DOMAIN buffer' : author'[j] = runs' => Tells(buffer[j], runs, j)'
      BY <1>1, <3>8
    <3>10. QED
      BY <3>9 DEF RunIsBuffered
  <2>2. CASE full' = TRUE
    BY <2>2 DEF RunIsBuffered
  <2>3. QED
    BY <1>1, <2>1, <2>2 DEF AppendEntry
<1>9. JournalTells'
  <2> SUFFICES ASSUME NEW k \in DOMAIN journal, ~journal[k].truncated, NEW j \in DOMAIN journal[k].entries,
                      author'[j] = journal[k].run
               PROVE  Tells(journal[k].entries[j], journal[k].run, j)'
    BY <1>1 DEF JournalTells
  <2>1. j \in Images
    BY DEF IInv, JournalOK, JournalRow, Entries
  <2>2. j # i
    BY <1>2, <1>4
  <2>3. author[j] = journal[k].run /\ tags'[j] = tags[j] /\ prior'[j] = prior[j]
    BY <1>2, <2>1, <2>2
  <2>4. QED
    BY <1>1, <2>3 DEF LInv, JournalTells, Tells
<1>10. QED
  BY <1>5, <1>6, <1>7, <1>8, <1>9 DEF LInv

LEMMA MarkUndoneTells == ASSUME IInv, LInv, MarkUndone PROVE LInv'
<1>1. /\ DOMAIN journal' = DOMAIN journal
      /\ \A k \in DOMAIN journal :
            /\ journal'[k].truncated = journal[k].truncated
            /\ journal'[k].entries = journal[k].entries
            /\ journal'[k].run = journal[k].run
  <2>1. \A k \in DOMAIN journal :
          journal'[k] = journal[k] \/ journal'[k] = [journal[k] EXCEPT !.undone = TRUE]
    BY DEF MarkUndone
  <2>2. \A k \in DOMAIN journal : journal[k] \in JournalRow
    BY DEF IInv, JournalOK
  <2>3. QED
    BY <2>1, <2>2 DEF JournalRow, MarkUndone
<1>2. /\ pc' = "idle" /\ todo' = {} /\ at' = {}
      /\ UNCHANGED <<tags, runs, author, prior, raced>>
  BY DEF MarkUndone, Release, history
<1>3. RunsInOrder'
  BY <1>1, <1>2 DEF LInv, RunsInOrder
<1>4. PicturesOnce' /\ LookIsFresh' /\ BulkIsBuffered' /\ RunIsBuffered'
  BY <1>2 DEF PicturesOnce, LookIsFresh, BulkIsBuffered, RunIsBuffered
<1>5. JournalTells'
  BY <1>1, <1>2 DEF LInv, JournalTells, Tells
<1>6. QED
  BY <1>3, <1>4, <1>5 DEF LInv

LEMMA OthersTell ==
  ASSUME IInv, LInv, NEW i \in Images, NEW rows \in Rows, Others(i), Put(i, rows)
  PROVE  LInv'
<1>1. /\ author' = [author EXCEPT ![i] = 0] /\ ~WriteLocked
      /\ raced' = IF i \in at THEN raced \cup {<<runs, i>>} ELSE raced
      /\ tags' = [tags EXCEPT ![i] = rows]
      /\ UNCHANGED <<journal, recorded, pc, todo, at, seen, written, buffer, full, runs>>
  BY DEF Others, Put, runVars
<1>2. /\ author'[i] = 0
      /\ \A j \in Images : j # i => tags'[j] = tags[j] /\ prior'[j] = prior[j] /\ author'[j] = author[j]
  BY <1>1 DEF Put, IInv, TablesOK
<1>3. raced \subseteq raced' /\ (i \in at => <<runs, i>> \in raced')
  BY <1>1
<1>4. /\ runs \in Nat
      /\ \A k \in DOMAIN journal : journal[k].run \in Nat /\ 0 < journal[k].run
      /\ at \subseteq Images /\ DOMAIN buffer \subseteq Images
      /\ \A k \in DOMAIN journal : DOMAIN journal[k].entries \subseteq Images
  BY DEF IInv, TablesOK, JournalOK, JournalRow, Entries, RunOK, Maps, LInv, RunsInOrder
<1>5. RunsInOrder'
  BY <1>1, <1>2, <1>4 DEF LInv, RunsInOrder
<1>6. PicturesOnce'
  BY <1>1 DEF LInv, PicturesOnce
<1>7. LookIsFresh'
  BY <1>1, <1>2, <1>3, <1>4 DEF LInv, LookIsFresh
<1>8. BulkIsBuffered'
  <2> SUFFICES ASSUME pc \in {"read", "write"}, ~full, NEW j \in DOMAIN buffer PROVE FALSE
    BY <1>1 DEF BulkIsBuffered
  <2>1. j \in DOMAIN written
    BY DEF IInv, BufferIsWhole
  <2>2. written # Empty
    BY <2>1, EmptyIsAMap
  <2>3. QED
    BY <1>1, <2>2 DEF WriteLocked
<1>9. RunIsBuffered'
  BY <1>1, <1>2, <1>3, <1>4 DEF LInv, RunsInOrder, RunIsBuffered, Tells
<1>10. JournalTells'
  BY <1>1, <1>2, <1>3, <1>4 DEF LInv, JournalTells, Tells
<1>11. QED
  BY <1>5, <1>6, <1>7, <1>8, <1>9, <1>10 DEF LInv

LEMMA LastInvariance == IInv /\ LInv /\ [Next]_vars => LInv'
<1> SUFFICES ASSUME IInv, LInv, [Next]_vars PROVE LInv'
  OBVIOUS
<1>1. ASSUME NEW op \in Requests, NEW scope \in SUBSET Images, Bulk(op, scope) PROVE LInv'
  BY <1>1, FreshRun DEF Bulk, Acquire, history
<1>2. ASSUME NEW k \in DOMAIN journal, NEW forced \in BOOLEAN, Undo(k, forced) PROVE LInv'
  BY <1>2, FreshRun DEF Undo, Acquire, history
<1>3. ASSUME Release, UNCHANGED <<tables, runs, history>> PROVE LInv'
  BY <1>3, FreshRun DEF Release, history
<1>4. CASE BulkStep
  <2>1. ASSUME NEW i \in Images, ReadPicture(i) PROVE LInv'
    BY <2>1, QuietStep DEF ReadPicture, history
  <2>2. ASSUME NEW i \in Images, SkipPicture(i) PROVE LInv'
    BY <2>2, QuietStep DEF SkipPicture, history
  <2>3. ASSUME NEW i \in Images, RollBack(i) PROVE LInv'
    BY <1>3, <2>3 DEF RollBack
  <2>4. QED
    BY <1>4, <2>1, <2>2, <2>3, WritePictureTells, CommitTells DEF BulkStep
<1>5. CASE RecordOp
  BY <1>5, RecordOpTells
<1>6. CASE UndoStep
  <2>1. ASSUME NEW i \in Images, SkipConflict(i) PROVE LInv'
    BY <2>1, QuietStep DEF SkipConflict, history, LInv, PicturesOnce
  <2>2. ASSUME NEW i \in Images, CheckPicture(i) PROVE LInv'
    BY <2>2, QuietStep DEF CheckPicture, history
  <2>3. ASSUME NEW i \in Images, RestoreFails(i) PROVE LInv'
    BY <1>3, <2>3 DEF RestoreFails
  <2>4. CASE UndoLoopEnds
    BY <2>4, QuietStep DEF UndoLoopEnds, history, LInv, PicturesOnce
  <2>5. QED
    BY <1>6, <2>1, <2>2, <2>3, <2>4, RestorePictureTells, MarkUndoneTells DEF UndoStep
<1>7. CASE Stop
  BY <1>3, <1>7 DEF Stop
<1>8. ASSUME NEW i \in Images, Delete(i) PROVE LInv'
  BY <1>8, OthersTell, NoRowsAreRows DEF Delete
<1>9. ASSUME NEW i \in Images, NEW rows \in Foreign, Write(i, rows) PROVE LInv'
  BY <1>9, OthersTell, JournalAssumption DEF Write
<1>10. CASE UNCHANGED vars
  BY <1>10 DEF vars, tables, runVars, history, LInv, RunsInOrder, PicturesOnce, LookIsFresh,
     BulkIsBuffered, RunIsBuffered, JournalTells, Tells
<1>11. QED
  BY <1>1, <1>2, <1>4, <1>5, <1>6, <1>7, <1>8, <1>9, <1>10 DEF Next, RunStep

-----------------------------------------------------------------------------
(* Theorems *)

\* TagBulkJournal!TypeOK holds for every library, set of requests and bound.
THEOREM TypeCorrect == Spec => []TypeOK
<1>1. Spec => []IInv
  BY InitInv, Invariance, PTL DEF Spec
<1>2. QED
  BY <1>1, TypeOfIInv, PTL

\* What the journal offers for undo it has whole (tag_bulk_journal.py:22-30): the
\* buffer of a run has all that the run has written, or it is given up for good.
THEOREM UndoIsWhole == Spec => []AvailableUndoIsWhole
<1>1. IInv => AvailableUndoIsWhole
  BY DEF IInv, JournalIsWhole, AvailableUndoIsWhole, Available
<1>2. QED
  BY <1>1, InitInv, Invariance, PTL DEF Spec

\* An undo that is not forced writes over the names its operation left, or over
\* what came between its look and its write (tag_bulk_journal.py:328-334).
THEOREM EditsAreSpared == Spec => EditsSurviveUndo
<1> DEFINE Spared == \A i \in Images :
             pc = "restore" /\ pc' = "check" /\ ~force /\ i \in at /\ author[i] = 0 =>
                 \/ Names(tags[i]) = Names(EntryOf(i).after)
                 \/ <<runs, i>> \in raced
<1>1. IInv => Spared
  BY DEF IInv, RestoreHasLooked
<1>2. IInv /\ [Next]_vars => [Spared]_vars
  BY <1>1
<1>3. QED
  BY <1>2, InitInv, Invariance, PTL DEF Spec, EditsSurviveUndo

\* Undoing leads back and undoing the undo leads forth again, but for what was
\* written between a run's look at a picture and its write (tag_bulk_journal.py:3-10).
THEOREM UndoLeadsBack == Spec => []LastWriterCanBeUndone
<1>1. LInv => LastWriterCanBeUndone
  BY DEF LInv, JournalTells, LastWriterCanBeUndone, Available, Tells
<1>2. QED
  BY <1>1, InitInv, InitLast, Invariance, LastInvariance, PTL DEF Spec

=============================================================================
