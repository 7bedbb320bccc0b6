------------------------------ MODULE Workbench ------------------------------
(* The bracket and cull modes of the manual sort session:                     *)
(* services/sorting/workbench.py and the restore of such a session            *)
(* (session_state.py).  In a bracket the champion meets one challenger after  *)
(* the other; a cull keeps or rejects one picture after the other.  A sort    *)
(* action holds the session lock and saves before it lets go, so the file is  *)
(* what memory holds.  The read of the current pair lets go of the lock while *)
(* it looks at the files, and then writes the places it had read.             *)
EXTENDS Naturals, FiniteSets, Sequences, SequencesExt, Subsequences

CONSTANTS BenchImages,      \* ids of library pictures
          BenchLists,       \* the id lists a start may select: sequences without repeats
          Modes,            \* the modes of the sessions: a subset of {"bracket", "cull"}
          Answers,          \* by mode; bracket: of {"champion", "challenger", "skip"}; cull: of
                            \* {"keep", "reject", "skip"}
          MaxEntries,       \* bound: answers in the history
          MaxDamages,       \* bound: pictures that vanish, return or lose their row
          MaxBenchCrashes,  \* bound: crashes of one behaviour
          NoBench           \* no session, no read

ASSUME ModesAssumption == Modes \subseteq {"bracket", "cull"}
ASSUME AnswersAssumption ==
    \A m \in Modes : Answers[m] \subseteq IF m = "bracket" THEN {"champion", "challenger", "skip"}
                                           ELSE {"keep", "reject", "skip"}
ASSUME BenchListsAssumption ==
    \A l \in BenchLists : /\ l \in Seq(BenchImages)
                          /\ \A j, k \in DOMAIN l : l[j] = l[k] => j = k

BracketEntries == [action : {"champion", "challenger", "skip"}, champion : Nat, at : Nat]
CullEntries == [action : {"keep", "reject", "skip"}, image : BenchImages, at : Nat]

SessionsOf(entries) ==
    [ids : Seq(BenchImages), index : Nat, champion : Nat,
     history : Seq(entries), redo : Seq(entries)]

ASSUME NoBenchAssumption ==
    NoBench \notin SessionsOf(BracketEntries) /\ NoBench \notin SessionsOf(CullEntries)

VARIABLES
    mode,     \* _sort_session["mode"], the same for all sessions of a behaviour
    session,  \* _sort_session: ids, index, champion (both zero-based), history, redo, or NoBench
    reader,   \* the event loop: the step of the read it runs
    seen,     \* the places the read saw before it let go of the lock, or NoBench
    onDisk,   \* the pictures whose file can be read
    row,      \* each picture's row: "readable", "unreadable" (is_readable = 0) or "none"
    damages, benchCrashes,
    adrift    \* the places may not fit the entries any more: a read wrote over a
              \* session that had moved on, or a cull came back without some pictures

shelf == <<onDisk, row>>
bench == <<mode, session, reader, seen, shelf, damages, benchCrashes, adrift>>

Bracket == mode = "bracket"

Has(i) == row[i] # "none" /\ i \in onDisk

At(l, k) == l[k + 1]
Picture(k) == At(session.ids, k)

BenchInit ==
    /\ mode \in Modes /\ session = NoBench /\ reader = "idle" /\ seen = NoBench
    /\ onDisk = BenchImages /\ row = [i \in BenchImages |-> "readable"]
    /\ damages = 0 /\ benchCrashes = 0 /\ adrift = FALSE

\* A start selects readable pictures; the first is champion, the second challenger.
Open(l) ==
    /\ \A i \in ToSet(l) : row[i] = "readable"
    /\ session' = [ids |-> l, index |-> IF Bracket THEN 1 ELSE 0, champion |-> 0,
                   history |-> <<>>, redo |-> <<>>]
    /\ adrift' = FALSE
    /\ UNCHANGED <<mode, reader, seen, shelf, damages, benchCrashes>>

------------------------------------------------------------------------------
(* Choosing, undo and redo                                                    *)

Entry(choice) ==
    IF Bracket THEN [action |-> choice, champion |-> session.champion, at |-> session.index]
               ELSE [action |-> choice, image |-> Picture(session.index), at |-> session.index]

\* Who is champion before and after an entry.
Before(e)  == IF Bracket THEN e.champion ELSE session.champion
Crowned(e) == IF e.action = "challenger" THEN e.at ELSE e.champion
After(e)   == IF Bracket THEN Crowned(e) ELSE session.champion

Choose(choice) ==
    /\ session # NoBench /\ session.index < Len(session.ids) /\ Len(session.history) < MaxEntries
    /\ session' = [session EXCEPT !.champion = After(Entry(choice)), !.index = @ + 1,
                                  !.history = Append(@, Entry(choice)), !.redo = <<>>]
    /\ UNCHANGED <<mode, reader, seen, shelf, damages, benchCrashes, adrift>>

\* (Fault: one place back, as in slot mode, instead of the place of the choice.)
MutUndoChoice ==
    /\ session # NoBench /\ session.history # <<>>
    /\ LET e == Last(session.history)
       IN  session' = [session EXCEPT !.champion = Before(e), !.index = @ - 1,
                                      !.history = Front(@), !.redo = Append(@, e)]
    /\ UNCHANGED <<mode, reader, seen, shelf, damages, benchCrashes, adrift>>

UndoChoice ==
    /\ session # NoBench /\ session.history # <<>>
    /\ LET e == Last(session.history)
       IN  session' = [session EXCEPT !.champion = Before(e), !.index = e.at,
                                      !.history = Front(@), !.redo = Append(@, e)]
    /\ UNCHANGED <<mode, reader, seen, shelf, damages, benchCrashes, adrift>>

RedoChoice ==
    /\ session # NoBench /\ session.redo # <<>>
    /\ LET e == Last(session.redo)
       IN  session' = [session EXCEPT !.champion = After(e), !.index = e.at + 1,
                                      !.redo = Front(@), !.history = Append(@, e)]
    /\ UNCHANGED <<mode, reader, seen, shelf, damages, benchCrashes, adrift>>

------------------------------------------------------------------------------
(* GET /sort/current: a loop over pictures it cannot show                     *)

Places == [ids |-> session.ids, index |-> session.index, champion |-> session.champion]

BeginRead ==
    /\ session # NoBench /\ reader = "idle" /\ reader' = "read"
    /\ UNCHANGED <<mode, session, seen, shelf, damages, benchCrashes, adrift>>

\* A finished bracket shows its winner, a finished cull nothing.
ReadPlaces ==
    /\ reader = "read"
    /\ LET over == session.index >= Len(session.ids)
           winner == Bracket /\ session.champion < Len(session.ids)
       IN  \/ /\ ~over /\ reader' = IF Bracket THEN "champion" ELSE "next"
              /\ seen' = Places
           \/ over /\ winner /\ reader' = "winner" /\ seen' = Places
           \/ over /\ ~winner /\ reader' = "idle" /\ seen' = NoBench
    /\ UNCHANGED <<mode, session, shelf, damages, benchCrashes, adrift>>

\* A picture that cannot be shown is marked so in its row.
Look(i) ==
    /\ row' = IF Has(i) \/ row[i] = "none" THEN row ELSE [row EXCEPT ![i] = "unreadable"]
    /\ UNCHANGED <<mode, session, onDisk, damages, benchCrashes, adrift>>

LookAtChampion ==
    /\ reader = "champion"
    /\ LET i == At(seen.ids, seen.champion)
       IN  reader' = (IF Has(i) THEN "next" ELSE "crown") /\ Look(i)
    /\ UNCHANGED seen

LookAtNext ==
    /\ reader = "next"
    /\ LET i == At(seen.ids, seen.index)
       IN  /\ reader' = (IF Has(i) THEN "idle" ELSE "pass") /\ Look(i)
           /\ seen' = IF Has(i) THEN NoBench ELSE seen

LookAtWinner ==
    reader = "winner" /\ reader' = "idle" /\ Look(At(seen.ids, seen.champion)) /\ seen' = NoBench

\* The lock is taken again, and the places read before are written.
WritePlaces(index, champion) ==
    /\ session' = [session EXCEPT !.index = index, !.champion = champion]
    /\ adrift' = (adrift \/ Places # seen)
    /\ reader' = "read" /\ seen' = NoBench
    /\ UNCHANGED <<mode, shelf, damages, benchCrashes>>

\* (Fault: the challenger takes the crown and is its own next challenger.)
MutCrownNext ==
    reader = "crown" /\ WritePlaces(seen.index, seen.index)

\* The champion is broken: its challenger takes the crown without a comparison.
CrownNext ==
    reader = "crown" /\ WritePlaces(seen.index + 1, seen.index)

PassNext ==
    reader = "pass" /\ WritePlaces(seen.index + 1, session.champion)

------------------------------------------------------------------------------
(* The process dies and comes back: load_session_from_disk                    *)

\* A bracket goes on with the pictures that are not marked, a cull with all.
Remains(i) == row[i] # "none" /\ (Bracket => row[i] = "readable")

\* The places, from one, of the ids that are left, and how many of them are among
\* the first k; a read may have put the cursor past the end.
Standing == {n \in DOMAIN session.ids : Remains(session.ids[n])}
Left(k)  == Cardinality({n \in Standing : n <= k})
StandingIds == Pick(session.ids, Standing)

\* Entries name places of the list as it was; one about a missing picture is dropped.
Kept(entries) ==
    Pick(entries, {k \in DOMAIN entries : /\ Remains(Picture(entries[k].champion))
                                          /\ Remains(Picture(entries[k].at))})
Rebase(e) == [action |-> e.action, champion |-> Left(e.champion), at |-> Left(e.at)]

\* (Fault: the entries keep the places they had in the longer list.)
MutRebased(entries) == Kept(entries)

Rebased(entries) == [k \in DOMAIN Kept(entries) |-> Rebase(Kept(entries)[k])]

Valid(entries) ==
    \A k \in DOMAIN entries : entries[k].champion < entries[k].at /\ entries[k].at < Len(session.ids)

\* Each entry starts where the one before it ended, the first with pictures 0 and 1.
Champions(entries, k) == IF k = 0 THEN 0 ELSE Crowned(entries[k])
Continuous(entries) ==
    \A k \in DOMAIN entries : entries[k].at = k /\ entries[k].champion = Champions(entries, k - 1)

\* The champion is there and behind the cursor, and the entries form one chain up to
\* the cursor and on through the redo stack.
Sound ==
    /\ session.champion < Len(session.ids) /\ Remains(Picture(session.champion))
    /\ Left(session.champion) < Left(session.index)
    /\ Valid(session.history) /\ Valid(session.redo)
    /\ LET history == Rebased(session.history)
       IN  /\ Continuous(history \o Reverse(Rebased(session.redo)))
           /\ Left(session.index) = Len(history) + 1
           /\ Left(session.champion) = Champions(history, Len(history))

\* The bracket goes on where it was, or starts again with what is left.
RestoredBracket ==
    IF Sound
    THEN [ids |-> StandingIds, index |-> Left(session.index), champion |-> Left(session.champion),
          history |-> Rebased(session.history), redo |-> Rebased(session.redo)]
    ELSE [ids |-> StandingIds, index |-> 1, champion |-> 0, history |-> <<>>, redo |-> <<>>]

\* The places in the entries stay as they were, whatever is gone from the list: an
\* undo or redo then goes to another picture than the one it is about.
Place(i) == CHOOSE k \in 0..Len(session.ids) - 1 : Picture(k) = i
Past == {n \in DOMAIN session.history :
           LET i == session.history[n].image IN Remains(i) /\ Place(i) < session.index}
Ahead == {n \in DOMAIN session.redo :
            LET i == session.redo[n].image
            IN  /\ Remains(i) /\ Place(i) >= session.index
                /\ \A k \in DOMAIN session.history : session.history[k].image # i}
RestoredCull ==
    [ids |-> StandingIds, index |-> Left(session.index), champion |-> 0,
     history |-> Pick(session.history, Past), redo |-> Pick(session.redo, Ahead)]

Reopens == session # NoBench /\ \E i \in ToSet(session.ids) : Remains(i)
Whole == \A i \in ToSet(session.ids) : Remains(i)

CrashAndReopen ==
    /\ benchCrashes < MaxBenchCrashes /\ benchCrashes' = benchCrashes + 1
    /\ session' = IF ~Reopens THEN NoBench ELSE IF Bracket THEN RestoredBracket ELSE RestoredCull
    /\ adrift' = (Reopens /\ ~Bracket /\ (adrift \/ ~Whole))
    /\ reader' = "idle" /\ seen' = NoBench
    /\ UNCHANGED <<mode, shelf, damages>>

\* The library under the session: files go and come back, rows go.
Spoil(i) ==
    /\ damages < MaxDamages /\ damages' = damages + 1
    /\ \/ i \in onDisk /\ onDisk' = onDisk \ {i} /\ UNCHANGED row
       \/ i \notin onDisk /\ onDisk' = onDisk \cup {i} /\ UNCHANGED row
       \/ row[i] # "none" /\ row' = [row EXCEPT ![i] = "none"] /\ UNCHANGED onDisk
    /\ UNCHANGED <<mode, session, reader, seen, benchCrashes, adrift>>

ReadStep ==
    \/ BeginRead \/ ReadPlaces \/ LookAtChampion \/ LookAtNext \/ LookAtWinner
    \/ CrownNext \/ PassNext

BenchNext ==
    \/ \E l \in BenchLists : Open(l)
    \/ \E choice \in Answers[mode] : Choose(choice)
    \/ UndoChoice \/ RedoChoice \/ ReadStep \/ CrashAndReopen
    \/ \E i \in BenchImages : Spoil(i)

BenchSpec == BenchInit /\ [][BenchNext]_bench

------------------------------------------------------------------------------
(* Properties                                                                 *)

Loses(k, e) == \/ e.action = "challenger" /\ e.champion = k
               \/ e.action = "champion" /\ e.at = k

\* The champion has been challenger and has lost to nobody (workbench.py:107-112, 189-193).
ChampionIsUnbeaten ==
    session # NoBench /\ Bracket /\ ~adrift =>
        /\ session.champion < session.index
        /\ \A k \in DOMAIN session.history : ~Loses(session.champion, session.history[k])

Decided(k) ==
    \E n \in DOMAIN session.history :
        LET e == session.history[n]
        IN  IF Bracket THEN k \in {e.champion, e.at} ELSE e.image = Picture(k)

\* Every picture behind the cursor was decided, is the champion, or could not be
\* shown (workbench.py:106-120, 278-283).
NobodyIsPassedOver ==
    session # NoBench /\ ~adrift =>
        \A k \in 0..Len(session.ids) - 1 : k < session.index =>
            Decided(k) \/ (Bracket /\ k = session.champion) \/ row[Picture(k)] # "readable"

About(s, e) == IF Bracket THEN <<e.action, At(s.ids, e.champion), At(s.ids, e.at)>>
                          ELSE <<e.action, e.image>>
Told(s, entries) == [k \in DOMAIN entries |-> About(s, entries[k])]
Named == IF Bracket
         THEN {Picture(session.champion)} \cup
              UNION {{Picture(e.champion), Picture(e.at)} : e \in ToSet(session.history \o session.redo)}
         ELSE {e.image : e \in ToSet(session.history \o session.redo)}

\* A restart keeps every decision, and a bracket its redo stack, as long as the
\* pictures they are about are there: pictures nobody decided may be missing
\* (session_state.py:484-572, tests/test_routers/test_sorting.py:3809).
RestartKeepsDecisions ==
    [][ /\ benchCrashes' # benchCrashes /\ session # NoBench /\ ~adrift /\ Reopens
        /\ \A i \in Named : Remains(i)
        =>
          /\ Told(session', session'.history) = Told(session, session.history)
          /\ Bracket => Told(session', session'.redo) = Told(session, session.redo) ]_bench
==============================================================================
