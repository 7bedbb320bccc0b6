------------------------------- MODULE UndoLog -------------------------------
(* What a manual sort session promises to the person at the keyboard: a list  *)
(* of pictures is decided one by one, in order; undo steps back over the last *)
(* decision and redo repeats it; a new decision forgets what could be redone. *)
(* The log on disk is the log in memory whenever the page is told "saved",    *)
(* and a restart resumes from the log on disk.                                *)
EXTENDS Naturals, Sequences

CONSTANTS Pictures,   \* the pictures a session can list
          Decisions   \* what a key press can decide

VARIABLES log,        \* [list, trail, at]: trail[1..at] is decided, the rest undone
          stable,     \* the log on disk
          saved       \* what the page is told of the last save

vars == <<log, stable, saved>>

NoLog == [list |-> <<>>, trail |-> <<>>, at |-> 0]

\* Every operation saves; a save that fails is reported.
Persist == \/ saved' = TRUE  /\ stable' = log'
           \/ saved' = FALSE /\ UNCHANGED stable

Begin == /\ \E n \in 0..Len(log'.list) : log'.list \in [1..n -> Pictures]
         /\ log'.trail = <<>>
         /\ log'.at = 0
         /\ Persist

Decide(d) ==
    /\ log.at < Len(log.list)
    /\ log' = [log EXCEPT !.trail = Append(SubSeq(log.trail, 1, log.at),
                                           <<log.list[log.at + 1], d>>),
                          !.at = log.at + 1]
    /\ Persist

Undo == /\ log.at > 0
        /\ log' = [log EXCEPT !.at = log.at - 1]
        /\ Persist

Redo == /\ log.at < Len(log.trail)
        /\ log' = [log EXCEPT !.at = log.at + 1]
        /\ Persist

\* Saving again what is in memory (a change of folders).
Resave == log' = log /\ Persist

Restart == log' = stable /\ Persist

Init == log = NoLog /\ stable = NoLog /\ saved = TRUE

Next == \/ Begin \/ Undo \/ Redo \/ Resave \/ Restart
        \/ \E d \in Decisions : Decide(d)

Spec == Init /\ [][Next]_vars
==============================================================================
