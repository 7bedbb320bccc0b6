--------------------------- MODULE CancelContract ---------------------------
(***************************************************************************)
(* What the bulk-job registry promises about a job whose result is guarded *)
(* (commit_result or begin_completion): cancelling it and completing it    *)
(* race for one decision, taken once, and what the job is reported as is   *)
(* what was decided.                                                       *)
(***************************************************************************)
CONSTANT Jobs

VARIABLES decision, report

vars == <<decision, report>>

Decision == {"open", "cancel", "complete"}
Report == {"pending", "cancelled", "done", "error", "gone"}

Init ==
    /\ decision = [j \in Jobs |-> "open"]
    /\ report = [j \in Jobs |-> "pending"]

\* A user's cancel, or the job's claim of its completion, wins.
Decide(j, d) ==
    /\ decision[j] = "open"
    /\ decision' = [decision EXCEPT ![j] = d]

\* The report follows the decision; a failure may overtake either.
Tell(j, r) ==
    /\ report[j] = "pending"
    /\ report' = [report EXCEPT ![j] = r]
    /\ r = "cancelled" => decision'[j] = "cancel"
    /\ r = "done" => decision'[j] = "complete"

Cancel(j) == Decide(j, "cancel") /\ (UNCHANGED report \/ Tell(j, "cancelled"))
Complete(j) == Decide(j, "complete") /\ (UNCHANGED report \/ Tell(j, "done"))
Finish(j) ==
    /\ UNCHANGED decision
    /\ Tell(j, "cancelled") \/ Tell(j, "done") \/ Tell(j, "error")

\* Settled jobs may be forgotten, several at a time.
Forget ==
    /\ UNCHANGED decision
    /\ \E old \in SUBSET { j \in Jobs : report[j] \notin {"pending", "gone"} } :
         report' = [ j \in Jobs |-> IF j \in old THEN "gone" ELSE report[j] ]

Next == Forget \/ \E j \in Jobs : Cancel(j) \/ Complete(j) \/ Finish(j)

Spec == Init /\ [][Next]_vars
=============================================================================
