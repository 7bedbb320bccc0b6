----------------------------- MODULE GalleryGate -----------------------------
(***************************************************************************)
(* What src/backend/services/gallery_job_gate.py promises: "serialize job  *)
(* state claims with Clear Gallery validation and deletion".  Jobs that    *)
(* read or write gallery rows come and go; clearing the gallery starts     *)
(* only when none is live, and none begins before the clearing ends.       *)
(***************************************************************************)
CONSTANT Jobs

VARIABLES
    live,       \* the jobs at work
    clearing    \* clear_gallery is between its check and the end of its deletion

Init == live = {} /\ clearing = FALSE

\* Any jobs end; jobs begin unless the gallery is being cleared.
JobsChange ==
    /\ live' \in SUBSET Jobs
    /\ clearing => live' \subseteq live
    /\ UNCHANGED clearing

StartClearing ==
    /\ live = {}
    /\ clearing' = TRUE
    /\ UNCHANGED live

\* The rows are gone, or the process is.
EndClearing ==
    /\ clearing' = FALSE
    /\ live' = {}

Next == JobsChange \/ StartClearing \/ EndClearing

Spec == Init /\ [][Next]_<<live, clearing>>
=============================================================================
