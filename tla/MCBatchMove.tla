----------------------------- MODULE MCBatchMove -----------------------------
(* Instances of BatchMove for TLC.                                            *)
EXTENDS BatchMove, TLC

CONSTANTS a, b, s, u1, u2

\* No picture is special.
Alike == Permutations(Images)
==============================================================================
