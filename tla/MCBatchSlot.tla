----------------------------- MODULE MCBatchSlot -----------------------------
(* Instances of BatchSlot for TLC. Deadlock is allowed: every run is asked    *)
(* for once.                                                                  *)
EXTENDS BatchSlot

CONSTANTS s1, s2, u1, u2
==============================================================================
