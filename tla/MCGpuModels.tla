---------------------------- MODULE MCGpuModels ----------------------------
(* GpuModels for TLC: which thread does what.                                *)
EXTENDS GpuModels, TLC

CONSTANTS s1, s2, t1, t2, w1, r1

AllKinds == (s1 :> "style") @@ (s2 :> "style") @@ (t1 :> "tag") @@ (t2 :> "tag")
            @@ (w1 :> "sweep") @@ (r1 :> "refresh")
KindOf == [t \in Threads |-> AllKinds[t]]
============================================================================
