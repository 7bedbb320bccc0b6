----------------------------- MODULE MCAiQueue -----------------------------
EXTENDS AiQueue

CONSTANTS g1, s1, s2, v1, gallery, smart, vlm

McJobs == {g1, s1, s2, v1}
McKinds == {gallery, smart, vlm}
McKindOf == (g1 :> gallery) @@ (s1 :> smart) @@ (s2 :> smart) @@ (v1 :> vlm)

\* The two Smart Tag requests ask for the same.
McPrintOf == (g1 :> "g") @@ (s1 :> "s") @@ (s2 :> "s") @@ (v1 :> "v")
=============================================================================
