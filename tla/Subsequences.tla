---------------------------- MODULE Subsequences ----------------------------
(* Parts of a sequence chosen by place.  SelectSeq says the same by a test on *)
(* the entries, but the proof system has no definition for it.                *)
EXTENDS Naturals, Sequences

\* The entries of s at the places in P, in the order they have in s.
Pick(s, P) ==
    LET upTo[n \in 0..Len(s)] ==
          IF n = 0 THEN <<>>
          ELSE IF n \in P THEN Append(upTo[n - 1], s[n]) ELSE upTo[n - 1]
    IN  upTo[Len(s)]
=============================================================================
