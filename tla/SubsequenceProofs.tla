-------------------------- MODULE SubsequenceProofs --------------------------
(* Lemmas about parts of sequences that the proofs of several components      *)
(* share: what Pick takes, what is ahead of and behind the last entry, and a  *)
(* history with its redo stack laid out as one line.                          *)
EXTENDS Subsequences, SequencesExt, FiniteSetTheorems, SequenceTheorems, WellFoundedInduction, TLAPS

\* A set of numbers has a least one.
LEMMA LeastNumber ==
  ASSUME NEW T \in SUBSET Nat, T # {}
  PROVE  \E m \in T : \A k \in T : m <= k
<1>1. PICK m \in T : \A k \in T : <<k, m>> \notin OpToRel(<, Nat)
  BY WFMin, NatLessThanWellFounded, Zenon
<1>2. \A k \in T : k \in Nat /\ m \in Nat /\ ~(k < m)
  BY <1>1, Zenon DEF OpToRel
<1>3. \A k \in T : m <= k
  BY <1>2
<1>4. QED
  BY <1>3

\* A set that holds 0, and with each number the next, holds all numbers.
LEMMA Induction ==
  ASSUME NEW S, 0 \in S, \A n \in Nat : n \in S => n + 1 \in S
  PROVE  Nat \subseteq S
<1>1. SUFFICES ASSUME Nat \ S # {} PROVE FALSE
  OBVIOUS
<1>2. PICK m \in Nat \ S : \A k \in Nat \ S : m <= k
  BY <1>1, LeastNumber
<1>3. m # 0 /\ m - 1 \in Nat /\ m - 1 \in S /\ (m - 1) + 1 = m
  BY <1>2
<1>4. QED
  BY <1>3, <1>2

UpTo(s, P, N, G) ==
    G = [n \in 0..N |-> IF n = 0 THEN <<>>
                        ELSE IF n \in P THEN Append(G[n - 1], s[n]) ELSE G[n - 1]]

\* There is such a function.
LEMMA UpToExists ==
  ASSUME NEW s, NEW P, NEW N \in Nat
  PROVE  \E G : UpTo(s, P, N, G)
<1> DEFINE Good == {n \in Nat : \E G : UpTo(s, P, n, G)}
<1>1. 0 \in Good
  <2>1. UpTo(s, P, 0, [n \in 0..0 |-> <<>>])
    BY DEF UpTo
  <2>2. QED
    BY <2>1
<1>2. ASSUME NEW n \in Nat, n \in Good PROVE n + 1 \in Good
  <2>1. PICK G : UpTo(s, P, n, G)
    BY <1>2
  <2> DEFINE next == IF n + 1 \in P THEN Append(G[n], s[n + 1]) ELSE G[n]
             H == [k \in 0..n + 1 |-> IF k = n + 1 THEN next ELSE G[k]]
  <2>2. \A k \in 0..n : G[k] = IF k = 0 THEN <<>>
                               ELSE IF k \in P THEN Append(G[k - 1], s[k]) ELSE G[k - 1]
    BY <2>1 DEF UpTo
  <2>3. \A k \in 1..n + 1 : H[k - 1] = G[k - 1]
    OBVIOUS
  <2> HIDE DEF next
  <2>4. ASSUME NEW k \in 0..n + 1
        PROVE  H[k] = IF k = 0 THEN <<>>
                      ELSE IF k \in P THEN Append(H[k - 1], s[k]) ELSE H[k - 1]
    <3>1. CASE k = n + 1
      BY <3>1, <2>3 DEF next
    <3>2. CASE k # n + 1
      BY <3>2, <2>2, <2>3
    <3>3. QED
      BY <3>1, <3>2
  <2>5. UpTo(s, P, n + 1, H)
    BY <2>4 DEF UpTo
  <2>6. QED
    BY <2>5
<1>3. QED
  BY <1>1, <1>2, Induction

\* It is the one in Pick.
LEMMA PickUnfolds ==
  ASSUME NEW S, NEW s \in Seq(S), NEW P
  PROVE  \E G : UpTo(s, P, Len(s), G) /\ Pick(s, P) = G[Len(s)]
<1> DEFINE G == CHOOSE G : UpTo(s, P, Len(s), G)
<1>1. UpTo(s, P, Len(s), G)
  BY UpToExists
<1>2. Pick(s, P) = G[Len(s)]
  BY DEF Pick, UpTo
<1>3. QED
  BY <1>1, <1>2

\* t is what the places P of the first n entries of s hold, entry k from place at[k].
TakenFrom(t, s, P, n, at) ==
    /\ at \in [1..Len(t) -> 1..n]
    /\ \A k \in 1..Len(t) : at[k] \in P /\ t[k] = s[at[k]]
    /\ \A j, k \in 1..Len(t) : j < k => at[j] < at[k]
    /\ \A p \in 1..n : p \in P => \E k \in 1..Len(t) : at[k] = p

\* What it gives for n is taken from the first n entries.
LEMMA UpToTakes ==
  ASSUME NEW S, NEW s \in Seq(S), NEW P, NEW G, UpTo(s, P, Len(s), G),
         NEW n \in 0..Len(s)
  PROVE  G[n] \in Seq(S) /\ \E at : TakenFrom(G[n], s, P, n, at)
<1> DEFINE Good == {k \in Nat : k <= Len(s) =>
                       G[k] \in Seq(S) /\ \E at : TakenFrom(G[k], s, P, k, at)}
<1>1. \A k \in 0..Len(s) : G[k] = IF k = 0 THEN <<>>
                                  ELSE IF k \in P THEN Append(G[k - 1], s[k]) ELSE G[k - 1]
  BY DEF UpTo
<1>2. 0 \in Good
  <2>1. 0 \in 0..Len(s) /\ G[0] = <<>>
    <3>1. Len(s) \in Nat
      OBVIOUS
    <3>2. 0 \in 0..Len(s)
      BY <3>1
    <3>3. QED
      BY <3>2, <1>1
  <2>2. TakenFrom(<<>>, s, P, 0, [k \in 1..0 |-> k])
    BY DEF TakenFrom
  <2>3. TakenFrom(G[0], s, P, 0, [k \in 1..0 |-> k]) /\ G[0] \in Seq(S)
    BY <2>1, <2>2
  <2>4. QED
    BY <2>3
<1>3. ASSUME NEW k \in Nat, k \in Good PROVE k + 1 \in Good
  <2> SUFFICES ASSUME k + 1 <= Len(s)
               PROVE  G[k + 1] \in Seq(S) /\ \E at : TakenFrom(G[k + 1], s, P, k + 1, at)
    OBVIOUS
  <2>1. G[k] \in Seq(S) /\ \E at : TakenFrom(G[k], s, P, k, at)
    BY <1>3
  <2>2. PICK at : TakenFrom(G[k], s, P, k, at)
    BY <2>1
  <2>3. G[k + 1] = IF k + 1 \in P THEN Append(G[k], s[k + 1]) ELSE G[k]
    BY <1>1
  <2>4. CASE k + 1 \notin P
    <3>1. TakenFrom(G[k], s, P, k + 1, at)
      BY <2>2, <2>4, <2>1 DEF TakenFrom
    <3>2. QED
      BY <3>1, <2>1, <2>3, <2>4
  <2>5. CASE k + 1 \in P
    <3> DEFINE t == Append(G[k], s[k + 1])
               N == Len(G[k])
               new == [j \in 1..N + 1 |-> IF j = N + 1 THEN k + 1 ELSE at[j]]
    <3>1. s[k + 1] \in S /\ N \in Nat
      BY <2>1
    <3>2. t \in Seq(S) /\ Len(t) = N + 1 /\ t[N + 1] = s[k + 1] /\ \A j \in 1..N : t[j] = G[k][j]
      BY <2>1, <3>1
    <3> HIDE DEF t, N
    <3>3. /\ at \in [1..N -> 1..k]
          /\ \A j \in 1..N : at[j] \in P /\ G[k][j] = s[at[j]]
          /\ \A i, j \in 1..N : i < j => at[i] < at[j]
          /\ \A p \in 1..k : p \in P => \E j \in 1..N : at[j] = p
      BY <2>2 DEF TakenFrom, N
    <3>4. new \in [1..N + 1 -> 1..k + 1]
      BY <3>3, <3>1
    <3>5. \A j \in 1..N + 1 : new[j] \in P /\ t[j] = s[new[j]]
      BY <3>2, <3>3, <3>1, <2>5
    <3>6. \A i, j \in 1..N + 1 : i < j => new[i] < new[j]
      BY <3>3, <3>1
    <3>7. ASSUME NEW p \in 1..k + 1, p \in P PROVE \E j \in 1..N + 1 : new[j] = p
      <4>1. CASE p = k + 1
        <5>1. N + 1 \in 1..N + 1 /\ new[N + 1] = p
          BY <3>1, <4>1
        <5>2. QED
          BY <5>1
      <4>2. CASE p # k + 1
        <5>1. PICK j \in 1..N : at[j] = p
          BY <3>3, <3>7, <4>2
        <5>2. j \in 1..N + 1 /\ new[j] = p
          BY <5>1, <3>1
        <5>3. QED
          BY <5>2
      <4>3. QED
        BY <4>1, <4>2
    <3>8. TakenFrom(t, s, P, k + 1, new)
      BY <3>2, <3>4, <3>5, <3>6, <3>7 DEF TakenFrom
    <3>9. G[k + 1] = t
      BY <2>3, <2>5 DEF t
    <3>10. QED
      BY <3>8, <3>9, <3>2
  <2>6. QED
    BY <2>4, <2>5
<1>4. Nat \subseteq Good
  BY <1>2, <1>3, Induction
<1>5. QED
  BY <1>4

\* Pick takes the entries at the places P, in their order.
LEMMA PickTakes ==
  ASSUME NEW S, NEW s \in Seq(S), NEW P
  PROVE  Pick(s, P) \in Seq(S) /\ \E at : TakenFrom(Pick(s, P), s, P, Len(s), at)
<1>1. PICK G : UpTo(s, P, Len(s), G) /\ Pick(s, P) = G[Len(s)]
  BY PickUnfolds
<1>2. G[Len(s)] \in Seq(S) /\ \E at : TakenFrom(G[Len(s)], s, P, Len(s), at)
  BY <1>1, UpToTakes
<1>3. QED
  BY <1>1, <1>2

\* An increasing sequence of numbers grows at least as fast as the places.
LEMMA IncreasingIsAhead ==
  ASSUME NEW n \in Nat, NEW m \in Nat, NEW at \in [1..n -> 1..m],
         \A j, k \in 1..n : j < k => at[j] < at[k]
  PROVE  \A k \in 1..n : at[k] >= k
<1> DEFINE Good == {k \in Nat : k \in 1..n => at[k] >= k}
<1>1. 0 \in Good
  OBVIOUS
<1>2. ASSUME NEW k \in Nat, k \in Good PROVE k + 1 \in Good
  <2>1. CASE k = 0
    BY <2>1
  <2>2. CASE k # 0 /\ k + 1 \in 1..n
    <3>1. k \in 1..n /\ at[k] >= k /\ at[k] < at[k + 1] /\ at[k] \in 1..m /\ at[k + 1] \in 1..m
      BY <1>2, <2>2
    <3>2. QED
      BY <3>1
  <2>3. QED
    BY <2>1, <2>2
<1>3. Nat \subseteq Good
  BY <1>1, <1>2, Induction
<1>4. QED
  BY <1>3

\* Picking at all places gives the sequence.
LEMMA PickAll ==
  ASSUME NEW S, NEW s \in Seq(S), NEW P, DOMAIN s \subseteq P
  PROVE  Pick(s, P) = s
<1>1. PICK G : UpTo(s, P, Len(s), G) /\ Pick(s, P) = G[Len(s)]
  BY PickUnfolds
<1> DEFINE Good == {k \in Nat : k <= Len(s) =>
                       G[k] \in Seq(S) /\ Len(G[k]) = k /\ \A j \in 1..k : G[k][j] = s[j]}
<1>2. Len(s) \in Nat /\ \A k \in 1..Len(s) : k \in P /\ s[k] \in S
  OBVIOUS
<1>3. \A k \in 0..Len(s) : G[k] = IF k = 0 THEN <<>>
                                  ELSE IF k \in P THEN Append(G[k - 1], s[k]) ELSE G[k - 1]
  BY <1>1 DEF UpTo
<1>4. 0 \in Good
  <2>1. 0 \in 0..Len(s)
    BY <1>2
  <2>2. G[0] = <<>>
    BY <2>1, <1>3
  <2>3. G[0] \in Seq(S) /\ Len(G[0]) = 0
    BY <2>2
  <2>4. QED
    BY <2>3
<1>5. ASSUME NEW k \in Nat, k \in Good PROVE k + 1 \in Good
  <2> SUFFICES ASSUME k + 1 <= Len(s)
               PROVE  /\ G[k + 1] \in Seq(S) /\ Len(G[k + 1]) = k + 1
                      /\ \A j \in 1..k + 1 : G[k + 1][j] = s[j]
    OBVIOUS
  <2>1. G[k] \in Seq(S) /\ Len(G[k]) = k /\ \A j \in 1..k : G[k][j] = s[j]
    BY <1>5, <1>2
  <2>2. k + 1 \in 1..Len(s) /\ k + 1 \in 0..Len(s) /\ (k + 1) - 1 = k /\ k + 1 # 0
    BY <1>2
  <2>3. G[k + 1] = Append(G[k], s[k + 1]) /\ s[k + 1] \in S
    BY <1>2, <1>3, <2>2
  <2>4. QED
    BY <2>1, <2>3
<1>6. Nat \subseteq Good
  BY <1>4, <1>5, Induction
<1>7. G[Len(s)] \in Seq(S) /\ Len(G[Len(s)]) = Len(s) /\ \A j \in 1..Len(s) : G[Len(s)][j] = s[j]
  BY <1>2, <1>6
<1>8. QED
  BY <1>1, <1>7
\* What is picked is what stands at the places, and nothing of it twice unless s has
\* it twice.
LEMMA PickHolds ==
  ASSUME NEW S, NEW s \in Seq(S), NEW P
  PROVE  LET t == Pick(s, P) IN
         /\ t \in Seq(S)
         /\ {t[k] : k \in DOMAIN t} = {s[p] : p \in DOMAIN s \cap P}
         /\ (\A i, j \in DOMAIN s : s[i] = s[j] => i = j) =>
               \A i, j \in DOMAIN t : t[i] = t[j] => i = j
<1> DEFINE t == Pick(s, P)
<1> HIDE DEF t
<1>1. PICK at : t \in Seq(S) /\ TakenFrom(t, s, P, Len(s), at)
  BY PickTakes DEF t
<1>2. /\ DOMAIN t = 1..Len(t) /\ DOMAIN s = 1..Len(s) /\ Len(t) \in Nat /\ Len(s) \in Nat
      /\ \A k \in 1..Len(t) : at[k] \in 1..Len(s) /\ at[k] \in P /\ t[k] = s[at[k]]
      /\ \A p \in 1..Len(s) : p \in P => \E k \in 1..Len(t) : at[k] = p
      /\ \A j, k \in 1..Len(t) : j < k => at[j] < at[k]
  BY <1>1 DEF TakenFrom
<1>3. {t[k] : k \in DOMAIN t} = {s[p] : p \in DOMAIN s \cap P}
  BY <1>2
<1>4. ASSUME \A i, j \in DOMAIN s : s[i] = s[j] => i = j, NEW i \in DOMAIN t, NEW j \in DOMAIN t,
             t[i] = t[j]
      PROVE  i = j
  <2>1. at[i] = at[j]
    BY <1>2, <1>4
  <2>2. i \in Nat /\ j \in Nat /\ at[i] \in Nat /\ at[j] \in Nat /\ ~(i < j) /\ ~(j < i)
    BY <1>2, <2>1
  <2>3. QED
    BY <2>2
<1>5. QED
  BY <1>1, <1>3, <1>4 DEF t

\* A sequence with one more entry.
LEMMA Extends ==
  ASSUME NEW S, NEW s \in Seq(S), NEW x \in S
  PROVE  /\ Append(s, x) \in Seq(S) /\ Len(Append(s, x)) = Len(s) + 1
         /\ Append(s, x)[Len(s) + 1] = x
         /\ \A p \in 1..Len(s) : Append(s, x)[p] = s[p]
OBVIOUS

\* A sequence without its last entry, and that entry.
LEMMA Split ==
  ASSUME NEW S, NEW s \in Seq(S), s # <<>>
  PROVE  /\ Front(s) \in Seq(S) /\ Len(s) \in Nat \ {0} /\ Len(Front(s)) = Len(s) - 1
         /\ Last(s) = s[Len(s)] /\ Last(s) \in S
         /\ \A p \in 1..Len(s) - 1 : Front(s)[p] = s[p]
<1>1. Len(s) \in Nat /\ Len(s) # 0
  OBVIOUS
<1>2. Last(s) = s[Len(s)] /\ Last(s) \in S
  BY <1>1 DEF Last
<1>3. /\ Front(s) \in Seq(S) /\ Len(Front(s)) = Len(s) - 1
      /\ \A p \in 1..Len(s) - 1 : Front(s)[p] = s[p]
  <2>1. \A p \in 1..Len(s) - 1 : s[p] \in S
    BY <1>1
  <2>2. 1 \in Int /\ Len(s) - 1 \in Int
    BY <1>1
  <2> DEFINE f == SubSeq(s, 1, Len(s) - 1)
  <2>3. /\ f \in Seq(S)
        /\ Len(f) = IF 1 <= Len(s) - 1 THEN Len(s) - 1 - 1 + 1 ELSE 0
        /\ \A i \in 1..Len(s) - 1 - 1 + 1 : f[i] = s[1 + i - 1]
    BY <2>1, <2>2, SubSeqProperties
  <2> HIDE DEF f
  <2>4. Len(f) = Len(s) - 1
    <3>1. Len(f) = IF 1 <= Len(s) - 1 THEN Len(s) - 1 - 1 + 1 ELSE 0
      BY <2>3
    <3>2. CASE Len(s) = 1
      BY <3>1, <3>2
    <3>3. CASE Len(s) > 1
      BY <1>1, <3>1, <3>3
    <3>4. QED
      BY <1>1, <3>2, <3>3
  <2>5. ASSUME NEW p \in 1..Len(s) - 1 PROVE f[p] = s[p]
    <3>1. p \in 1..Len(s) - 1 - 1 + 1 /\ 1 + p - 1 = p
      BY <1>1
    <3>2. QED
      BY <2>3, <3>1
  <2>6. Front(s) = f
    BY DEF f, Front
  <2>7. QED
    BY <2>3, <2>4, <2>5, <2>6
<1>4. QED
  BY <1>1, <1>2, <1>3

\* The first n numbers are n.
LEMMA CountTo == ASSUME NEW n \in Nat PROVE Cardinality(1..n) = n
<1>1. Cardinality(1..n) = IF 1 > n THEN 0 ELSE n - 1 + 1
  BY FS_Interval
<1>2. QED
  BY <1>1

------------------------------------------------------------------------------
(* A history and the redo stack behind it                                     *)

\* The history h, then the redo entries r from the top of their stack.
Line(h, r) ==
    [k \in 1..Len(h) + Len(r) |-> IF k <= Len(h) THEN h[k] ELSE r[Len(h) + Len(r) - k + 1]]

\* What stands at a place of the line.
LEMMA LineAt ==
  ASSUME NEW h, NEW r, NEW N, N = Len(h) + Len(r), NEW k \in 1..N
  PROVE  Line(h, r)[k] = IF k <= Len(h) THEN h[k] ELSE r[N - k + 1]
BY DEF Line

\* The line is a sequence of the two stacks' entries.
LEMMA LineType ==
  ASSUME NEW S, NEW h \in Seq(S), NEW r \in Seq(S)
  PROVE  /\ Line(h, r) \in Seq(S) /\ Len(Line(h, r)) = Len(h) + Len(r)
         /\ DOMAIN Line(h, r) = 1..Len(h) + Len(r)
         /\ \A k \in 1..Len(h) : Line(h, r)[k] = h[k]
         /\ \A k \in 1..Len(r) : Line(h, r)[Len(h) + Len(r) - k + 1] = r[k]
<1>1. PICK H \in Nat, R \in Nat : H = Len(h) /\ R = Len(r)
  OBVIOUS
<1> DEFINE at(k) == IF k <= H THEN h[k] ELSE r[H + R - k + 1]
<1>2. \A k \in 1..H + R : at(k) \in S
  BY <1>1
<1>3. Line(h, r) = [k \in 1..H + R |-> at(k)]
  BY <1>1 DEF Line
<1>4. \A k \in 1..H : at(k) = h[k]
  OBVIOUS
<1>5. \A k \in 1..R : at(H + R - k + 1) = r[k] /\ H + R - k + 1 \in 1..H + R
  OBVIOUS
<1>6. H + R \in Nat /\ \A k \in 1..H : k \in 1..H + R
  OBVIOUS
<1> HIDE DEF at
<1>7. PICK N \in Nat : N = H + R
  BY <1>6
<1>8. [k \in 1..N |-> at(k)] \in Seq(S) /\ Len([k \in 1..N |-> at(k)]) = N
  BY <1>2, <1>7
<1>9. QED
  BY <1>1, <1>3, <1>4, <1>5, <1>6, <1>7, <1>8
\* Two lines are the same when they have one length and the same entries.
LEMMA LinesAgree ==
  ASSUME NEW S, NEW h \in Seq(S), NEW r \in Seq(S), NEW i \in Seq(S), NEW s \in Seq(S),
         Len(i) + Len(s) = Len(h) + Len(r),
         \A k \in 1..Len(h) + Len(r) : Line(i, s)[k] = Line(h, r)[k]
  PROVE  Line(i, s) = Line(h, r)
<1>1. /\ Line(i, s) \in Seq(S) /\ Len(Line(i, s)) = Len(h) + Len(r)
      /\ Line(h, r) \in Seq(S) /\ Len(Line(h, r)) = Len(h) + Len(r)
  BY LineType
<1>2. QED
  BY <1>1, SeqEqual

\* An undo moves the border between the stacks and leaves the line as it is.
LEMMA LineUndo ==
  ASSUME NEW S, NEW h \in Seq(S), NEW r \in Seq(S), h # <<>>
  PROVE  Line(Front(h), Append(r, Last(h))) = Line(h, r)
<1>1. PICK c, d : c = Front(h) /\ d = Append(r, Last(h))
  OBVIOUS
<1>2. /\ Len(h) \in Nat \ {0} /\ Len(c) = Len(h) - 1 /\ Last(h) = h[Len(h)] /\ Last(h) \in S
      /\ c \in Seq(S) /\ \A p \in 1..Len(h) - 1 : c[p] = h[p]
  BY <1>1, Split
<1>3. /\ d \in Seq(S) /\ Len(d) = Len(r) + 1 /\ d[Len(r) + 1] = h[Len(h)] /\ Len(r) \in Nat
      /\ \A p \in 1..Len(r) : d[p] = r[p]
  BY <1>1, <1>2, Extends
<1>4. Len(c) + Len(d) = Len(h) + Len(r)
  BY <1>2, <1>3
<1>5. ASSUME NEW k \in 1..Len(h) + Len(r) PROVE Line(c, d)[k] = Line(h, r)[k]
  <2>1. /\ Line(c, d)[k] = IF k <= Len(c) THEN c[k] ELSE d[Len(h) + Len(r) - k + 1]
        /\ Line(h, r)[k] = IF k <= Len(h) THEN h[k] ELSE r[Len(h) + Len(r) - k + 1]
    <3>1. PICK N : N = Len(h) + Len(r)
      OBVIOUS
    <3>2. N = Len(c) + Len(d) /\ k \in 1..N
      BY <1>4, <3>1
    <3>3. Line(c, d)[k] = IF k <= Len(c) THEN c[k] ELSE d[N - k + 1]
      BY <3>2, LineAt
    <3>4. Line(h, r)[k] = IF k <= Len(h) THEN h[k] ELSE r[N - k + 1]
      BY <3>1, <3>2, LineAt
    <3>5. QED
      BY <3>1, <3>3, <3>4
  <2>2. CASE k < Len(h)
    BY <1>2, <2>1, <2>2
  <2>3. CASE k = Len(h)
    BY <1>2, <1>3, <2>1, <2>3
  <2>4. CASE k > Len(h)
    <3>1. Len(h) + Len(r) - k + 1 \in 1..Len(r) /\ ~(k <= Len(c)) /\ ~(k <= Len(h))
      BY <1>2, <1>3, <2>4
    <3>2. QED
      BY <1>3, <2>1, <3>1
  <2>5. QED
    BY <1>2, <2>2, <2>3, <2>4
<1>6. Line(c, d) = Line(h, r)
  <2>1. c \in Seq(S) /\ d \in Seq(S)
    BY <1>2, <1>3
  <2>2. QED
    BY <2>1, <1>4, <1>5, LinesAgree, Zenon
<1>7. QED
  BY <1>1, <1>6

\* So does a redo.
LEMMA LineRedo ==
  ASSUME NEW S, NEW h \in Seq(S), NEW r \in Seq(S), r # <<>>
  PROVE  /\ Line(Append(h, Last(r)), Front(r)) = Line(h, r)
         /\ Line(h, r)[Len(h) + 1] = Last(r) /\ Len(h) + 1 <= Len(h) + Len(r)
<1>1. PICK c, d : c = Append(h, Last(r)) /\ d = Front(r)
  OBVIOUS
<1>2. /\ Len(r) \in Nat \ {0} /\ Len(d) = Len(r) - 1 /\ Last(r) = r[Len(r)] /\ Last(r) \in S
      /\ d \in Seq(S) /\ \A p \in 1..Len(r) - 1 : d[p] = r[p]
  BY <1>1, Split
<1>3. /\ c \in Seq(S) /\ Len(c) = Len(h) + 1 /\ c[Len(h) + 1] = r[Len(r)] /\ Len(h) \in Nat
      /\ \A p \in 1..Len(h) : c[p] = h[p]
  BY <1>1, <1>2, Extends
<1>4. Len(c) + Len(d) = Len(h) + Len(r)
  BY <1>2, <1>3
<1>5. ASSUME NEW k \in 1..Len(h) + Len(r) PROVE Line(c, d)[k] = Line(h, r)[k]
  <2>1. /\ Line(c, d)[k] = IF k <= Len(c) THEN c[k] ELSE d[Len(h) + Len(r) - k + 1]
        /\ Line(h, r)[k] = IF k <= Len(h) THEN h[k] ELSE r[Len(h) + Len(r) - k + 1]
    <3>1. PICK N : N = Len(h) + Len(r)
      OBVIOUS
    <3>2. N = Len(c) + Len(d) /\ k \in 1..N
      BY <1>4, <3>1
    <3>3. Line(c, d)[k] = IF k <= Len(c) THEN c[k] ELSE d[N - k + 1]
      BY <3>2, LineAt
    <3>4. Line(h, r)[k] = IF k <= Len(h) THEN h[k] ELSE r[N - k + 1]
      BY <3>1, <3>2, LineAt
    <3>5. QED
      BY <3>1, <3>3, <3>4
  <2>2. CASE k <= Len(h)
    BY <1>3, <2>1, <2>2
  <2>3. CASE k = Len(h) + 1
    BY <1>2, <1>3, <2>1, <2>3
  <2>4. CASE k > Len(h) + 1
    <3>1. Len(h) + Len(r) - k + 1 \in 1..Len(r) - 1 /\ ~(k <= Len(c)) /\ ~(k <= Len(h))
      BY <1>2, <1>3, <2>4
    <3>2. QED
      BY <1>2, <2>1, <3>1
  <2>5. QED
    BY <1>3, <2>2, <2>3, <2>4
<1>6. Line(c, d) = Line(h, r)
  <2>1. c \in Seq(S) /\ d \in Seq(S)
    BY <1>2, <1>3
  <2>2. QED
    BY <2>1, <1>4, <1>5, LinesAgree, Zenon
<1>7. Line(h, r)[Len(h) + 1] = r[Len(r)]
  <2>1. Len(h) + Len(r) - Len(r) + 1 = Len(h) + 1 /\ Len(r) \in 1..Len(r)
    BY <1>2, <1>3
  <2>2. QED
    BY <2>1, LineType
<1>8. QED
  BY <1>1, <1>2, <1>3, <1>6, <1>7

\* A new entry cuts the line behind the history and stands at its end.
LEMMA LineAppend ==
  ASSUME NEW S, NEW h \in Seq(S), NEW e \in S
  PROVE  /\ Len(Line(Append(h, e), <<>>)) = Len(h) + 1
         /\ Line(Append(h, e), <<>>)[Len(h) + 1] = e
         /\ \A k \in 1..Len(h) : Line(Append(h, e), <<>>)[k] = h[k]
<1>1. PICK c : c = Append(h, e)
  OBVIOUS
<1>2. /\ c \in Seq(S) /\ Len(c) = Len(h) + 1 /\ c[Len(h) + 1] = e /\ Len(h) \in Nat
      /\ \A p \in 1..Len(h) : c[p] = h[p]
  BY <1>1, Extends
<1>3. <<>> \in Seq(S) /\ Len(<<>>) = 0
  OBVIOUS
<1>4. Len(Line(c, <<>>)) = Len(c) + 0 /\ \A k \in 1..Len(c) : Line(c, <<>>)[k] = c[k]
  BY <1>2, <1>3, LineType
<1>5. QED
  BY <1>1, <1>2, <1>4

\* A list with the reverse of another one behind it is such a line.
LEMMA LineIsConcat ==
  ASSUME NEW S, NEW h \in Seq(S), NEW r \in Seq(S)
  PROVE  h \o Reverse(r) = Line(h, r)
<1>1. Len(h) \in Nat /\ Len(r) \in Nat
  OBVIOUS
<1>2. PICK q : q = Reverse(r)
  OBVIOUS
<1>3. q \in Seq(S) /\ Len(q) = Len(r) /\ \A p \in 1..Len(r) : q[p] = r[Len(r) - p + 1]
  <2>1. \A p \in 1..Len(r) : r[Len(r) - p + 1] \in S
    BY <1>1
  <2>2. QED
    BY <1>1, <1>2, <2>1 DEF Reverse
<1>4. /\ h \o q \in Seq(S) /\ Len(h \o q) = Len(h) + Len(q)
      /\ \A i \in 1..Len(h) + Len(q) : (h \o q)[i] = IF i <= Len(h) THEN h[i] ELSE q[i - Len(h)]
  <2>1. q \in Seq(S)
    BY <1>3
  <2>2. QED
    BY <2>1, ConcatProperties, Zenon
<1>5. Line(h, r) \in Seq(S) /\ Len(Line(h, r)) = Len(h) + Len(r)
  BY LineType
<1>6. ASSUME NEW k \in 1..Len(h) + Len(r) PROVE (h \o q)[k] = Line(h, r)[k]
  <2>1. Line(h, r)[k] = IF k <= Len(h) THEN h[k] ELSE r[Len(h) + Len(r) - k + 1]
    BY DEF Line
  <2>2. CASE k <= Len(h)
    BY <1>1, <1>3, <1>4, <2>1, <2>2
  <2>3. CASE ~(k <= Len(h))
    <3>1. k - Len(h) \in 1..Len(r) /\ Len(r) - (k - Len(h)) + 1 = Len(h) + Len(r) - k + 1
      BY <1>1, <2>3
    <3>2. QED
      BY <1>3, <1>4, <2>1, <2>3, <3>1
  <2>4. QED
    BY <2>2, <2>3
<1>7. PICK g : g = h \o q
  OBVIOUS
<1>8. QED
  BY <1>2, <1>3, <1>4, <1>5, <1>6, <1>7, SeqEqual

\* The entry at a place that is picked comes after those at the picked places before it.
LEMMA PickAt ==
  ASSUME NEW S, NEW s \in Seq(S), NEW P \in SUBSET DOMAIN s, NEW p \in P
  PROVE  LET k == Cardinality({n \in P : n <= p})
         IN  k \in 1..Len(Pick(s, P)) /\ Pick(s, P)[k] = s[p]
<1>1. PICK t : t = Pick(s, P)
  OBVIOUS
<1>2. PICK at : t \in Seq(S) /\ TakenFrom(t, s, P, Len(s), at)
  BY <1>1, PickTakes
<1>3. /\ Len(t) \in Nat /\ Len(s) \in Nat /\ P \subseteq 1..Len(s)
      /\ \A k \in 1..Len(t) : at[k] \in 1..Len(s) /\ at[k] \in P /\ t[k] = s[at[k]]
      /\ \A j, k \in 1..Len(t) : j < k => at[j] < at[k]
      /\ \A q \in P : \E k \in 1..Len(t) : at[k] = q
  BY <1>2 DEF TakenFrom
<1>4. PICK k \in 1..Len(t) : at[k] = p
  BY <1>3
<1> DEFINE B == {n \in P : n <= p}
           f == [m \in 1..k |-> at[m]]
<1>5. f \in [1..k -> B]
  <2>1. ASSUME NEW m \in 1..k PROVE at[m] \in B
    <3>1. m \in 1..Len(t) /\ (m = k \/ m < k)
      BY <1>3
    <3>2. at[m] \in P /\ at[m] \in Nat /\ p \in Nat
      BY <1>3, <3>1
    <3>3. at[m] <= p
      BY <1>3, <1>4, <3>1, <3>2
    <3>4. QED
      BY <3>2, <3>3
  <2>2. QED
    BY <2>1
<1>6. \A i, j \in 1..k : f[i] = f[j] => i = j
  <2>1. ASSUME NEW i \in 1..k, NEW j \in 1..k, at[i] = at[j] PROVE i = j
    <3>1. i \in 1..Len(t) /\ j \in 1..Len(t) /\ at[i] \in Nat /\ at[j] \in Nat
      BY <1>3
    <3>2. ~(i < j) /\ ~(j < i)
      BY <1>3, <2>1, <3>1
    <3>3. QED
      BY <3>2
  <2>2. QED
    BY <2>1
<1>7. \A q \in B : \E i \in 1..k : f[i] = q
  <2>1. ASSUME NEW q \in B PROVE \E i \in 1..k : at[i] = q
    <3>1. PICK i \in 1..Len(t) : at[i] = q
      BY <1>3
    <3>2. at[i] \in Nat /\ p \in Nat /\ at[i] <= p
      BY <1>3, <3>1
    <3>3. ~(k < i)
      BY <1>3, <1>4, <3>2
    <3>4. i \in 1..k
      BY <3>3
    <3>5. QED
      BY <3>1, <3>4
  <2>2. QED
    BY <2>1
<1>8. f \in Bijection(1..k, B)
  BY <1>5, <1>6, <1>7 DEF Bijection, Injection, Surjection, IsInjective
<1>9. Cardinality(B) = k
  <2> HIDE DEF f, B
  <2>1. k \in Nat
    BY <1>3
  <2>2. ExistsBijection(1..k, B)
    BY <1>8 DEF ExistsBijection
  <2>3. QED
    BY <2>1, <2>2, FS_CountingElements
<1>10. QED
  BY <1>1, <1>3, <1>4, <1>9
==============================================================================
