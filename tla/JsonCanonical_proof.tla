------------------------ MODULE JsonCanonical_proof -------------------------
(***************************************************************************)
(* What the writers of JSON do to names and numbers, for names of any       *)
(* length and numbers of any number of digits: Go's < on strings and the    *)
(* comparison of UTF-16 units order names as Before does, so that sorting   *)
(* leaves one order of a finite set of names; and esNumber writes a float   *)
(* as JavaScript does and in a form that is read as the same float.  The    *)
(* inductions are over sets of numbers, from the least or the greatest one. *)
(***************************************************************************)
EXTENDS JsonContract, FiniteSetTheorems, WellFoundedInduction, TLAPS

(* Induction over intervals. *)

LEMMA LeastIndex ==
    ASSUME NEW n \in Nat, NEW I \in SUBSET (1..n), I # {}
    PROVE  \E i \in I : \A j \in I : i <= j
<1> DEFINE Upto(i) == {j \in I : j <= i}
           D == {Upto(i) : i \in I}
<1>1. IsFiniteSet(I)
  <2>1. IsFiniteSet(1..n)
    BY FS_Interval
  <2> QED
    BY <2>1, FS_Subset
<1>2. IsWellFoundedOn(StrictSubsetOrdering(I), SUBSET I)
  <2>1. IsWellFoundedOn(StrictSubsetOrdering(I), FiniteSubsetsOf(I))
    BY FS_StrictSubsetOrderingWellFounded
  <2> QED
    BY <1>1, FS_FiniteSubsetsOfFinite, <2>1
<1>3. D \subseteq SUBSET I /\ D # {}
  OBVIOUS
<1>4. \E x \in D : \A y \in D : ~(<<y, x>> \in StrictSubsetOrdering(I))
  <2> HIDE DEF D
  <2> QED
    BY <1>2, <1>3, WFMin
<1>5. PICK i \in I : \A k \in I : ~(<<Upto(k), Upto(i)>> \in StrictSubsetOrdering(I))
  BY <1>4
<1>6. ASSUME NEW k \in I, k < i
      PROVE  FALSE
  <2>1. Upto(k) \subseteq Upto(i) /\ i \in Upto(i) /\ i \notin Upto(k)
    <3>1. k \in Int /\ i \in Int /\ k < i /\ ~(i <= k) /\ i <= i
      BY <1>6
    <3>2. ASSUME NEW j \in I, j <= k
          PROVE  j <= i
      <4>1. j \in Int
        OBVIOUS
      <4> QED
        BY <4>1, <3>1, <3>2
    <3> QED
      BY <3>1, <3>2
  <2>2. Upto(k) \in SUBSET I /\ Upto(i) \in SUBSET I
    OBVIOUS
  <2> HIDE DEF Upto
  <2>3. <<Upto(k), Upto(i)>> \in StrictSubsetOrdering(I)
    BY <2>1, <2>2 DEF StrictSubsetOrdering
  <2> QED
    BY <2>3, <1>5
<1> QED
  BY <1>6

LEMMA UpwardInduction ==
    ASSUME NEW n \in Nat, NEW Good, 0 \in Good,
           \A i \in 1..n : i - 1 \in Good => i \in Good
    PROVE  0..n \subseteq Good
<1> DEFINE Bad == (1..n) \ Good
<1>1. Bad \in SUBSET (1..n)
  OBVIOUS
<1>2. ASSUME Bad # {} PROVE FALSE
  <2> HIDE DEF Bad
  <2>1. PICK i \in Bad : \A j \in Bad : i <= j
    BY <1>1, <1>2, LeastIndex
  <2>2. i \in 1..n /\ i \notin Good /\ i \in Int
    BY DEF Bad
  <2>3. i - 1 \notin Bad
    BY <2>1, <2>2
  <2>4. i - 1 \in Good
    BY <2>2, <2>3 DEF Bad
  <2> QED BY <2>2, <2>4
<1> QED
  <2>1. \A i \in 0..n : i = 0 \/ i \in 1..n
    OBVIOUS
  <2> QED BY <2>1, <1>2

LEMMA DownwardInduction ==
    ASSUME NEW n \in Nat, NEW Good,
           \A i \in 1..n : (\A j \in 1..n : i < j => j \in Good) => i \in Good
    PROVE  1..n \subseteq Good
<1> DEFINE Bad == (1..n) \ Good
           Mirror == {i \in 1..n : n + 1 - i \in Bad}
<1>1. ASSUME NEW b \in Bad PROVE FALSE
  <2>1. Mirror \in SUBSET (1..n)
    OBVIOUS
  <2>2. b \in 1..n /\ n + 1 - b \in 1..n /\ n + 1 - (n + 1 - b) = b
    OBVIOUS
  <2>3. Mirror # {}
    BY <2>2
  <2>4. PICK i \in Mirror : \A j \in Mirror : i <= j
    <3> HIDE DEF Mirror
    <3> QED BY <2>1, <2>3, LeastIndex
  <2>5. i \in 1..n /\ n + 1 - i \in 1..n /\ n + 1 - i \in Bad /\ n + 1 - i \notin Good
    OBVIOUS
  <2>6. ASSUME NEW j \in 1..n, n + 1 - i < j PROVE j \in Good
    <3>1. n + 1 - j \in 1..n /\ n + 1 - (n + 1 - j) = j /\ n + 1 - j < i
      BY <2>5, <2>6
    <3>2. n + 1 - j \notin Mirror
      <4> HIDE DEF Mirror
      <4> QED BY <2>4, <2>5, <3>1
    <3> QED BY <3>1, <3>2
  <2> HIDE DEF Mirror, Bad
  <2> QED BY <2>5, <2>6
<1> QED BY <1>1

LEMMA GreatestIndex ==
    ASSUME NEW n \in Nat, NEW I \in SUBSET (1..n), I # {}
    PROVE  \E i \in I : \A j \in I : j <= i
<1> DEFINE Good == (1..n) \ I
<1>1. SUFFICES ASSUME \A i \in I : \E j \in I : ~(j <= i) PROVE FALSE
  OBVIOUS
<1>2. \A i \in 1..n : (\A j \in 1..n : i < j => j \in Good) => i \in Good
  <2> TAKE i \in 1..n
  <2> HAVE \A j \in 1..n : i < j => j \in Good
  <2>1. ASSUME i \in I PROVE FALSE
    <3>1. PICK j \in I : ~(j <= i)
      BY <1>1, <2>1
    <3>2. j \in 1..n /\ i < j
      BY <3>1
    <3> QED BY <3>2
  <2> QED BY <2>1
<1>3. 1..n \subseteq Good
  <2> HIDE DEF Good
  <2> QED BY <1>2, DownwardInduction
<1> QED BY <1>3

-----------------------------------------------------------------------------
(* Concatenation. *)

LEMMA Concatenation ==
    ASSUME NEW S, NEW a \in Seq(S), NEW b \in Seq(S)
    PROVE  /\ a \o b \in Seq(S)
           /\ Len(a \o b) = Len(a) + Len(b)
           /\ Len(a) \in Nat /\ Len(b) \in Nat
           /\ \A q \in 1..Len(a) : (a \o b)[q] = a[q]
           /\ \A q \in 1..Len(b) : (a \o b)[Len(a) + q] = b[q]
OBVIOUS

Accumulates(F, s, m) ==
    /\ F \in [0..m -> Seq(Nat)]
    /\ F[0] = <<>>
    /\ \A i \in 1..m : F[i] = F[i - 1] \o s[i]

LEMMA AccumulationExists ==
    ASSUME NEW s \in Seq(Seq(Nat)), NEW m \in 0..Len(s)
    PROVE  \E F : Accumulates(F, s, m)
<1> DEFINE Good == {i \in 0..Len(s) : \E F : Accumulates(F, s, i)}
<1>1. 0 \in Good
  <2>1. Accumulates([i \in 0..0 |-> <<>>], s, 0)
    BY DEF Accumulates
  <2> QED BY <2>1
<1>2. ASSUME NEW i \in 1..Len(s), i - 1 \in Good PROVE i \in Good
  <2>1. i \in Nat /\ i - 1 \in Nat /\ s[i] \in Seq(Nat)
    OBVIOUS
  <2>2. PICK F : Accumulates(F, s, i - 1)
    BY <1>2
  <2> DEFINE G == [k \in 0..i |-> IF k = i THEN F[i - 1] \o s[i] ELSE F[k]]
  <2>3. F \in [0..(i - 1) -> Seq(Nat)] /\ F[0] = <<>>
    BY <2>2 DEF Accumulates
  <2>4. F[i - 1] \o s[i] \in Seq(Nat)
    BY <2>1, <2>3
  <2>5. G \in [0..i -> Seq(Nat)] /\ G[i] = F[i - 1] \o s[i]
    <3>1. \A k \in 0..i : k # i => k \in 0..(i - 1) /\ F[k] \in Seq(Nat)
      BY <2>1, <2>3
    <3>2. i \in 0..i
      BY <2>1
    <3> QED BY <2>4, <3>1, <3>2
  <2>6. \A k \in 0..(i - 1) : G[k] = F[k]
    BY <2>1
  <2> HIDE DEF G
  <2>7. \A k \in 1..i : G[k] = G[k - 1] \o s[k]
    <3> TAKE k \in 1..i
    <3>1. k - 1 \in 0..(i - 1)
      OBVIOUS
    <3>2. CASE k = i
      BY <2>5, <2>6, <3>1, <3>2
    <3>3. CASE k # i
      <4>1. k \in 1..(i - 1) /\ k \in 0..(i - 1)
        BY <3>3
      <4>2. F[k] = F[k - 1] \o s[k]
        BY <4>1, <2>2 DEF Accumulates
      <4> QED BY <4>1, <4>2, <2>6, <3>1
    <3> QED BY <3>2, <3>3
  <2>8. G[0] = <<>>
    BY <2>1, <2>3, <2>6
  <2>9. Accumulates(G, s, i)
    BY <2>5, <2>7, <2>8 DEF Accumulates
  <2> QED BY <2>9
<1>3. 0..Len(s) \subseteq Good
  <2>1. Len(s) \in Nat
    OBVIOUS
  <2> HIDE DEF Good
  <2> QED BY <1>1, <1>2, <2>1, UpwardInduction
<1> QED BY <1>3

LEMMA FlattenAccumulates ==
    ASSUME NEW s \in Seq(Seq(Nat)), NEW F, Accumulates(F, s, Len(s))
    PROVE  FlattenSeq(s) = F[Len(s)]
<1> DEFINE n == Len(s)
           Body(f) == [i \in 1..n |-> IF i = 1 THEN s[i] ELSE f[i - 1] \o s[i]]
           flatten == CHOOSE f : f = Body(f)
           g == [i \in 1..n |-> F[i]]
<1>0. n \in Nat /\ F \in [0..n -> Seq(Nat)] /\ \A i \in 1..n : s[i] \in Seq(Nat)
  BY DEF Accumulates
<1>1. \A i \in 1..n : F[i] = F[i - 1] \o s[i]
  BY DEF Accumulates
<1>2. F[0] = <<>>
  BY DEF Accumulates
<1>3. n # 0 => F[1] = s[1]
  <2>1. ASSUME n # 0 PROVE 1 \in 1..n /\ F[1] = F[0] \o s[1]
    <3>1. 1 \in 1..n /\ 1 - 1 = 0
      BY <1>0, <2>1
    <3> HIDE DEF n
    <3> QED BY <1>1, <3>1
  <2> QED BY <2>1, <1>0, <1>2
<1>4. CASE n = 0
  <2>1. s = <<>>
    BY <1>4
  <2> QED BY <1>4, <2>1, <1>2 DEF FlattenSeq
<1>5. CASE n # 0
  <2>1. \A i \in 1..n : F[i] = IF i = 1 THEN s[i] ELSE F[i - 1] \o s[i]
    BY <1>1, <1>3, <1>5
  <2>2. \A i \in 1..n : i # 1 => i - 1 \in 1..n /\ g[i - 1] = F[i - 1]
    BY <1>0
  <2>3. g = Body(g)
    BY <2>1, <2>2
  <2>4. flatten = Body(flatten)
    <3> HIDE DEF g
    <3> QED BY <2>3
  <2>5. FlattenSeq(s) = flatten[n]
    BY <1>5 DEF FlattenSeq
  <2> HIDE DEF flatten
  <2>6. \A i \in 1..n : flatten[i] = IF i = 1 THEN s[i] ELSE flatten[i - 1] \o s[i]
    BY <2>4
  <2> HIDE DEF Body, g
  <2> DEFINE Good == {0} \cup {i \in 1..n : flatten[i] = F[i]}
  <2>7. \A i \in 1..n : i - 1 \in Good => i \in Good
    <3> TAKE i \in 1..n
    <3> HAVE i - 1 \in Good
    <3>1. CASE i = 1
      BY <2>6, <1>3, <1>5, <3>1
    <3>2. CASE i # 1
      <4>1. flatten[i - 1] = F[i - 1]
        BY <3>2, <1>0
      <4> QED BY <4>1, <3>2, <2>6, <1>1
    <3> QED BY <3>1, <3>2
  <2>8. 0..n \subseteq Good
    <3>1. 0 \in Good
      OBVIOUS
    <3> HIDE DEF Good, n
    <3> QED BY <1>0, <2>7, <3>1, UpwardInduction
  <2>9. n \in 0..n
    BY <1>0
  <2>10. flatten[n] = F[n]
    BY <1>5, <2>8, <2>9
  <2> QED
    BY <2>5, <2>10
<1> QED BY <1>4, <1>5

Begins(a, p) == Len(p) <= Len(a) /\ \A q \in 1..Len(p) : a[q] = p[q]

StandsIn(a, l, u) == l + Len(u) <= Len(a) /\ \A q \in 1..Len(u) : a[l + q] = u[q]

Agree(s, t, k) == \A j \in 1..k : s[j] = t[j]

LEMMA ConcatenationBegins ==
    ASSUME NEW p \in Seq(Nat), NEW u \in Seq(Nat)
    PROVE  /\ p \o u \in Seq(Nat)
           /\ Begins(p \o u, p) /\ StandsIn(p \o u, Len(p), u)
BY Concatenation DEF Begins, StandsIn

LEMMA BeginsIsTransitive ==
    ASSUME NEW a \in Seq(Nat), NEW b \in Seq(Nat), NEW c \in Seq(Nat),
           Begins(a, b), Begins(b, c)
    PROVE  Begins(a, c)
<1>1. Len(a) \in Nat /\ Len(b) \in Nat /\ Len(c) \in Nat
  OBVIOUS
<1>2. Len(c) <= Len(b) /\ Len(b) <= Len(a)
  BY DEF Begins
<1>3. ASSUME NEW q \in 1..Len(c) PROVE a[q] = c[q]
  <2>1. q \in 1..Len(b)
    BY <1>1, <1>2
  <2> QED BY <2>1 DEF Begins
<1> QED BY <1>1, <1>2, <1>3 DEF Begins

LEMMA StandsInLonger ==
    ASSUME NEW a \in Seq(Nat), NEW b \in Seq(Nat), NEW l \in Nat, NEW u \in Seq(Nat),
           Begins(a, b), StandsIn(b, l, u)
    PROVE  StandsIn(a, l, u)
<1>1. Len(a) \in Nat /\ Len(b) \in Nat /\ Len(u) \in Nat
  OBVIOUS
<1>2. l + Len(u) <= Len(b) /\ Len(b) <= Len(a)
  BY DEF Begins, StandsIn
<1>3. ASSUME NEW q \in 1..Len(u) PROVE a[l + q] = u[q]
  <2>1. l + q \in 1..Len(b)
    BY <1>1, <1>2
  <2>2. a[l + q] = b[l + q]
    BY <2>1 DEF Begins
  <2> QED BY <2>2 DEF StandsIn
<1> QED BY <1>1, <1>2, <1>3 DEF StandsIn

LEMMA AccumulationStep ==
    ASSUME NEW s \in Seq(Seq(Nat)), NEW n \in Nat, n <= Len(s), NEW F, Accumulates(F, s, n),
           NEW k \in Nat, k < n
    PROVE  /\ F[k + 1] = F[k] \o s[k + 1]
           /\ F[k] \in Seq(Nat) /\ F[k + 1] \in Seq(Nat) /\ s[k + 1] \in Seq(Nat)
<1>1. PICK i \in Nat : i = k + 1
  OBVIOUS
<1>2. i \in 1..n /\ i - 1 = k /\ i \in 0..n /\ k \in 0..n /\ i \in 1..Len(s)
  BY <1>1
<1>3. F[i] = F[i - 1] \o s[i]
  BY <1>2 DEF Accumulates
<1>4. F[k] \in Seq(Nat) /\ F[i] \in Seq(Nat)
  BY <1>2 DEF Accumulates
<1>5. s[i] \in Seq(Nat)
  BY <1>2
<1> QED BY <1>1, <1>2, <1>3, <1>4, <1>5

LEMMA Pieces ==
    ASSUME NEW s \in Seq(Seq(Nat)), NEW n \in Nat, n <= Len(s), NEW F, Accumulates(F, s, n),
           NEW i \in 0..n, NEW j \in 0..n, i <= j
    PROVE  F[j] \in Seq(Nat) /\ Begins(F[j], F[i])
<1> DEFINE Good == {k \in 0..n : i <= k => Begins(F[k], F[i])}
<1>1. \A k \in 0..n : F[k] \in Seq(Nat)
  BY DEF Accumulates
<1>2. ASSUME NEW k \in 1..n, k - 1 \in Good PROVE k \in Good
  <2>1. CASE i <= k - 1
    <3>1. PICK h \in Nat : h = k - 1
      OBVIOUS
    <3>2. h < n /\ h \in 0..n /\ h + 1 = k /\ k \in 0..n
      BY <3>1
    <3>3. F[k] = F[h] \o s[k] /\ s[k] \in Seq(Nat) /\ F[h] \in Seq(Nat) /\ F[k] \in Seq(Nat)
      BY <3>2, AccumulationStep
    <3>4. Begins(F[k], F[h])
      BY <3>3, ConcatenationBegins
    <3>5. Begins(F[h], F[i])
      BY <1>2, <2>1, <3>1
    <3>6. Begins(F[k], F[i])
      BY <1>1, <3>3, <3>4, <3>5, BeginsIsTransitive
    <3> QED BY <3>2, <3>6
  <2>2. CASE i = k
    <3>1. Begins(F[k], F[i])
      BY <1>1, <2>2 DEF Begins
    <3> QED BY <3>1
  <2>3. CASE k < i
    BY <2>3
  <2> QED BY <2>1, <2>2, <2>3
<1>3. 0 \in Good
  <2>1. 0 \in 0..n /\ (i <= 0 => i = 0)
    OBVIOUS
  <2>2. F[0] \in Seq(Nat)
    BY <1>1, <2>1
  <2> QED BY <2>1, <2>2 DEF Begins
<1>4. 0..n \subseteq Good
  <2> HIDE DEF Good
  <2> QED BY <1>2, <1>3, UpwardInduction
<1> QED BY <1>1, <1>4

LEMMA SamePieces ==
    ASSUME NEW s, NEW t, NEW k \in Nat, NEW n \in Nat, k <= n, NEW m \in Nat, k <= m,
           NEW F, Accumulates(F, s, n), NEW G, Accumulates(G, t, m), Agree(s, t, k)
    PROVE  F[k] = G[k]
<1> DEFINE Good == {i \in 0..k : F[i] = G[i]}
<1>1. 0 \in Good
  BY DEF Accumulates
<1>2. ASSUME NEW i \in 1..k, i - 1 \in Good PROVE i \in Good
  <2>1. i \in 1..k /\ i \in 1..n /\ i \in 1..m
    OBVIOUS
  <2>2. F[i] = F[i - 1] \o s[i] /\ G[i] = G[i - 1] \o t[i]
    BY <2>1 DEF Accumulates
  <2>3. F[i - 1] = G[i - 1] /\ s[i] = t[i] /\ i \in 0..k
    BY <1>2, <2>1 DEF Agree
  <2>4. F[i] = G[i]
    BY <2>2, <2>3
  <2> QED BY <2>3, <2>4
<1>3. 0..k \subseteq Good
  <2> HIDE DEF Good
  <2> QED BY <1>1, <1>2, UpwardInduction
<1> QED BY <1>3

(* Where a piece begins depends on the pieces before it only. *)
LEMMA Flattened ==
    ASSUME NEW s \in Seq(Seq(Nat)), NEW k \in Nat, NEW F, Accumulates(F, s, k),
           NEW t \in Seq(Seq(Nat)), k < Len(t), Agree(s, t, k)
    PROVE  /\ F[k] \in Seq(Nat) /\ FlattenSeq(t) \in Seq(Nat) /\ t[k + 1] \in Seq(Nat)
           /\ Begins(FlattenSeq(t), F[k])
           /\ StandsIn(FlattenSeq(t), Len(F[k]), t[k + 1])
<1>1. PICK n \in Nat : n = Len(t)
  OBVIOUS
<1>2. k < n /\ k <= k /\ k <= n /\ k \in 0..n /\ k + 1 \in 0..n /\ n \in 0..n /\ k + 1 <= n /\ n <= Len(t)
  BY <1>1
<1>3. PICK G : Accumulates(G, t, n)
  BY <1>1, <1>2, AccumulationExists
<1>4. F[k] = G[k]
  BY <1>2, <1>3, SamePieces
<1>5. G[k + 1] = G[k] \o t[k + 1] /\ G[k] \in Seq(Nat) /\ t[k + 1] \in Seq(Nat)
  BY <1>2, <1>3, AccumulationStep
<1>6. FlattenSeq(t) = G[n]
  BY <1>1, <1>3, FlattenAccumulates
<1>7. G[n] \in Seq(Nat) /\ Begins(G[n], G[k]) /\ Begins(G[n], G[k + 1])
  BY <1>2, <1>3, Pieces
<1>8. G[k + 1] \in Seq(Nat) /\ StandsIn(G[k + 1], Len(G[k]), t[k + 1])
  BY <1>5, ConcatenationBegins
<1>9. Len(G[k]) \in Nat
  BY <1>5
<1>10. StandsIn(G[n], Len(G[k]), t[k + 1])
  BY <1>5, <1>7, <1>8, <1>9, StandsInLonger
<1> QED BY <1>4, <1>5, <1>6, <1>7, <1>10

Apart(u, v, q) ==
    /\ q \in Nat \ {0} /\ q <= Len(u) /\ q <= Len(v)
    /\ \A r \in 1..(q - 1) : u[r] = v[r]
    /\ u[q] < v[q]

LEMMA ApartIsLess ==
    ASSUME NEW a \in Seq(Nat), NEW b \in Seq(Nat), NEW h, Apart(a, b, h)
    PROVE  UnitsLess(a, b)
<1>1. h \in 1..Len(a) /\ h \in 1..Len(b) /\ a[h] < b[h]
  BY DEF Apart
<1>2. a[h] \in Nat /\ b[h] \in Nat
  BY <1>1
<1>3. h \in DOMAIN a \cap DOMAIN b /\ a[h] # b[h]
  BY <1>1, <1>2
<1>4. h \in FirstDifference(a, b)
  BY <1>3 DEF FirstDifference, Apart
<1> QED BY <1>1, <1>4 DEF UnitsLess

LEMMA ApartAfter ==
    ASSUME NEW p \in Seq(Nat), NEW u \in Seq(Nat), NEW v \in Seq(Nat), NEW q, Apart(u, v, q),
           NEW a \in Seq(Nat), Begins(a, p), StandsIn(a, Len(p), u),
           NEW b \in Seq(Nat), Begins(b, p), StandsIn(b, Len(p), v)
    PROVE  Apart(a, b, Len(p) + q)
<1>1. PICK l \in Nat : l = Len(p)
  OBVIOUS
<1>2. q \in Nat \ {0}
  BY DEF Apart
<1>3. PICK h \in Nat \ {0} : h = l + q
  BY <1>2
<1>4. Len(a) \in Nat /\ Len(b) \in Nat /\ Len(u) \in Nat /\ Len(v) \in Nat
  OBVIOUS
<1>5. q <= Len(u) /\ q <= Len(v) /\ l + Len(u) <= Len(a) /\ l + Len(v) <= Len(b)
  BY <1>1 DEF Apart, StandsIn
<1>6. h <= Len(a) /\ h <= Len(b) /\ q \in 1..Len(u) /\ q \in 1..Len(v)
  <2>1. PICK la \in Nat, lb \in Nat, lu \in Nat, lv \in Nat :
          la = Len(a) /\ lb = Len(b) /\ lu = Len(u) /\ lv = Len(v)
    BY <1>4
  <2>2. q <= lu /\ q <= lv /\ l + lu <= la /\ l + lv <= lb
    BY <2>1, <1>5
  <2>3. h <= la /\ h <= lb /\ q \in 1..lu /\ q \in 1..lv
    BY <2>2, <1>2, <1>3
  <2> QED BY <2>1, <2>3
<1>7. a[h] = u[q] /\ b[h] = v[q]
  BY <1>1, <1>3, <1>6 DEF StandsIn
<1>8. ASSUME NEW j \in 1..(h - 1) PROVE a[j] = b[j]
  <2>1. CASE j <= l
    <3>1. j \in 1..l
      BY <2>1
    <3> QED BY <3>1, <1>1 DEF Begins
  <2>2. CASE ~(j <= l)
    <3>1. PICK r \in Nat : r = j - l
      BY <2>2
    <3>2. r \in 1..(q - 1) /\ l + r = j
      BY <2>2, <3>1, <1>2, <1>3
    <3>3. r \in 1..Len(u) /\ r \in 1..Len(v)
      <4>1. \A i \in 1..Len(u) : \A g \in 1..(i - 1) : g \in 1..Len(u)
        BY <1>4
      <4>2. \A i \in 1..Len(v) : \A g \in 1..(i - 1) : g \in 1..Len(v)
        BY <1>4
      <4> QED BY <3>2, <4>1, <4>2, <1>6
    <3>4. a[l + r] = u[r] /\ b[l + r] = v[r]
      BY <3>3, <1>1 DEF StandsIn
    <3>5. u[r] = v[r]
      BY <3>2 DEF Apart
    <3> QED BY <3>2, <3>4, <3>5
  <2> QED BY <2>1, <2>2
<1>9. u[q] < v[q]
  BY DEF Apart
<1>10. Apart(a, b, h)
  BY <1>3, <1>6, <1>7, <1>8, <1>9 DEF Apart
<1> QED BY <1>1, <1>3, <1>10

LEMMA FirstDifferenceDecides ==
    ASSUME NEW s \in Seq(Seq(Nat)), NEW t \in Seq(Seq(Nat)),
           NEW k \in Nat, k < Len(s), k < Len(t), Agree(s, t, k),
           NEW q, Apart(s[k + 1], t[k + 1], q)
    PROVE  UnitsLess(FlattenSeq(s), FlattenSeq(t))
<1>0. k \in 0..Len(s)
  OBVIOUS
<1>1. PICK F : Accumulates(F, s, k)
  BY <1>0, AccumulationExists
<1>2. Agree(s, s, k)
  BY DEF Agree
<1>3. /\ F[k] \in Seq(Nat) /\ FlattenSeq(s) \in Seq(Nat) /\ s[k + 1] \in Seq(Nat)
      /\ Begins(FlattenSeq(s), F[k]) /\ StandsIn(FlattenSeq(s), Len(F[k]), s[k + 1])
  BY <1>1, <1>2, Flattened
<1>4. /\ FlattenSeq(t) \in Seq(Nat) /\ t[k + 1] \in Seq(Nat)
      /\ Begins(FlattenSeq(t), F[k]) /\ StandsIn(FlattenSeq(t), Len(F[k]), t[k + 1])
  BY <1>1, Flattened
<1>5. Apart(FlattenSeq(s), FlattenSeq(t), Len(F[k]) + q)
  BY <1>3, <1>4, ApartAfter
<1> QED BY <1>3, <1>4, <1>5, ApartIsLess

LEMMA PrefixIsLess ==
    ASSUME NEW s \in Seq(Seq(Nat)), NEW t \in Seq(Seq(Nat)), Len(s) < Len(t),
           Agree(s, t, Len(s)), t[Len(s) + 1] # <<>>
    PROVE  UnitsLess(FlattenSeq(s), FlattenSeq(t))
<1>1. PICK n \in Nat : n = Len(s)
  OBVIOUS
<1>2. n \in 0..Len(s) /\ n \in 0..n
  BY <1>1
<1>3. PICK F : Accumulates(F, s, n)
  BY <1>2, AccumulationExists
<1>4. FlattenSeq(s) = F[n]
  BY <1>1, <1>3, FlattenAccumulates
<1>5. PICK a \in Seq(Nat), u \in Seq(Nat), b \in Seq(Nat) :
        a = F[n] /\ b = FlattenSeq(t) /\ u = t[n + 1]
  BY <1>1, <1>3, Flattened
<1>6. Begins(b, a) /\ StandsIn(b, Len(a), u)
  BY <1>1, <1>3, <1>5, Flattened
<1>7. u # <<>>
  BY <1>1, <1>5
<1>8. Len(u) \in Nat \ {0} /\ Len(a) \in Nat /\ Len(b) \in Nat
  BY <1>7
<1>9. Len(a) < Len(b)
  BY <1>6, <1>8 DEF StandsIn
<1>10. FirstDifference(a, b) = {}
  <2>1. DOMAIN a = 1..Len(a)
    OBVIOUS
  <2> QED BY <2>1, <1>6 DEF FirstDifference, Begins
<1> QED BY <1>4, <1>5, <1>9, <1>10 DEF UnitsLess

-----------------------------------------------------------------------------
(* UTF-8 and UTF-16: of two code points the one that comes first is written *)
(* with the lower code at the first difference.                             *)

LEMMA Digits64 ==
    ASSUME NEW c \in Nat
    PROVE  \E h \in Nat, d \in 0..63 : c \div 64 = h /\ c % 64 = d /\ c = 64 * h + d
OBVIOUS

LEMMA Shifted ==
    ASSUME NEW c \in Nat
    PROVE  /\ c \div 4096 = (c \div 64) \div 64
           /\ c \div 262144 = ((c \div 64) \div 64) \div 64
OBVIOUS

(* The digits of a code point to base 64, and what is left of it. *)
D0(c) == c % 64
D1(c) == (c \div 64) % 64
D2(c) == (c \div 4096) % 64
H1(c) == c \div 64
H2(c) == c \div 4096
H3(c) == c \div 262144

LEMMA Base64 ==
    ASSUME NEW c \in Nat
    PROVE  /\ D0(c) \in 0..63 /\ D1(c) \in 0..63 /\ D2(c) \in 0..63
           /\ H1(c) \in Nat /\ H2(c) \in Nat /\ H3(c) \in Nat
           /\ c = 64 * H1(c) + D0(c)
           /\ H1(c) = 64 * H2(c) + D1(c)
           /\ H2(c) = 64 * H3(c) + D2(c)
<1>1. PICK c1 \in Nat : c1 = c \div 64 /\ c = 64 * c1 + (c % 64) /\ c % 64 \in 0..63
  BY Digits64
<1>2. PICK c2 \in Nat : c2 = c1 \div 64 /\ c1 = 64 * c2 + (c1 % 64) /\ c1 % 64 \in 0..63
  BY Digits64
<1>3. PICK c3 \in Nat : c3 = c2 \div 64 /\ c2 = 64 * c3 + (c2 % 64) /\ c2 % 64 \in 0..63
  BY Digits64
<1>4. c \div 4096 = c2
  BY <1>1, <1>2, Shifted
<1>5. c \div 262144 = c3
  BY <1>1, <1>2, <1>3, Shifted
<1>6. H1(c) = c1 /\ D0(c) = c % 64
  BY <1>1 DEF H1, D0
<1>7. H2(c) = c2 /\ D1(c) = c1 % 64
  BY <1>1, <1>4 DEF H2, D1
<1>8. H3(c) = c3 /\ D2(c) = c2 % 64
  BY <1>4, <1>5 DEF H3, D2
<1> QED BY <1>1, <1>2, <1>3, <1>6, <1>7, <1>8

LEMMA Utf8Cases ==
    ASSUME NEW c \in Nat
    PROVE  /\ c < 128 => Utf8(c) = <<c>>
           /\ 128 <= c /\ c < 2048 => Utf8(c) = <<192 + H1(c), 128 + D0(c)>>
           /\ 2048 <= c /\ c < 65536 => Utf8(c) = <<224 + H2(c), 128 + D1(c), 128 + D0(c)>>
           /\ 65536 <= c => Utf8(c) = <<240 + H3(c), 128 + D2(c), 128 + D1(c), 128 + D0(c)>>
<1>1. ASSUME c < 128 PROVE Utf8(c) = <<c>>
  BY <1>1 DEF Utf8
<1>2. ASSUME 128 <= c, c < 2048 PROVE Utf8(c) = <<192 + H1(c), 128 + D0(c)>>
  BY <1>2 DEF Utf8, H1, D0
<1>3. ASSUME 2048 <= c, c < 65536
      PROVE  Utf8(c) = <<224 + H2(c), 128 + D1(c), 128 + D0(c)>>
  BY <1>3 DEF Utf8, H2, D1, D0
<1>4. ASSUME 65536 <= c
      PROVE  Utf8(c) = <<240 + H3(c), 128 + D2(c), 128 + D1(c), 128 + D0(c)>>
  BY <1>4 DEF Utf8, H3, D2, D1, D0
<1> QED BY <1>1, <1>2, <1>3, <1>4

(* What one code point is written as. *)
Code(order, c) == IF order = "utf8" THEN Utf8(c) ELSE Utf16(c)

LEMMA CodeTypes ==
    ASSUME NEW c \in Nat, NEW order
    PROVE  Code(order, c) \in Seq(Nat) /\ Code(order, c) # <<>>
<1>1. Utf8(c) \in Seq(Nat) /\ Utf8(c) # <<>>
  <2>1. /\ 192 + H1(c) \in Nat /\ 224 + H2(c) \in Nat /\ 240 + H3(c) \in Nat
        /\ 128 + D0(c) \in Nat /\ 128 + D1(c) \in Nat /\ 128 + D2(c) \in Nat
    <3>1. \A x \in 0..63 : 128 + x \in Nat
      OBVIOUS
    <3>2. \A x \in Nat : 192 + x \in Nat /\ 224 + x \in Nat /\ 240 + x \in Nat
      OBVIOUS
    <3>3. /\ D0(c) \in 0..63 /\ D1(c) \in 0..63 /\ D2(c) \in 0..63
          /\ H1(c) \in Nat /\ H2(c) \in Nat /\ H3(c) \in Nat
      BY Base64
    <3> QED BY <3>1, <3>2, <3>3
  <2>2. CASE c < 128
    <3>1. Utf8(c) = <<c>>
      BY <2>2, Utf8Cases
    <3> QED BY <3>1
  <2>3. CASE 128 <= c /\ c < 2048
    <3>1. Utf8(c) = <<192 + H1(c), 128 + D0(c)>>
      BY <2>3, Utf8Cases
    <3> QED BY <2>1, <3>1
  <2>4. CASE 2048 <= c /\ c < 65536
    <3>1. Utf8(c) = <<224 + H2(c), 128 + D1(c), 128 + D0(c)>>
      BY <2>4, Utf8Cases
    <3> QED BY <2>1, <3>1
  <2>5. CASE 65536 <= c
    <3>1. Utf8(c) = <<240 + H3(c), 128 + D2(c), 128 + D1(c), 128 + D0(c)>>
      BY <2>5, Utf8Cases
    <3> QED BY <2>1, <3>1
  <2> QED BY <2>2, <2>3, <2>4, <2>5
<1>2. Utf16(c) \in Seq(Nat) /\ Utf16(c) # <<>>
  <2>1. CASE c < 65536
    BY <2>1 DEF Utf16
  <2>2. CASE ~(c < 65536)
    <3>1. 55296 + ((c - 65536) \div 1024) \in Nat /\ 56320 + ((c - 65536) % 1024) \in Nat
      BY <2>2
    <3> QED BY <2>2, <3>1 DEF Utf16
  <2> QED BY <2>1, <2>2
<1> QED BY <1>1, <1>2 DEF Code

LEMMA Utf8Apart ==
    ASSUME NEW a \in Nat, NEW b \in Nat, a < b, b < 1114112
    PROVE  \E q : Apart(Utf8(a), Utf8(b), q)
<1>1a. PICK x0 \in 0..63 : x0 = D0(a)
  BY Base64
<1>1b. PICK x1 \in 0..63 : x1 = D1(a)
  BY Base64
<1>1c. PICK x2 \in 0..63 : x2 = D2(a)
  BY Base64
<1>3. PICK a1 \in Nat, a2 \in Nat, x3 \in Nat :
        /\ a1 = H1(a) /\ a2 = H2(a) /\ x3 = H3(a)
        /\ a = 64 * a1 + x0 /\ a1 = 64 * a2 + x1 /\ a2 = 64 * x3 + x2
  BY <1>1a, <1>1b, <1>1c, Base64
<1>5. /\ a < 128 => Utf8(a) = <<a>>
      /\ 128 <= a /\ a < 2048 => Utf8(a) = <<192 + a1, 128 + x0>>
      /\ 2048 <= a /\ a < 65536 => Utf8(a) = <<224 + a2, 128 + x1, 128 + x0>>
      /\ 65536 <= a => Utf8(a) = <<240 + x3, 128 + x2, 128 + x1, 128 + x0>>
  BY <1>1a, <1>1b, <1>1c, <1>3, Utf8Cases
<1>2a. PICK y0 \in 0..63 : y0 = D0(b)
  BY Base64
<1>2b. PICK y1 \in 0..63 : y1 = D1(b)
  BY Base64
<1>2c. PICK y2 \in 0..63 : y2 = D2(b)
  BY Base64
<1>4. PICK b1 \in Nat, b2 \in Nat, y3 \in Nat :
        /\ b1 = H1(b) /\ b2 = H2(b) /\ y3 = H3(b)
        /\ b = 64 * b1 + y0 /\ b1 = 64 * b2 + y1 /\ b2 = 64 * y3 + y2
  BY <1>2a, <1>2b, <1>2c, Base64
<1>6. /\ b < 128 => Utf8(b) = <<b>>
      /\ 128 <= b /\ b < 2048 => Utf8(b) = <<192 + b1, 128 + y0>>
      /\ 2048 <= b /\ b < 65536 => Utf8(b) = <<224 + b2, 128 + y1, 128 + y0>>
      /\ 65536 <= b => Utf8(b) = <<240 + y3, 128 + y2, 128 + y1, 128 + y0>>
  BY <1>2a, <1>2b, <1>2c, <1>4, Utf8Cases
<1>7p. a1 < b1 \/ (a1 = b1 /\ x0 < y0)
  <2>1. a = 64 * a1 + x0 /\ b = 64 * b1 + y0
    BY <1>3, <1>4
  <2> QED BY <2>1
<1>7q. a1 <= b1 => a2 < b2 \/ (a2 = b2 /\ x1 < y1) \/ (a2 = b2 /\ x1 = y1 /\ a1 = b1)
  <2>1. a1 = 64 * a2 + x1 /\ b1 = 64 * b2 + y1
    BY <1>3, <1>4
  <2> QED BY <2>1
<1>7r. a2 <= b2 => x3 < y3 \/ (x3 = y3 /\ x2 < y2) \/ (x3 = y3 /\ x2 = y2 /\ a2 = b2)
  <2>1. a2 = 64 * x3 + x2 /\ b2 = 64 * y3 + y2
    BY <1>3, <1>4
  <2> QED BY <2>1
<1>7. CASE b < 128
  <2>1. Utf8(a) = <<a>> /\ Utf8(b) = <<b>>
    BY <1>5, <1>6, <1>7
  <2> QED BY <2>1 DEF Apart
<1>8. CASE 128 <= b /\ b < 2048
  <2>1. Utf8(b) = <<192 + b1, 128 + y0>>
    BY <1>6, <1>8
  <2>2. CASE a < 128
    <3>1. Utf8(a) = <<a>> /\ a < 192 + b1
      BY <1>5, <2>2
    <3>2. Apart(Utf8(a), Utf8(b), 1)
      BY <2>1, <3>1 DEF Apart
    <3> QED BY <3>2
  <2>3. CASE ~(a < 128)
    <3>1. Utf8(a) = <<192 + a1, 128 + x0>>
      BY <1>5, <1>8, <2>3
    <3>2. a1 < b1 \/ (a1 = b1 /\ x0 < y0)
      BY <1>3, <1>4
    <3>3. CASE a1 < b1
      <4>1. Apart(Utf8(a), Utf8(b), 1)
        BY <2>1, <3>1, <3>3 DEF Apart
      <4> QED BY <4>1
    <3>4. CASE a1 = b1 /\ x0 < y0
      <4>1. Apart(Utf8(a), Utf8(b), 2)
        BY <2>1, <3>1, <3>4 DEF Apart
      <4> QED BY <4>1
    <3> QED BY <3>2, <3>3, <3>4
  <2> QED BY <2>2, <2>3
<1>9. CASE 2048 <= b /\ b < 65536
  <2>1. Utf8(b) = <<224 + b2, 128 + y1, 128 + y0>>
    BY <1>6, <1>9
  <2>2. CASE a < 2048
    <3>1. a1 < 32
      BY <1>3, <2>2
    <3>2. (Utf8(a) = <<a>> /\ a < 224 + b2) \/ Utf8(a) = <<192 + a1, 128 + x0>>
      BY <1>5, <2>2
    <3>3. Apart(Utf8(a), Utf8(b), 1)
      BY <2>1, <3>1, <3>2 DEF Apart
    <3> QED BY <3>3
  <2>3. CASE ~(a < 2048)
    <3>1. Utf8(a) = <<224 + a2, 128 + x1, 128 + x0>>
      BY <1>5, <1>9, <2>3
    <3>2. a2 < b2 \/ (a2 = b2 /\ x1 < y1) \/ (a2 = b2 /\ x1 = y1 /\ x0 < y0)
      BY <1>7p, <1>7q
    <3>3. CASE a2 < b2
      <4>1. Apart(Utf8(a), Utf8(b), 1)
        BY <2>1, <3>1, <3>3 DEF Apart
      <4> QED BY <4>1
    <3>4. CASE a2 = b2 /\ x1 < y1
      <4>1. Apart(Utf8(a), Utf8(b), 2)
        BY <2>1, <3>1, <3>4 DEF Apart
      <4> QED BY <4>1
    <3>5. CASE a2 = b2 /\ x1 = y1 /\ x0 < y0
      <4>1. Apart(Utf8(a), Utf8(b), 3)
        BY <2>1, <3>1, <3>5 DEF Apart
      <4> QED BY <4>1
    <3> QED BY <3>2, <3>3, <3>4, <3>5
  <2> QED BY <2>2, <2>3
<1>10. CASE 65536 <= b
  <2>1. Utf8(b) = <<240 + y3, 128 + y2, 128 + y1, 128 + y0>>
    BY <1>6, <1>10
  <2>2. CASE a < 65536
    <3>1. a < 2048 => a1 < 32
      BY <1>3
    <3>2. a2 < 16
      BY <1>3, <2>2
    <3>3. CASE a < 128
      <4>1. Utf8(a) = <<a>> /\ a < 240 + y3
        BY <1>5, <3>3
      <4>2. Apart(Utf8(a), Utf8(b), 1)
        BY <2>1, <4>1 DEF Apart
      <4> QED BY <4>2
    <3>4. CASE ~(a < 128) /\ a < 2048
      <4>1. Utf8(a) = <<192 + a1, 128 + x0>>
        BY <1>5, <3>4
      <4>2. Apart(Utf8(a), Utf8(b), 1)
        BY <2>1, <4>1, <3>1, <3>4 DEF Apart
      <4> QED BY <4>2
    <3>5. CASE ~(a < 2048)
      <4>1. Utf8(a) = <<224 + a2, 128 + x1, 128 + x0>>
        BY <1>5, <2>2, <3>5
      <4>2. Apart(Utf8(a), Utf8(b), 1)
        BY <2>1, <4>1, <3>2 DEF Apart
      <4> QED BY <4>2
    <3> QED BY <3>3, <3>4, <3>5
  <2>3. CASE ~(a < 65536)
    <3>1. Utf8(a) = <<240 + x3, 128 + x2, 128 + x1, 128 + x0>>
      BY <1>5, <2>3
    <3>2. \/ x3 < y3 \/ (x3 = y3 /\ x2 < y2) \/ (x3 = y3 /\ x2 = y2 /\ x1 < y1)
          \/ (x3 = y3 /\ x2 = y2 /\ x1 = y1 /\ x0 < y0)
      <4> QED BY <1>7p, <1>7q, <1>7r
    <3>3. CASE x3 < y3
      <4>1. Apart(Utf8(a), Utf8(b), 1)
        BY <2>1, <3>1, <3>3 DEF Apart
      <4> QED BY <4>1
    <3>4. CASE x3 = y3 /\ x2 < y2
      <4>1. Apart(Utf8(a), Utf8(b), 2)
        BY <2>1, <3>1, <3>4 DEF Apart
      <4> QED BY <4>1
    <3>5. CASE x3 = y3 /\ x2 = y2 /\ x1 < y1
      <4>1. Apart(Utf8(a), Utf8(b), 3)
        BY <2>1, <3>1, <3>5 DEF Apart
      <4> QED BY <4>1
    <3>6. CASE x3 = y3 /\ x2 = y2 /\ x1 = y1 /\ x0 < y0
      <4>1. Apart(Utf8(a), Utf8(b), 4)
        BY <2>1, <3>1, <3>6 DEF Apart
      <4> QED BY <4>1
    <3> QED BY <3>2, <3>3, <3>4, <3>5, <3>6
  <2> QED BY <2>2, <2>3
<1> QED BY <1>7, <1>8, <1>9, <1>10

LEMMA SurrogatePair ==
    ASSUME NEW c \in Nat, 65536 <= c, c < 1114112
    PROVE  /\ (c - 65536) \div 1024 \in Nat /\ (c - 65536) \div 1024 < 1024
           /\ (c - 65536) % 1024 \in Nat /\ (c - 65536) % 1024 < 1024
           /\ c - 65536 = 1024 * ((c - 65536) \div 1024) + ((c - 65536) % 1024)
<1>1. PICK d \in Nat : d = c - 65536 /\ d < 1048576
  OBVIOUS
<1>2. /\ d \div 1024 \in Nat /\ d \div 1024 < 1024 /\ d % 1024 \in Nat /\ d % 1024 < 1024
      /\ d = 1024 * (d \div 1024) + (d % 1024)
  BY <1>1
<1> QED BY <1>1, <1>2

LEMMA Utf16Apart ==
    ASSUME NEW a \in Nat, NEW b \in Nat, IsCodePoint(a), IsCodePoint(b),
           Rank("utf16", a) < Rank("utf16", b)
    PROVE  \E q : Apart(Utf16(a), Utf16(b), q)
<1>1. Rank("utf16", a) = IF 57343 < a /\ a < 65536 THEN a + 1114112 ELSE a
  BY DEF Rank
<1>2. Rank("utf16", b) = IF 57343 < b /\ b < 65536 THEN b + 1114112 ELSE b
  BY DEF Rank
<1>3. /\ a < 1114112 /\ ~(55295 < a /\ a < 57344)
      /\ b < 1114112 /\ ~(55295 < b /\ b < 57344)
  BY DEF IsCodePoint
<1>5. CASE a < 65536 /\ b < 65536
  <2>1. a < b
    BY <1>1, <1>2, <1>5, <1>3
  <2>2. Utf16(a) = <<a>> /\ Utf16(b) = <<b>>
    BY <1>5 DEF Utf16
  <2>3. Apart(Utf16(a), Utf16(b), 1)
    BY <2>1, <2>2 DEF Apart
  <2> QED BY <2>3
<1>6. CASE a < 65536 /\ ~(b < 65536)
  <2>1. PICK h \in Nat, d \in Nat :
          /\ h = (b - 65536) \div 1024 /\ d = (b - 65536) % 1024
          /\ h < 1024 /\ d < 1024 /\ b - 65536 = 1024 * h + d
    BY <1>3, <1>6, SurrogatePair
  <2>2. Utf16(a) = <<a>> /\ Utf16(b) = <<55296 + h, 56320 + d>>
    BY <1>6, <2>1 DEF Utf16
  <2>3. a < 55296
    BY <1>1, <1>2, <1>3, <1>6
  <2>4. Apart(Utf16(a), Utf16(b), 1)
    BY <2>2, <2>3 DEF Apart
  <2> QED BY <2>4
<1>7. CASE ~(a < 65536) /\ b < 65536
  <2>1. PICK h \in Nat, d \in Nat :
          /\ h = (a - 65536) \div 1024 /\ d = (a - 65536) % 1024
          /\ h < 1024 /\ d < 1024 /\ a - 65536 = 1024 * h + d
    BY <1>3, <1>7, SurrogatePair
  <2>2. PICK x \in Nat, y \in Nat : Utf16(b) = <<b>> /\ Utf16(a) = <<x, y>> /\ x < 57344
    BY <1>7, <2>1 DEF Utf16
  <2>3. 57344 <= b
    BY <1>1, <1>2, <1>3, <1>7
  <2>4. Apart(Utf16(a), Utf16(b), 1)
    BY <2>2, <2>3 DEF Apart
  <2> QED BY <2>4
<1>8. CASE ~(a < 65536) /\ ~(b < 65536)
  <2>1. PICK h \in Nat, d \in Nat :
          /\ h = (a - 65536) \div 1024 /\ d = (a - 65536) % 1024
          /\ h < 1024 /\ d < 1024 /\ a - 65536 = 1024 * h + d
    BY <1>3, <1>8, SurrogatePair
  <2>2. PICK i \in Nat, e \in Nat :
          /\ i = (b - 65536) \div 1024 /\ e = (b - 65536) % 1024
          /\ i < 1024 /\ e < 1024 /\ b - 65536 = 1024 * i + e
    BY <1>3, <1>8, SurrogatePair
  <2>3. Utf16(a) = <<55296 + h, 56320 + d>> /\ Utf16(b) = <<55296 + i, 56320 + e>>
    BY <1>8, <2>1, <2>2 DEF Utf16
  <2>4. h < i \/ (h = i /\ d < e)
    <3>1. a < b
      BY <1>1, <1>2, <1>8
    <3> QED BY <3>1, <2>1, <2>2
  <2>5. CASE h < i
    <3>1. Apart(Utf16(a), Utf16(b), 1)
      BY <2>3, <2>5 DEF Apart
    <3> QED BY <3>1
  <2>6. CASE h = i /\ d < e
    <3>1. Apart(Utf16(a), Utf16(b), 2)
      BY <2>3, <2>6 DEF Apart
    <3> QED BY <3>1
  <2> QED BY <2>4, <2>5, <2>6
<1> QED BY <1>5, <1>6, <1>7, <1>8

LEMMA CodesApart ==
    ASSUME NEW order \in {"utf8", "utf16"},
           NEW a \in Nat, NEW b \in Nat, IsCodePoint(a), IsCodePoint(b),
           Rank(order, a) < Rank(order, b)
    PROVE  \E q : Apart(Code(order, a), Code(order, b), q)
<1>1. CASE order = "utf8"
  <2>1. a < b /\ b < 1114112
    BY <1>1 DEF Rank, IsCodePoint
  <2> QED BY <1>1, <2>1, Utf8Apart DEF Code
<1>2. CASE order = "utf16"
  BY <1>2, Utf16Apart DEF Code
<1> QED BY <1>1, <1>2

-----------------------------------------------------------------------------
(* Before is a total order of names.                                        *)

Order == {"utf8", "utf16"}

Names == {a \in Seq(Nat) : \A i \in DOMAIN a : IsCodePoint(a[i])}

LEMMA PrefixTypes ==
    ASSUME NEW a \in Seq(Nat), NEW k \in 0..Len(a)
    PROVE  /\ SubSeq(a, 1, k) \in Seq(Nat) /\ Len(SubSeq(a, 1, k)) = k
           /\ \A j \in 1..k : SubSeq(a, 1, k)[j] = a[j]
<1>1. k \in Nat /\ Len(a) \in Nat /\ k <= Len(a)
  OBVIOUS
<1> QED BY <1>1

LEMMA SamePrefix ==
    ASSUME NEW a \in Seq(Nat), NEW b \in Seq(Nat), NEW k \in Nat, k <= Len(a), k <= Len(b)
    PROVE  SubSeq(a, 1, k) = SubSeq(b, 1, k) <=> Agree(a, b, k)
<1>1. k \in 0..Len(a) /\ k \in 0..Len(b)
  OBVIOUS
<1>2. /\ SubSeq(a, 1, k) \in Seq(Nat) /\ Len(SubSeq(a, 1, k)) = k
      /\ \A j \in 1..k : SubSeq(a, 1, k)[j] = a[j]
  BY <1>1, PrefixTypes
<1>3. /\ SubSeq(b, 1, k) \in Seq(Nat) /\ Len(SubSeq(b, 1, k)) = k
      /\ \A j \in 1..k : SubSeq(b, 1, k)[j] = b[j]
  BY <1>1, PrefixTypes
<1>4. ASSUME Agree(a, b, k) PROVE SubSeq(a, 1, k) = SubSeq(b, 1, k)
  BY <1>2, <1>3, <1>4 DEF Agree
<1>5. ASSUME SubSeq(a, 1, k) = SubSeq(b, 1, k) PROVE Agree(a, b, k)
  BY <1>2, <1>3, <1>5 DEF Agree
<1> QED BY <1>4, <1>5

(* Before, with the length of the common part. *)
Sooner(order, a, b, k) ==
    /\ k \in Nat /\ k <= Len(a) /\ k < Len(b) /\ Agree(a, b, k)
    /\ k < Len(a) => Rank(order, a[k + 1]) < Rank(order, b[k + 1])

LEMMA SameSequence ==
    ASSUME NEW a \in Seq(Nat), NEW b \in Seq(Nat), Len(a) = Len(b), Agree(a, b, Len(a))
    PROVE  a = b
<1>1. \A i \in 1..Len(a) : a[i] = b[i]
  BY DEF Agree
<1> QED BY <1>1

LEMMA BeforeIsSooner ==
    ASSUME NEW order, NEW a \in Seq(Nat), NEW b \in Seq(Nat)
    PROVE  Before(order, a, b) <=> \E k : Sooner(order, a, b, k)
<1>1. PICK n \in Nat : n = Len(a)
  OBVIOUS
<1>2. PICK m \in Nat : m = Len(b)
  OBVIOUS
<1>3. a = SubSeq(a, 1, n)
  <2>1. n \in 0..Len(a)
    BY <1>1
  <2>2. /\ SubSeq(a, 1, n) \in Seq(Nat) /\ Len(SubSeq(a, 1, n)) = n
        /\ \A j \in 1..n : SubSeq(a, 1, n)[j] = a[j]
    BY <2>1, PrefixTypes
  <2> QED BY <2>2, <1>1
<1>4. ASSUME IsStrictPrefix(a, b) PROVE Sooner(order, a, b, n)
  <2>1. n <= m /\ SubSeq(a, 1, n) = SubSeq(b, 1, n) /\ a # b
    BY <1>1, <1>2, <1>4 DEF IsStrictPrefix, IsPrefix
  <2>2. Agree(a, b, n)
    BY <2>1, <1>1, <1>2, SamePrefix
  <2>3. n # m
    <3>1. ASSUME n = m PROVE a = b
      BY <3>1, <2>2, <1>1, <1>2, SameSequence
    <3> QED BY <3>1, <2>1
  <2> QED BY <2>1, <2>2, <2>3, <1>1, <1>2 DEF Sooner
<1>5. ASSUME NEW i \in DOMAIN a \cap DOMAIN b,
             SubSeq(a, 1, i - 1) = SubSeq(b, 1, i - 1),
             Rank(order, a[i]) < Rank(order, b[i])
      PROVE  \E k : Sooner(order, a, b, k)
  <2>1. PICK k \in Nat : k = i - 1
    OBVIOUS
  <2>2. i = k + 1 /\ k < n /\ k < m /\ k <= n /\ k <= m
    BY <2>1, <1>1, <1>2
  <2>3. Agree(a, b, k)
    BY <2>1, <2>2, <1>1, <1>2, <1>5, SamePrefix
  <2>4. Sooner(order, a, b, k)
    BY <2>2, <2>3, <1>1, <1>2, <1>5 DEF Sooner
  <2> QED BY <2>4
<1>6. ASSUME NEW k, Sooner(order, a, b, k) PROVE Before(order, a, b)
  <2>1. k \in Nat /\ k <= n /\ k < m /\ Agree(a, b, k)
    BY <1>1, <1>2, <1>6 DEF Sooner
  <2>2. SubSeq(a, 1, k) = SubSeq(b, 1, k)
    <3>1. k <= Len(a) /\ k <= Len(b)
      BY <2>1, <1>1, <1>2
    <3> QED BY <2>1, <3>1, SamePrefix
  <2>3. CASE k = n
    <3>1. a # b
      BY <2>1, <2>3, <1>1, <1>2
    <3> QED BY <2>1, <2>2, <2>3, <3>1, <1>1, <1>2 DEF Before, IsStrictPrefix, IsPrefix
  <2>4. CASE k < n
    <3>1. PICK i \in Nat : i = k + 1
      BY <2>1
    <3>2. i \in DOMAIN a \cap DOMAIN b /\ i - 1 = k
      BY <3>1, <2>1, <2>4, <1>1, <1>2
    <3>3. Rank(order, a[i]) < Rank(order, b[i])
      BY <3>1, <2>4, <1>1, <1>6 DEF Sooner
    <3>4. SubSeq(a, 1, i - 1) = SubSeq(b, 1, i - 1)
      BY <3>2, <2>2
    <3> QED BY <3>2, <3>3, <3>4 DEF Before
  <2> QED BY <2>1, <2>3, <2>4
<1> QED BY <1>4, <1>5, <1>6 DEF Before

LEMMA RankTypes ==
    ASSUME NEW order, NEW c \in Nat, NEW d \in Nat, IsCodePoint(c), IsCodePoint(d)
    PROVE  /\ Rank(order, c) \in Nat /\ Rank(order, d) \in Nat
           /\ Rank(order, c) = Rank(order, d) => c = d
BY DEF Rank, IsCodePoint

LEMMA BeforeIsIrreflexive ==
    ASSUME NEW order, NEW a \in Names PROVE ~Before(order, a, a)
<1> SUFFICES ASSUME NEW k, Sooner(order, a, a, k) PROVE FALSE
  BY BeforeIsSooner DEF Names
<1>1. k \in Nat /\ k < Len(a) /\ Rank(order, a[k + 1]) < Rank(order, a[k + 1])
  BY DEF Sooner
<1>2. k + 1 \in DOMAIN a
  BY <1>1 DEF Names
<1>3. a[k + 1] \in Nat /\ IsCodePoint(a[k + 1])
  BY <1>2 DEF Names
<1> QED BY <1>1, <1>3, RankTypes

LEMMA NameCharacters ==
    ASSUME NEW order, NEW a \in Names, NEW k \in Nat, k < Len(a)
    PROVE  a[k + 1] \in Nat /\ IsCodePoint(a[k + 1]) /\ Rank(order, a[k + 1]) \in Nat
<1>1. k + 1 \in DOMAIN a
  BY DEF Names
<1>2. a[k + 1] \in Nat /\ IsCodePoint(a[k + 1])
  BY <1>1 DEF Names
<1> QED BY <1>2, RankTypes

LEMMA AgreeFurther ==
    ASSUME NEW a, NEW b, NEW k \in Nat, Agree(a, b, k), NEW j \in Nat, j < k
    PROVE  a[j + 1] = b[j + 1]
<1>1. j + 1 \in 1..k
  OBVIOUS
<1> QED BY <1>1 DEF Agree

LEMMA BeforeIsTransitive ==
    ASSUME NEW order, NEW a \in Names, NEW b \in Names, NEW c \in Names,
           Before(order, a, b), Before(order, b, c)
    PROVE  Before(order, a, c)
<1>1. a \in Seq(Nat) /\ b \in Seq(Nat) /\ c \in Seq(Nat)
  BY DEF Names
<1>2. PICK k : Sooner(order, a, b, k)
  BY <1>1, BeforeIsSooner
<1>3. PICK h : Sooner(order, b, c, h)
  BY <1>1, BeforeIsSooner
<1>4. PICK la \in Nat, lb \in Nat, lc \in Nat : la = Len(a) /\ lb = Len(b) /\ lc = Len(c)
  BY <1>1
<1>5. /\ k \in Nat /\ k <= la /\ k < lb /\ Agree(a, b, k)
      /\ k < la => Rank(order, a[k + 1]) < Rank(order, b[k + 1])
  BY <1>2, <1>4 DEF Sooner
<1>6. /\ h \in Nat /\ h <= lb /\ h < lc /\ Agree(b, c, h)
      /\ h < lb => Rank(order, b[h + 1]) < Rank(order, c[h + 1])
  BY <1>3, <1>4 DEF Sooner
<1>7. CASE k < h
  <2>1. Agree(a, c, k)
    BY <1>5, <1>6, <1>7 DEF Agree
  <2>2. b[k + 1] = c[k + 1]
    BY <1>5, <1>6, <1>7, AgreeFurther
  <2>3. k < lc
    BY <1>5, <1>6, <1>7
  <2>4. Sooner(order, a, c, k)
    BY <1>4, <1>5, <2>1, <2>2, <2>3 DEF Sooner
  <2> QED BY <2>4, <1>1, BeforeIsSooner
<1>8. CASE h < k
  <2>1. Agree(a, c, h)
    BY <1>5, <1>6, <1>8 DEF Agree
  <2>2. a[h + 1] = b[h + 1]
    BY <1>5, <1>6, <1>8, AgreeFurther
  <2>3. h < la /\ h < lb /\ h <= la
    BY <1>5, <1>6, <1>8
  <2>4. Sooner(order, a, c, h)
    BY <1>4, <1>6, <2>1, <2>2, <2>3 DEF Sooner
  <2> QED BY <2>4, <1>1, BeforeIsSooner
<1>9. CASE h = k
  <2>1. Agree(a, c, k)
    BY <1>5, <1>6, <1>9 DEF Agree
  <2>2. k < lc /\ k < lb
    BY <1>5, <1>6, <1>9
  <2>3. ASSUME k < la PROVE Rank(order, a[k + 1]) < Rank(order, c[k + 1])
    <3>1. Rank(order, a[k + 1]) \in Nat /\ Rank(order, b[k + 1]) \in Nat /\ Rank(order, c[k + 1]) \in Nat
      BY <2>2, <2>3, <1>4, <1>5, NameCharacters
    <3>2. /\ Rank(order, a[k + 1]) < Rank(order, b[k + 1])
          /\ Rank(order, b[k + 1]) < Rank(order, c[k + 1])
      BY <2>2, <2>3, <1>5, <1>6, <1>9
    <3> QED BY <3>1, <3>2
  <2>4. Sooner(order, a, c, k)
    BY <1>4, <1>5, <2>1, <2>2, <2>3 DEF Sooner
  <2> QED BY <2>4, <1>1, BeforeIsSooner
<1> QED BY <1>5, <1>6, <1>7, <1>8, <1>9

LEMMA BeforeIsTotal ==
    ASSUME NEW order, NEW a \in Names, NEW b \in Names, a # b
    PROVE  Before(order, a, b) \/ Before(order, b, a)
<1>1. a \in Seq(Nat) /\ b \in Seq(Nat)
  BY DEF Names
<1>2. PICK la \in Nat, lb \in Nat : la = Len(a) /\ lb = Len(b)
  BY <1>1
<1> DEFINE n == IF la <= lb THEN la ELSE lb
           I == {i \in 1..(n + 1) : Agree(a, b, i - 1)}
<1>3. n \in Nat /\ n + 1 \in Nat
  OBVIOUS
<1>4. I # {}
  <2>1. 1 \in 1..(n + 1) /\ Agree(a, b, 1 - 1)
    BY <1>3 DEF Agree
  <2> QED BY <2>1
<1>5. PICK i \in I : \A j \in I : j <= i
  <2>1. I \in SUBSET (1..(n + 1))
    OBVIOUS
  <2> HIDE DEF I, n
  <2> QED BY <1>3, <1>4, <2>1, GreatestIndex
<1>6. PICK k \in Nat : k = i - 1
  OBVIOUS
<1>7. k <= la /\ k <= lb /\ Agree(a, b, k) /\ Agree(b, a, k)
  BY <1>6 DEF Agree
<1>8. CASE k = la \/ k = lb
  <2>1. la # lb
    <3>1. ASSUME la = lb PROVE FALSE
      <4>1. a = b
        BY <1>1, <1>2, <1>7, <1>8, <3>1, SameSequence DEF Names
      <4> QED BY <4>1
    <3> QED BY <3>1
  <2>2. CASE k = la /\ k < lb
    <3>1. Sooner(order, a, b, k)
      BY <2>2, <1>2, <1>7 DEF Sooner
    <3> QED BY <3>1, <1>1, BeforeIsSooner
  <2>3. CASE k = lb /\ k < la
    <3>1. Sooner(order, b, a, k)
      BY <2>3, <1>2, <1>7 DEF Sooner
    <3> QED BY <3>1, <1>1, BeforeIsSooner
  <2> QED BY <2>1, <2>2, <2>3, <1>7, <1>8
<1>9. CASE k < la /\ k < lb
  <2>1. a[k + 1] # b[k + 1]
    <3>1. ASSUME a[k + 1] = b[k + 1] PROVE FALSE
      <4>1. Agree(a, b, k + 1)
        <5>1. \A j \in 1..(k + 1) : j \in 1..k \/ j = k + 1
          OBVIOUS
        <5> QED BY <5>1, <3>1, <1>7 DEF Agree
      <4>2. k + 2 \in 1..(n + 1) /\ k + 2 - 1 = k + 1
        BY <1>9
      <4>3. k + 2 \in I
        BY <4>1, <4>2
      <4> QED BY <4>3, <1>5, <1>6
    <3> QED BY <3>1
  <2>2. /\ a[k + 1] \in Nat /\ IsCodePoint(a[k + 1]) /\ Rank(order, a[k + 1]) \in Nat
        /\ b[k + 1] \in Nat /\ IsCodePoint(b[k + 1]) /\ Rank(order, b[k + 1]) \in Nat
    BY <1>2, <1>9, NameCharacters
  <2>3. Rank(order, a[k + 1]) # Rank(order, b[k + 1])
    BY <2>1, <2>2, RankTypes
  <2>4. CASE Rank(order, a[k + 1]) < Rank(order, b[k + 1])
    <3>1. Sooner(order, a, b, k)
      BY <2>4, <1>2, <1>7, <1>9 DEF Sooner
    <3> QED BY <3>1, <1>1, BeforeIsSooner
  <2>5. CASE Rank(order, b[k + 1]) < Rank(order, a[k + 1])
    <3>1. Sooner(order, b, a, k)
      BY <2>5, <1>2, <1>7, <1>9 DEF Sooner
    <3> QED BY <3>1, <1>1, BeforeIsSooner
  <2> QED BY <2>2, <2>3, <2>4, <2>5
<1> QED BY <1>7, <1>8, <1>9

-----------------------------------------------------------------------------
(* The writers' order. *)

Codes(order, a) == [i \in DOMAIN a |-> Code(order, a[i])]

LEMMA CodesTypes ==
    ASSUME NEW order, NEW a \in Names
    PROVE  /\ Codes(order, a) \in Seq(Seq(Nat))
           /\ Len(Codes(order, a)) = Len(a)
           /\ \A i \in DOMAIN a : Codes(order, a)[i] = Code(order, a[i])
<1>1. a \in Seq(Nat) /\ DOMAIN a = 1..Len(a) /\ Len(a) \in Nat
  BY DEF Names
<1>2. \A i \in 1..Len(a) : Code(order, a[i]) \in Seq(Nat)
  BY <1>1, CodeTypes
<1> QED BY <1>1, <1>2 DEF Codes

LEMMA LessOfCodes ==
    ASSUME NEW order \in Order, NEW a, NEW b
    PROVE  Less(order, a, b) = UnitsLess(FlattenSeq(Codes(order, a)), FlattenSeq(Codes(order, b)))
<1>1. CASE order = "utf8"
  BY <1>1 DEF Less, LessBytes, Bytes, Codes, Code
<1>2. CASE order = "utf16"
  BY <1>2 DEF Less, LessUTF16, Units, Codes, Code
<1> QED BY <1>1, <1>2 DEF Order

LEMMA BeforeIsLess ==
    ASSUME NEW order \in Order, NEW a \in Names, NEW b \in Names, Before(order, a, b)
    PROVE  Less(order, a, b)
<1>1. a \in Seq(Nat) /\ b \in Seq(Nat)
  BY DEF Names
<1>2. PICK k : Sooner(order, a, b, k)
  BY <1>1, BeforeIsSooner
<1>3. k \in Nat /\ k <= Len(a) /\ k < Len(b) /\ Agree(a, b, k)
  BY <1>2 DEF Sooner
<1>4. PICK s \in Seq(Seq(Nat)) : s = Codes(order, a)
  BY CodesTypes
<1>5. PICK t \in Seq(Seq(Nat)) : t = Codes(order, b)
  BY CodesTypes
<1>6. Len(s) = Len(a) /\ \A i \in 1..Len(a) : s[i] = Code(order, a[i])
  BY <1>1, <1>4, CodesTypes
<1>7. Len(t) = Len(b) /\ \A i \in 1..Len(b) : t[i] = Code(order, b[i])
  BY <1>1, <1>5, CodesTypes
<1>8. Len(a) \in Nat /\ Len(b) \in Nat
  BY <1>1
<1>9. Agree(s, t, k)
  <2>1. \A j \in 1..k : j \in 1..Len(a) /\ j \in 1..Len(b)
    BY <1>3, <1>8
  <2> QED BY <2>1, <1>3, <1>6, <1>7 DEF Agree
<1>10. k + 1 \in 1..Len(b) /\ t[k + 1] = Code(order, b[k + 1])
  BY <1>3, <1>7, <1>8
<1>11. CASE k = Len(a)
  <2>1. b[k + 1] \in Nat
    BY <1>3, NameCharacters
  <2>2. t[k + 1] # <<>>
    BY <2>1, <1>10, CodeTypes
  <2>3. UnitsLess(FlattenSeq(s), FlattenSeq(t))
    BY <2>2, <1>3, <1>6, <1>7, <1>9, <1>11, PrefixIsLess
  <2> QED BY <2>3, <1>4, <1>5, LessOfCodes
<1>12. CASE k < Len(a)
  <2>1. k + 1 \in 1..Len(a) /\ s[k + 1] = Code(order, a[k + 1])
    BY <1>3, <1>6, <1>8, <1>12
  <2>2. Rank(order, a[k + 1]) < Rank(order, b[k + 1])
    BY <1>2, <1>12 DEF Sooner
  <2>3. /\ a[k + 1] \in Nat /\ IsCodePoint(a[k + 1])
        /\ b[k + 1] \in Nat /\ IsCodePoint(b[k + 1])
    BY <1>3, <1>12, NameCharacters
  <2>4. PICK q : Apart(s[k + 1], t[k + 1], q)
    BY <2>1, <2>2, <2>3, <1>10, CodesApart DEF Order
  <2>5. UnitsLess(FlattenSeq(s), FlattenSeq(t))
    BY <2>4, <1>3, <1>6, <1>7, <1>9, <1>12, FirstDifferenceDecides
  <2> QED BY <2>5, <1>4, <1>5, LessOfCodes
<1> QED BY <1>3, <1>8, <1>11, <1>12

LEMMA FlattenTypes ==
    ASSUME NEW s \in Seq(Seq(Nat)) PROVE FlattenSeq(s) \in Seq(Nat)
<1>1. Len(s) \in Nat /\ Len(s) \in 0..Len(s)
  OBVIOUS
<1>2. PICK F : Accumulates(F, s, Len(s))
  BY <1>1, AccumulationExists
<1>3. F[Len(s)] \in Seq(Nat)
  BY <1>1, <1>2 DEF Accumulates
<1> QED BY <1>2, <1>3, FlattenAccumulates

LEMMA UnitsLessIsAsymmetric ==
    ASSUME NEW a \in Seq(Nat), NEW b \in Seq(Nat), UnitsLess(a, b), UnitsLess(b, a)
    PROVE  FALSE
<1>1. FirstDifference(a, b) = FirstDifference(b, a)
  BY DEF FirstDifference
<1>2. CASE FirstDifference(a, b) = {}
  <2>1. Len(a) < Len(b) /\ Len(b) < Len(a) /\ Len(a) \in Nat /\ Len(b) \in Nat
    BY <1>1, <1>2 DEF UnitsLess
  <2> QED BY <2>1
<1>3. CASE FirstDifference(a, b) # {}
  <2>1. PICK i \in FirstDifference(a, b) : a[i] < b[i]
    BY <1>3 DEF UnitsLess
  <2>2. PICK j \in FirstDifference(a, b) : b[j] < a[j]
    BY <1>1, <1>3 DEF UnitsLess
  <2>3. /\ i \in Nat \ {0} /\ a[i] # b[i] /\ \A h \in 1..(i - 1) : a[h] = b[h]
        /\ j \in Nat \ {0} /\ a[j] # b[j] /\ \A h \in 1..(j - 1) : a[h] = b[h]
    <3>1. \A x \in FirstDifference(a, b) :
            /\ x \in Nat \ {0} /\ a[x] # b[x] /\ \A h \in 1..(x - 1) : a[h] = b[h]
      BY DEF FirstDifference
    <3> QED BY <3>1, <2>1, <2>2
  <2>4. i = j
    <3>1. ~(i < j)
      <4>1. i < j => i \in 1..(j - 1)
        BY <2>3
      <4> QED BY <4>1, <2>3
    <3>2. ~(j < i)
      <4>1. j < i => j \in 1..(i - 1)
        BY <2>3
      <4> QED BY <4>1, <2>3
    <3> QED BY <3>1, <3>2, <2>3
  <2>5. a[i] \in Nat /\ b[i] \in Nat
    BY DEF FirstDifference
  <2> QED BY <2>1, <2>2, <2>4, <2>5
<1> QED BY <1>2, <1>3

LEMMA LessIsAsymmetric ==
    ASSUME NEW order \in Order, NEW a \in Names, NEW b \in Names,
           Less(order, a, b), Less(order, b, a)
    PROVE  FALSE
BY LessOfCodes, CodesTypes, FlattenTypes, UnitsLessIsAsymmetric

LEMMA BeforeIsAsymmetric ==
    ASSUME NEW order, NEW a \in Names, NEW b \in Names,
           Before(order, a, b), Before(order, b, a)
    PROVE  FALSE
BY BeforeIsTransitive, BeforeIsIrreflexive

(***************************************************************************)
(* The two writers compare names as their documents say: Go's byte order   *)
(* (canonical.go, sort.Strings) is the order of code points, and that of   *)
(* jcs.go (lessUTF16) is JavaScript's, for every two names.                *)
(***************************************************************************)
THEOREM WritersOrderNames ==
    ASSUME NEW order \in Order, NEW a \in Names, NEW b \in Names
    PROVE  Less(order, a, b) <=> Before(order, a, b)
<1>1. ASSUME Less(order, a, b) PROVE Before(order, a, b)
  <2>1. a # b
    BY <1>1, LessIsAsymmetric
  <2>2. ~Before(order, b, a)
    BY <1>1, BeforeIsLess, LessIsAsymmetric
  <2> QED BY <2>1, <2>2, BeforeIsTotal
<1> QED BY <1>1, BeforeIsLess


-----------------------------------------------------------------------------
(* Sorting. *)

(* The names of an object, and the arrangements that a sort may return.     *)
LEMMA ArrangementTypes ==
    ASSUME NEW S, IsFiniteSet(S), NEW s \in SetToSeqs(S)
    PROVE  /\ s \in Seq(S) /\ Len(s) = Cardinality(S) /\ Len(s) \in Nat
           /\ \A i, j \in 1..Len(s) : i # j => s[i] # s[j]
           /\ \A x \in S : \E i \in 1..Len(s) : s[i] = x
<1>1. PICK n \in Nat : n = Cardinality(S)
  BY FS_CardinalityType
<1>2. s \in [1..n -> S] /\ \A i, j \in 1..n : i # j => s[i] # s[j]
  BY <1>1 DEF SetToSeqs
<1>3. s \in Injection(1..n, S)
  BY <1>2 DEF Injection, IsInjective
<1>4. IsFiniteSet(1..n) /\ Cardinality(1..n) = n
  BY FS_Interval
<1>5. s \in Surjection(1..n, S)
  BY <1>1, <1>3, <1>4, FS_Injection
<1>6. \A x \in S : \E i \in 1..n : s[i] = x
  BY <1>5 DEF Surjection
<1>7. s \in Seq(S) /\ Len(s) = n
  BY <1>2
<1> QED BY <1>1, <1>2, <1>6, <1>7

LEMMA SortedInOrder ==
    ASSUME NEW order \in Order, NEW S \in SUBSET Names, IsFiniteSet(S),
           NEW s \in Sorted(S, order), NEW d \in DOMAIN s, NEW e \in DOMAIN s, d < e
    PROVE  Before(order, s[d], s[e])
<1>1. s \in SetToSeqs(S) /\ ~Less(order, s[e], s[d])
  BY DEF Sorted
<1>2. s \in Seq(S) /\ s[d] # s[e]
  BY <1>1, ArrangementTypes
<1>3. s[d] \in Names /\ s[e] \in Names
  BY <1>2
<1> QED BY <1>1, <1>2, <1>3, BeforeIsTotal, BeforeIsLess

LEMMA SortedIsUnique ==
    ASSUME NEW order \in Order, NEW S \in SUBSET Names, IsFiniteSet(S),
           NEW s \in Sorted(S, order), NEW t \in Sorted(S, order)
    PROVE  s = t
<1>1. s \in SetToSeqs(S) /\ t \in SetToSeqs(S)
  BY DEF Sorted
<1>2. PICK n \in Nat : n = Cardinality(S)
  BY FS_CardinalityType
<1>3. /\ s \in Seq(S) /\ Len(s) = n /\ \A i, j \in 1..n : i # j => s[i] # s[j]
      /\ \A x \in S : \E i \in 1..n : s[i] = x
  BY <1>1, <1>2, ArrangementTypes
<1>4. /\ t \in Seq(S) /\ Len(t) = n /\ \A i, j \in 1..n : i # j => t[i] # t[j]
      /\ \A x \in S : \E i \in 1..n : t[i] = x
  BY <1>1, <1>2, ArrangementTypes
<1>5. SUFFICES \A i \in 1..n : s[i] = t[i]
  BY <1>3, <1>4
<1> DEFINE I == {i \in 1..n : s[i] # t[i]}
<1>6. SUFFICES ASSUME I # {} PROVE FALSE
  OBVIOUS
<1>7. PICK k \in I : \A j \in I : k <= j
  <2>1. I \in SUBSET (1..n)
    OBVIOUS
  <2> HIDE DEF I
  <2> QED BY <1>6, <2>1, LeastIndex
<1>8. k \in 1..n /\ s[k] # t[k] /\ \A j \in 1..n : j < k => s[j] = t[j]
  BY <1>7
<1>9. s[k] \in S /\ t[k] \in S
  BY <1>3, <1>4, <1>8
<1>10. PICK e \in 1..n : t[e] = s[k]
  BY <1>4, <1>9
<1>11. PICK h \in 1..n : s[h] = t[k]
  BY <1>3, <1>9
<1>12. k < e
  <2>1. ASSUME e < k PROVE FALSE
    BY <2>1, <1>3, <1>8, <1>10
  <2>2. e # k
    BY <1>8, <1>10
  <2> QED BY <2>1, <2>2, <1>8
<1>13. k < h
  <2>1. ASSUME h < k PROVE FALSE
    BY <2>1, <1>4, <1>8, <1>11
  <2>2. h # k
    BY <1>8, <1>11
  <2> QED BY <2>1, <2>2, <1>8
<1>14. k \in DOMAIN s /\ h \in DOMAIN s /\ k \in DOMAIN t /\ e \in DOMAIN t
  BY <1>3, <1>4, <1>8
<1>15. Before(order, t[k], t[e])
  BY <1>12, <1>14, SortedInOrder
<1>16. Before(order, s[k], s[h])
  BY <1>13, <1>14, SortedInOrder
<1>17. s[k] \in Names /\ t[k] \in Names
  BY <1>9
<1> QED BY <1>10, <1>11, <1>15, <1>16, <1>17, BeforeIsAsymmetric

LEMMA LastName ==
    ASSUME NEW order, NEW n \in Nat
    PROVE  \A S \in SUBSET Names :
             IsFiniteSet(S) /\ S # {} /\ Cardinality(S) = n =>
               \E m \in S : \A x \in S : x # m => Before(order, x, m)
<1> DEFINE Has(S) == \E m \in S : \A x \in S : x # m => Before(order, x, m)
           Good == {k \in Nat : \A S \in SUBSET Names :
                      IsFiniteSet(S) /\ S # {} /\ Cardinality(S) = k => Has(S)}
<1>1. 0 \in Good
  BY FS_EmptySet
<1>2. ASSUME NEW k \in 1..n, k - 1 \in Good PROVE k \in Good
  <2>1. SUFFICES ASSUME NEW S \in SUBSET Names, IsFiniteSet(S), S # {}, Cardinality(S) = k
                 PROVE  Has(S)
    OBVIOUS
  <2>2. PICK x \in S : TRUE
    BY <2>1
  <2> DEFINE T == S \ {x}
  <2>3. IsFiniteSet(T) /\ Cardinality(T) = k - 1 /\ T \in SUBSET Names
    BY <2>1, FS_RemoveElement
  <2>4. CASE T = {}
    <3>1. \A y \in S : y = x
      BY <2>4
    <3> QED BY <3>1
  <2>5. CASE T # {}
    <3>1. PICK m \in T : \A y \in T : y # m => Before(order, y, m)
      BY <1>2, <2>3, <2>5
    <3>2. x # m /\ x \in Names /\ m \in Names /\ m \in S
      BY <3>1
    <3>3. CASE Before(order, x, m)
      <4>1. \A y \in S : y # m => Before(order, y, m)
        BY <3>1, <3>3
      <4> QED BY <3>2, <4>1
    <3>4. CASE Before(order, m, x)
      <4>1. \A y \in T : Before(order, y, x)
        BY <3>1, <3>2, <3>4, BeforeIsTransitive
      <4>2. \A y \in S : y # x => Before(order, y, x)
        BY <4>1
      <4> QED BY <4>2
    <3> QED BY <3>2, <3>3, <3>4, BeforeIsTotal
  <2> QED BY <2>4, <2>5
<1> HIDE DEF Good
<1>3. n \in Good
  <2>1. 0..n \subseteq Good
    BY <1>1, <1>2, UpwardInduction
  <2> QED BY <2>1
<1> QED BY <1>3 DEF Good

LEMMA SortedIsArranged ==
    ASSUME NEW order \in Order, NEW S \in SUBSET Names, IsFiniteSet(S),
           NEW s \in Sorted(S, order)
    PROVE  /\ s \in Seq(S) /\ Len(s) = Cardinality(S)
           /\ \A i, j \in 1..Len(s) : i # j => s[i] # s[j]
           /\ \A i, j \in 1..Len(s) : i < j => ~Less(order, s[j], s[i])
<1>1. s \in SetToSeqs(S) /\ \A i, j \in DOMAIN s : i < j => ~Less(order, s[j], s[i])
  BY DEF Sorted
<1> QED BY <1>1, ArrangementTypes

(* The last name goes behind the others. *)
LEMMA SortedWithLast ==
    ASSUME NEW order \in Order, NEW S \in SUBSET Names, IsFiniteSet(S),
           NEW m \in S, \A x \in S : x # m => Before(order, x, m),
           NEW s \in Sorted(S \ {m}, order)
    PROVE  Append(s, m) \in Sorted(S, order)
<1> DEFINE T == S \ {m}
           t == Append(s, m)
<1>1. PICK n \in Nat : n = Cardinality(T)
  BY FS_RemoveElement, FS_CardinalityType
<1>2. IsFiniteSet(T) /\ Cardinality(S) = n + 1 /\ T \in SUBSET Names
  <2>1. IsFiniteSet(T) /\ Cardinality(T) = Cardinality(S) - 1 /\ Cardinality(S) \in Nat
    BY FS_RemoveElement, FS_CardinalityType
  <2> QED BY <2>1, <1>1
<1>3. /\ s \in Seq(T) /\ Len(s) = n
      /\ \A i, j \in 1..n : i # j => s[i] # s[j]
      /\ \A i, j \in 1..n : i < j => ~Less(order, s[j], s[i])
  <2>1. s \in Sorted(T, order)
    OBVIOUS
  <2> HIDE DEF T
  <2>2. /\ s \in Seq(T) /\ Len(s) = Cardinality(T)
        /\ \A i, j \in 1..Len(s) : i # j => s[i] # s[j]
        /\ \A i, j \in 1..Len(s) : i < j => ~Less(order, s[j], s[i])
    BY <2>1, <1>2, SortedIsArranged
  <2> QED BY <2>2, <1>1
<1>4. /\ t \in Seq(S) /\ Len(t) = n + 1 /\ t[n + 1] = m
      /\ \A i \in 1..n : t[i] = s[i] /\ s[i] \in T
  BY <1>3
<1> HIDE DEF t
<1>5. t \in [1..(n + 1) -> S] /\ DOMAIN t = 1..(n + 1)
  BY <1>4
<1>6. \A i, j \in 1..(n + 1) : i # j => t[i] # t[j]
  <2>1. \A i \in 1..n : t[i] # m
    BY <1>4
  <2>2. \A i, j \in 1..n : i # j => t[i] # t[j]
    BY <1>3, <1>4
  <2>3. \A i \in 1..(n + 1) : i \in 1..n \/ i = n + 1
    OBVIOUS
  <2> QED BY <1>4, <2>1, <2>2, <2>3
<1>7. \A i, j \in 1..(n + 1) : i < j => ~Less(order, t[j], t[i])
  <2>1. \A x \in T : ~Less(order, m, x)
    <3>1. SUFFICES ASSUME NEW x \in T, Less(order, m, x) PROVE FALSE
      OBVIOUS
    <3>2. x \in Names /\ m \in Names /\ Before(order, x, m)
      OBVIOUS
    <3>3. Less(order, x, m)
      BY <3>2, BeforeIsLess
    <3> QED BY <3>1, <3>2, <3>3, LessIsAsymmetric
  <2>2. \A i \in 1..n : ~Less(order, t[n + 1], t[i])
    BY <2>1, <1>4
  <2>3. \A i, j \in 1..n : i < j => ~Less(order, t[j], t[i])
    BY <1>3, <1>4
  <2>4. \A i, j \in 1..(n + 1) : i < j => i \in 1..n /\ (j \in 1..n \/ j = n + 1)
    OBVIOUS
  <2> QED BY <2>2, <2>3, <2>4
<1>8. t \in SetToSeqs(S)
  BY <1>2, <1>5, <1>6 DEF SetToSeqs
<1> QED BY <1>5, <1>7, <1>8 DEF Sorted, t

LEMMA SortedExists ==
    ASSUME NEW order \in Order, NEW S \in SUBSET Names, IsFiniteSet(S)
    PROVE  Sorted(S, order) # {}
<1>n. PICK n \in Nat : n = Cardinality(S)
  BY FS_CardinalityType
<1> DEFINE Good == {k \in Nat : \A R \in SUBSET Names :
                      IsFiniteSet(R) /\ Cardinality(R) = k => Sorted(R, order) # {}}
<1>1. 0 \in Good
  <2>1. SUFFICES ASSUME NEW R \in SUBSET Names, IsFiniteSet(R), Cardinality(R) = 0
                 PROVE  Sorted(R, order) # {}
    OBVIOUS
  <2>2. R = {}
    BY <2>1, FS_EmptySet
  <2>3. <<>> \in SetToSeqs(R)
    BY <2>1, <2>2 DEF SetToSeqs
  <2>4. <<>> \in Sorted(R, order)
    BY <2>3 DEF Sorted
  <2> QED BY <2>4
<1>2. ASSUME NEW k \in 1..n, k - 1 \in Good PROVE k \in Good
  <2>1. SUFFICES ASSUME NEW R \in SUBSET Names, IsFiniteSet(R), Cardinality(R) = k
                 PROVE  Sorted(R, order) # {}
    OBVIOUS
  <2>2. R # {} /\ k \in Nat
    BY <2>1, FS_EmptySet
  <2>3. PICK m \in R : \A x \in R : x # m => Before(order, x, m)
    BY <2>1, <2>2, LastName
  <2>4. IsFiniteSet(R \ {m}) /\ Cardinality(R \ {m}) = k - 1
    BY <2>1, FS_RemoveElement
  <2>5. PICK s \in Sorted(R \ {m}, order) : TRUE
    BY <1>2, <2>4
  <2>6. Append(s, m) \in Sorted(R, order)
    BY <2>1, <2>3, <2>5, SortedWithLast
  <2> QED BY <2>6
<1> HIDE DEF Good
<1>3. n \in Good
  <2>1. 0..n \subseteq Good
    BY <1>1, <1>2, UpwardInduction
  <2> QED BY <2>1
<1> QED BY <1>3, <1>n DEF Good

(***************************************************************************)
(* However Go walks a map, sorting its keys (canonical.encode,             *)
(* jcs.encodeObject) leaves them in one order, for any number of keys.     *)
(***************************************************************************)
THEOREM OneSortedOrder ==
    ASSUME NEW order \in Order, NEW S \in SUBSET Names, IsFiniteSet(S)
    PROVE  \E s : Sorted(S, order) = {s}
<1>1. PICK s : s \in Sorted(S, order)
  BY SortedExists
<1>2. \A t \in Sorted(S, order) : t = s
  BY <1>1, SortedIsUnique
<1>3. Sorted(S, order) = {s}
  BY <1>1, <1>2
<1> QED BY <1>3


-----------------------------------------------------------------------------
(* Numbers. *)

Digits == Seq(0..9)

AllDigits(n) == n.int \o n.frac

Exponent(n) == IF n.exp = NoExponent THEN 0 ELSE n.exp

LEMMA Slice ==
    ASSUME NEW S, NEW s \in Seq(S), NEW a \in Nat, NEW b \in Nat, 1 <= a, b <= Len(s), a <= b + 1
    PROVE  /\ SubSeq(s, a, b) \in Seq(S) /\ Len(SubSeq(s, a, b)) = b - a + 1
           /\ \A q \in 1..(b - a + 1) : SubSeq(s, a, b)[q] = s[a + q - 1]
OBVIOUS

LEMMA SameElements ==
    ASSUME NEW S, NEW s \in Seq(S), NEW t \in Seq(S), Len(s) = Len(t),
           \A q \in 1..Len(s) : s[q] = t[q]
    PROVE  s = t
OBVIOUS

LEMMA DigitsJoined ==
    ASSUME NEW a \in Digits, NEW b \in Digits
    PROVE  /\ a \o b \in Digits /\ Len(a \o b) = Len(a) + Len(b)
           /\ Len(a) \in Nat /\ Len(b) \in Nat
           /\ \A q \in 1..Len(a) : (a \o b)[q] = a[q]
           /\ \A q \in 1..Len(b) : (a \o b)[Len(a) + q] = b[q]
BY Concatenation DEF Digits

LEMMA OneDigit ==
    ASSUME NEW c \in 0..9
    PROVE  <<c>> \in Digits /\ Len(<<c>>) = 1 /\ <<c>>[1] = c
<1>1. <<c>> \in Seq(0..9)
  OBVIOUS
<1> QED BY <1>1 DEF Digits

(* The digits d from place o on, and zeros around them. *)
LEMMA Spelled ==
    ASSUME NEW m, m.int \in Digits, m.frac \in Digits, Exponent(m) \in Int,
           NEW all, all = AllDigits(m),
           NEW d \in Digits, NEW k \in Nat \ {0}, Len(d) = k, d[1] # 0, d[k] # 0,
           NEW o \in Nat, o + k <= Len(all), \A q \in 1..k : all[o + q] = d[q],
           \A i \in 1..Len(all) : i <= o \/ o + k < i => all[i] = 0
    PROVE  Decimal(m) = [neg |-> m.neg, digits |-> d, point |-> Len(m.int) + Exponent(m) - o]
<1> DEFINE nonzero == {i \in DOMAIN all : all[i] # 0}
           first == CHOOSE i \in nonzero : \A j \in nonzero : i <= j
           last == CHOOSE i \in nonzero : \A j \in nonzero : i >= j
           exp == IF m.exp = NoExponent THEN 0 ELSE m.exp
<1>1. Decimal(m) = IF nonzero = {}
                     THEN [neg |-> m.neg, digits |-> <<>>, point |-> 0]
                     ELSE [neg    |-> m.neg,
                           digits |-> SubSeq(all, first, last),
                           point  |-> Len(m.int) + exp - first + 1]
  BY DEF Decimal, AllDigits
<1>2. all \in Seq(0..9) /\ Len(m.int) \in Nat
  BY Concatenation DEF Digits, AllDigits
<1>3. PICK n \in Nat : n = Len(all) /\ DOMAIN all = 1..n
  BY <1>2
<1>4. o + 1 \in nonzero /\ o + k \in nonzero
  <2>1. 1 \in 1..k /\ k \in 1..k /\ o + 1 \in 1..n /\ o + k \in 1..n
    BY <1>3
  <2>2. all[o + 1] = d[1] /\ all[o + k] = d[k]
    BY <2>1
  <2> QED BY <1>3, <2>1, <2>2
<1>5. \A i \in nonzero : o + 1 <= i /\ i <= o + k /\ i \in Nat
  BY <1>3
<1> HIDE DEF nonzero
<1>6. first = o + 1
  <2>1. \A i \in nonzero : (\A j \in nonzero : i <= j) => i = o + 1
    BY <1>4, <1>5
  <2>2. \A j \in nonzero : o + 1 <= j
    BY <1>5
  <2> QED BY <1>4, <2>1, <2>2
<1>7. last = o + k
  <2>1. \A i \in nonzero : (\A j \in nonzero : i >= j) => i = o + k
    BY <1>4, <1>5
  <2>2. \A j \in nonzero : o + k >= j
    BY <1>5
  <2> QED BY <1>4, <2>1, <2>2
<1>8. SubSeq(all, o + 1, o + k) = d
  <2>1. o + 1 \in Nat /\ o + k \in Nat /\ 1 <= o + 1 /\ o + k <= Len(all)
        /\ o + 1 <= (o + k) + 1 /\ (o + k) - (o + 1) + 1 = k
    BY <1>3
  <2>2. /\ SubSeq(all, o + 1, o + k) \in Seq(0..9)
        /\ Len(SubSeq(all, o + 1, o + k)) = k
        /\ \A q \in 1..k : SubSeq(all, o + 1, o + k)[q] = all[(o + 1) + q - 1]
    BY <2>1, <1>2, Slice DEF Digits
  <2>3. \A q \in 1..k : (o + 1) + q - 1 = o + q
    OBVIOUS
  <2>4. ASSUME NEW q \in 1..k PROVE SubSeq(all, o + 1, o + k)[q] = d[q]
    <3>1. SubSeq(all, o + 1, o + k)[q] = all[(o + 1) + q - 1]
      BY <2>2
    <3>2. (o + 1) + q - 1 = o + q
      BY <2>3
    <3> QED BY <3>1, <3>2
  <2> QED BY <2>2, <2>4, SameElements DEF Digits
<1> HIDE DEF first, last
<1>9. Decimal(m) = [neg |-> m.neg, digits |-> d, point |-> Len(m.int) + exp - (o + 1) + 1]
  BY <1>1, <1>4, <1>6, <1>7, <1>8
<1>10. exp = Exponent(m)
  BY DEF Exponent
<1> HIDE DEF exp
<1>11. Len(m.int) + exp - (o + 1) + 1 = Len(m.int) + Exponent(m) - o
  BY <1>2, <1>10
<1> QED BY <1>9, <1>11

LEMMA SpelledZero ==
    ASSUME NEW m, \A i \in DOMAIN AllDigits(m) : AllDigits(m)[i] = 0
    PROVE  Decimal(m) = [neg |-> m.neg, digits |-> <<>>, point |-> 0]
<1>1. {i \in DOMAIN AllDigits(m) : AllDigits(m)[i] # 0} = {}
  OBVIOUS
<1> QED BY <1>1 DEF Decimal, AllDigits

(* Digits without zeros at either end. *)
Trimmed(d) == d \in Digits /\ (d # <<>> => d[1] # 0 /\ d[Len(d)] # 0)

LEMMA NoDigits == <<>> \in Digits /\ Trimmed(<<>>)
<1>1. <<>> \in Digits
  BY DEF Digits
<1>2. \A d \in Digits : d = <<>> => Trimmed(d)
  BY DEF Trimmed
<1> QED BY <1>1, <1>2

Decimals ==
    {x \in [neg : BOOLEAN, digits : Digits, point : Int] :
        Trimmed(x.digits) /\ (x.digits = <<>> => x.point = 0)}

LEMMA InDecimals ==
    ASSUME NEW neg \in BOOLEAN, NEW d \in Digits, Trimmed(d), NEW p \in Int, d = <<>> => p = 0
    PROVE  [neg |-> neg, digits |-> d, point |-> p] \in Decimals
BY DEF Decimals

LEMMA LiteralTypes ==
    ASSUME NEW n \in Literal
    PROVE  /\ n.neg \in BOOLEAN /\ n.int \in Digits /\ n.frac \in Digits
           /\ Exponent(n) \in Int
BY LiteralsAreNumbers DEF Digits, Exponent

LEMMA DecimalTypes ==
    ASSUME NEW n \in Literal
    PROVE  Decimal(n) \in Decimals
<1> DEFINE all == AllDigits(n)
           I == {i \in DOMAIN all : all[i] # 0}
<1>1. all \in Seq(0..9) /\ Len(n.int) \in Nat
  BY LiteralTypes, Concatenation DEF Digits, AllDigits
<1>2. PICK L \in Nat : L = Len(all) /\ DOMAIN all = 1..L
  BY <1>1
<1>3. CASE I = {}
  <2>1. Decimal(n) = [neg |-> n.neg, digits |-> <<>>, point |-> 0]
    BY <1>3, SpelledZero
  <2>2. <<>> \in Digits /\ Trimmed(<<>>)
    BY NoDigits
  <2> QED BY <2>1, <2>2, LiteralTypes, InDecimals
<1>4. CASE I # {}
  <2>1. I \in SUBSET (1..L)
    BY <1>2
  <2> HIDE DEF I
  <2>2. PICK f \in I : \A j \in I : f <= j
    BY <1>4, <2>1, LeastIndex
  <2>3. PICK l \in I : \A j \in I : j <= l
    BY <1>4, <2>1, GreatestIndex
  <2>4. /\ f \in 1..L /\ l \in 1..L /\ f <= l /\ all[f] # 0 /\ all[l] # 0
        /\ \A i \in 1..L : i < f \/ l < i => all[i] = 0
    BY <2>1, <2>2, <2>3, <1>2 DEF I
  <2>5. PICK o \in Nat : o = f - 1
    BY <2>4
  <2>6. PICK k \in Nat \ {0} : k = l - f + 1
    BY <2>4
  <2>7. o + 1 = f /\ o + k = l /\ o + k <= L
    BY <2>4, <2>5, <2>6
  <2> DEFINE d == SubSeq(all, f, l)
  <2> HIDE DEF all
  <2>8. d \in Seq(0..9) /\ Len(d) = k /\ \A q \in 1..k : d[q] = all[f + q - 1]
    <3>1. f \in Nat /\ l \in Nat /\ 1 <= f /\ l <= Len(all) /\ f <= l + 1 /\ l - f + 1 = k
      BY <1>2, <2>4, <2>6
    <3> QED BY <3>1, <1>1, Slice
  <2> HIDE DEF d
  <2>9. \A q \in 1..k : all[o + q] = d[q]
    <3>1. \A q \in 1..k : f + q - 1 = o + q
      BY <2>4, <2>5
    <3> QED BY <3>1, <2>8
  <2>10. d[1] # 0 /\ d[k] # 0
    <3>1. 1 \in 1..k /\ k \in 1..k
      OBVIOUS
    <3> QED BY <3>1, <2>4, <2>7, <2>9
  <2>11. \A i \in 1..Len(all) : i <= o \/ o + k < i => all[i] = 0
    <3>1. \A i \in 1..L : i <= o => i < f
      BY <2>4, <2>5
    <3> QED BY <3>1, <1>2, <2>4, <2>7
  <2>12. Decimal(n) = [neg |-> n.neg, digits |-> d, point |-> Len(n.int) + Exponent(n) - o]
    <3>1. all = AllDigits(n) /\ o + k <= Len(all) /\ d \in Digits
      BY <1>2, <2>7, <2>8 DEF all, Digits
    <3>2. n.int \in Digits /\ n.frac \in Digits /\ Exponent(n) \in Int
      BY LiteralTypes
    <3>3. /\ Len(d) = k /\ d[1] # 0 /\ d[k] # 0 /\ \A q \in 1..k : all[o + q] = d[q]
          /\ \A i \in 1..Len(all) : i <= o \/ o + k < i => all[i] = 0
      BY <2>8, <2>9, <2>10, <2>11
    <3> HIDE DEF d
    <3> QED BY <3>1, <3>2, <3>3, Spelled
  <2>13. Len(n.int) + Exponent(n) - o \in Int /\ n.neg \in BOOLEAN
    BY <1>1, LiteralTypes
  <2>14. d \in Digits /\ Trimmed(d) /\ d # <<>>
    BY <2>8, <2>10 DEF Trimmed, Digits
  <2> QED BY <2>12, <2>13, <2>14, InDecimals
<1> QED BY <1>3, <1>4

(* What is read from a number that is not too large. *)
LEMMA ParseFloatTypes ==
    ASSUME NEW n \in Literal, ~Overflows(n)
    PROVE  /\ ParseFloat(n) \in Decimals
           /\ ParseFloat(n).point >= -323 /\ ParseFloat(n).point <= 309
<1>1. Decimal(n) \in Decimals
  BY DecimalTypes
<1>2. Decimal(n).point <= 309
  BY <1>1 DEF Overflows, Decimals
<1>3. CASE Underflows(n)
  <2>1. ParseFloat(n) = [neg |-> Decimal(n).neg, digits |-> <<>>, point |-> 0]
    BY <1>1, <1>3 DEF ParseFloat, Decimals
  <2>2. Decimal(n).neg \in BOOLEAN /\ <<>> \in Digits /\ Trimmed(<<>>)
    BY <1>1, NoDigits DEF Decimals
  <2>3. ParseFloat(n) \in Decimals
    BY <2>1, <2>2, InDecimals
  <2> QED BY <2>1, <2>3
<1>4. CASE ~Underflows(n)
  <2>1. ParseFloat(n) = Decimal(n) /\ Decimal(n).point \in Int
    BY <1>1, <1>4 DEF ParseFloat, Decimals
  <2>2. Decimal(n).point >= -323
    BY <1>4, <2>1 DEF Underflows
  <2> QED BY <1>1, <1>2, <2>1, <2>2
<1> QED BY <1>3, <1>4

-----------------------------------------------------------------------------
(* What esNumber writes. *)

LEMMA ZerosFacts ==
    ASSUME NEW k \in Nat
    PROVE  Zeros(k) \in Digits /\ Len(Zeros(k)) = k /\ \A q \in 1..k : Zeros(k)[q] = 0
BY DEF Zeros, Digits

Plain(int, frac, x) == [neg |-> x.neg, int |-> int, frac |-> frac, exp |-> NoExponent]

(* Its four forms, for a number of k digits. *)
LEMMA Zero ==
    ASSUME NEW x \in Decimals, x.digits = <<>>
    PROVE  EsNumber(x) = [neg |-> FALSE, int |-> <<0>>, frac |-> <<>>, exp |-> NoExponent]
BY DEF EsNumber

LEMMA WholeNumber ==
    ASSUME NEW x \in Decimals, NEW k \in Nat \ {0}, Len(x.digits) = k,
           k <= x.point, x.point <= 21
    PROVE  /\ EsNumber(x) = Plain(x.digits \o Zeros(x.point - k), <<>>, x)
           /\ Decimal(EsNumber(x)) = x
           /\ LikeJavaScript(EsNumber(x))
<1> DEFINE d == x.digits
           n == x.point
           int == d \o Zeros(n - k)
           m == Plain(int, <<>>, x)
<1>1. /\ d \in Seq(0..9) /\ n \in Int /\ x.neg \in BOOLEAN /\ Len(d) = k
      /\ d[1] # 0 /\ d[k] # 0
      /\ x = [neg |-> x.neg, digits |-> d, point |-> n]
  BY DEF Decimals, Trimmed, Digits
<1>2. EsNumber(x) = m
  BY <1>1 DEF EsNumber, PlainMagnitude, Plain
<1>3. n - k \in Nat /\ n \in Nat
  BY <1>1
<1> HIDE DEF d, n
<1>4. /\ Zeros(n - k) \in Seq(0..9) /\ Len(Zeros(n - k)) = n - k
      /\ \A q \in 1..(n - k) : Zeros(n - k)[q] = 0
  BY <1>3, ZerosFacts DEF Digits
<1>5. /\ int \in Seq(0..9) /\ Len(int) = k + (n - k)
      /\ \A q \in 1..k : int[q] = d[q]
      /\ \A q \in 1..(n - k) : int[k + q] = 0
  <2>1. PICK z \in Seq(0..9) : z = Zeros(n - k)
    BY <1>4
  <2>2. /\ d \o z \in Seq(0..9) /\ Len(d \o z) = Len(d) + Len(z)
        /\ \A q \in 1..Len(d) : (d \o z)[q] = d[q]
        /\ \A q \in 1..Len(z) : (d \o z)[Len(d) + q] = z[q]
    BY <1>1, Concatenation
  <2>3. int = d \o z
    BY <2>1
  <2> HIDE DEF int
  <2> QED BY <2>1, <2>2, <2>3, <1>1, <1>4
<1>6. Len(int) = n
  BY <1>3, <1>5
<1> HIDE DEF int
<1>7. m.int = int /\ m.frac = <<>> /\ m.exp = NoExponent /\ m.neg = x.neg
  BY DEF Plain
<1> HIDE DEF m
<1>8. AllDigits(m) = int
  BY <1>5, <1>7 DEF AllDigits
<1>9. Decimal(m) = [neg |-> x.neg, digits |-> d, point |-> n]
  <2>1. m.int \in Digits /\ m.frac \in Digits /\ d \in Digits
    BY <1>1, <1>5, <1>7, NoDigits DEF Digits
  <2>2. Exponent(m) = 0
    BY <1>7 DEF Exponent
  <2>3. 0 + k <= Len(int)
    BY <1>3, <1>6, <1>1
  <2>4. \A q \in 1..k : int[0 + q] = d[q]
    BY <1>5
  <2>5. \A i \in 1..Len(int) : i <= 0 \/ 0 + k < i => int[i] = 0
    <3>1. SUFFICES ASSUME NEW i \in 1..n, k < i PROVE int[i] = 0
      BY <1>6
    <3>2. PICK q \in 1..(n - k) : q = i - k
      BY <1>3, <3>1
    <3>3. k + q = i
      BY <3>2
    <3> QED BY <3>3, <1>5
  <2>6. Decimal(m) = [neg |-> m.neg, digits |-> d, point |-> Len(m.int) + Exponent(m) - 0]
    BY <1>1, <1>8, <2>1, <2>2, <2>3, <2>4, <2>5, Spelled
  <2>7. Len(m.int) + Exponent(m) - 0 = n
    BY <1>3, <1>6, <1>7, <2>2
  <2> QED BY <2>6, <2>7, <1>7
<1>10. LikeJavaScript(m)
  <2>1. int[1] # 0
    <3>1. 1 \in 1..k
      OBVIOUS
    <3> QED BY <3>1, <1>1, <1>5
  <2>2. int # <<0>>
    BY <2>1
  <2>3. Len(int) <= 21
    BY <1>6 DEF n
  <2> QED BY <1>7, <2>1, <2>2, <2>3 DEF LikeJavaScript
<1> QED BY <1>1, <1>2, <1>9, <1>10 DEF m, int, d, n

LEMMA SmallNumber ==
    ASSUME NEW x \in Decimals, NEW k \in Nat \ {0}, Len(x.digits) = k,
           x.point <= 0, -6 < x.point
    PROVE  /\ EsNumber(x) = Plain(<<0>>, Zeros(-x.point) \o x.digits, x)
           /\ Decimal(EsNumber(x)) = x
           /\ LikeJavaScript(EsNumber(x))
<1> DEFINE d == x.digits
           n == x.point
           frac == Zeros(-n) \o d
           m == Plain(<<0>>, frac, x)
<1>1. /\ d \in Digits /\ n \in Int /\ x.neg \in BOOLEAN /\ Len(d) = k
      /\ d[1] # 0 /\ d[k] # 0
      /\ x = [neg |-> x.neg, digits |-> d, point |-> n]
  BY DEF Decimals, Trimmed
<1>2. EsNumber(x) = m
  BY <1>1 DEF EsNumber, PlainMagnitude, Plain
<1>3. PICK p \in Nat : p = -n /\ n = -p /\ p < 6
  BY <1>1
<1> HIDE DEF d, n
<1>4. PICK z \in Digits : z = Zeros(-n) /\ Len(z) = p /\ \A q \in 1..p : z[q] = 0
  BY <1>3, ZerosFacts
<1>5. /\ frac \in Digits /\ Len(frac) = p + k
      /\ \A q \in 1..p : frac[q] = 0
      /\ \A q \in 1..k : frac[p + q] = d[q]
  <2>1. /\ z \o d \in Digits /\ Len(z \o d) = Len(z) + Len(d)
        /\ \A q \in 1..Len(z) : (z \o d)[q] = z[q]
        /\ \A q \in 1..Len(d) : (z \o d)[Len(z) + q] = d[q]
    BY <1>1, <1>4, DigitsJoined
  <2>2. frac = z \o d
    BY <1>4
  <2> HIDE DEF frac
  <2> QED BY <2>1, <2>2, <1>1, <1>4
<1> HIDE DEF frac
<1>6. m.int = <<0>> /\ m.frac = frac /\ m.exp = NoExponent /\ m.neg = x.neg
  BY DEF Plain
<1> HIDE DEF m
<1>7. PICK all \in Digits :
        /\ all = AllDigits(m) /\ Len(all) = 1 + p + k
        /\ all[1] = 0 /\ \A q \in 1..(p + k) : all[1 + q] = frac[q]
  <2>1. PICK one \in Digits : one = <<0>> /\ Len(one) = 1 /\ one[1] = 0
    BY OneDigit
  <2>2. /\ one \o frac \in Digits /\ Len(one \o frac) = Len(one) + Len(frac)
        /\ \A q \in 1..Len(one) : (one \o frac)[q] = one[q]
        /\ \A q \in 1..Len(frac) : (one \o frac)[Len(one) + q] = frac[q]
    BY <1>5, DigitsJoined
  <2>3. AllDigits(m) = one \o frac
    BY <1>6, <2>1 DEF AllDigits
  <2>4. 1 \in 1..Len(one)
    BY <2>1
  <2>5. PICK all \in Digits : all = one \o frac
    BY <2>2
  <2>6. Len(all) = 1 + (p + k) /\ all[1] = one[1] /\ \A q \in 1..(p + k) : all[1 + q] = frac[q]
    BY <2>1, <2>2, <2>4, <2>5, <1>5
  <2>7. all = AllDigits(m) /\ all[1] = 0 /\ 1 + (p + k) = 1 + p + k
    BY <2>1, <2>3, <2>5, <2>6
  <2> QED BY <2>6, <2>7
<1>8. Decimal(m) = [neg |-> x.neg, digits |-> d, point |-> n]
  <2>1. m.int \in Digits /\ m.frac \in Digits /\ d \in Digits /\ Len(m.int) = 1
    BY <1>1, <1>5, <1>6, OneDigit
  <2>2. Exponent(m) = 0
    BY <1>6 DEF Exponent
  <2>3. PICK o \in Nat : o = p + 1
    OBVIOUS
  <2>4. o + k <= Len(all)
    BY <1>7, <2>3
  <2>5. ASSUME NEW q \in 1..k PROVE all[o + q] = d[q]
    <3>1. PICK r \in 1..(p + k) : r = p + q
      OBVIOUS
    <3>2. 1 + r = o + q
      BY <2>3, <3>1
    <3> QED BY <3>1, <3>2, <1>5, <1>7
  <2>6. ASSUME NEW i \in 1..Len(all), i <= o \/ o + k < i PROVE all[i] = 0
    <3>1. i <= p + 1
      BY <1>7, <2>3, <2>6
    <3>2. CASE i = 1
      BY <3>2, <1>7
    <3>3. CASE i # 1
      <4>1. PICK q \in 1..p : q = i - 1
        BY <3>1, <3>3
      <4>2. q \in 1..(p + k) /\ 1 + q = i
        BY <4>1
      <4> QED BY <4>2, <1>5, <1>7
    <3> QED BY <3>2, <3>3
  <2>7. Decimal(m) = [neg |-> m.neg, digits |-> d, point |-> Len(m.int) + Exponent(m) - o]
    <3>1. Exponent(m) \in Int /\ Len(d) = k /\ d[1] # 0 /\ d[k] # 0 /\ all = AllDigits(m)
      BY <1>1, <1>7, <2>2
    <3> QED BY <3>1, <2>1, <2>4, <2>5, <2>6, Spelled
  <2>8. Len(m.int) + Exponent(m) - o = n
    BY <1>3, <2>1, <2>2, <2>3
  <2> QED BY <2>7, <2>8, <1>6
<1>9. LikeJavaScript(m)
  <2>1. frac[Len(frac)] # 0
    <3>1. k \in 1..k
      OBVIOUS
    <3> QED BY <3>1, <1>1, <1>5
  <2>2. LeadingZeros(frac) < 6
    <3> DEFINE I == {i \in DOMAIN frac : \A j \in 1..i : frac[j] = 0}
    <3>1. DOMAIN frac = 1..(p + k)
      BY <1>5
    <3>2. frac[p + 1] # 0
      <4>1. 1 \in 1..k
        OBVIOUS
      <4> QED BY <4>1, <1>1, <1>5
    <3>3. \A i \in I : i \in Nat /\ i <= p
      <4>1. SUFFICES ASSUME NEW i \in I, p < i PROVE FALSE
        BY <3>1
      <4>2. p + 1 \in 1..i
        BY <3>1, <4>1
      <4> QED BY <4>1, <4>2, <3>2
    <3>4. I \in SUBSET (1..p)
      BY <3>1, <3>3
    <3>5. IsFiniteSet(1..p) /\ Cardinality(1..p) = p
      <4>1. 1 \in Int /\ p \in Int
        OBVIOUS
      <4>2. /\ IsFiniteSet(1..p)
            /\ Cardinality(1..p) = IF 1 > p THEN 0 ELSE p - 1 + 1
        BY <4>1, FS_Interval
      <4> QED BY <4>2
    <3> HIDE DEF I
    <3>6. Cardinality(I) <= p /\ Cardinality(I) \in Nat
      BY <3>4, <3>5, FS_Subset, FS_CardinalityType
    <3>7. LeadingZeros(frac) = Cardinality(I)
      BY DEF LeadingZeros, I
    <3> QED BY <3>6, <3>7, <1>3
  <2>3. Len(<<0>>) <= 21 /\ frac # <<>>
    BY <1>5
  <2> QED BY <1>6, <2>1, <2>2, <2>3 DEF LikeJavaScript
<1> QED BY <1>1, <1>2, <1>8, <1>9 DEF m, frac, d, n

(* The digits in two parts, however the point stands. *)
LEMMA DigitsSplit ==
    ASSUME NEW d \in Digits, NEW k \in Nat \ {0}, Len(d) = k, NEW i \in 1..k
    PROVE  /\ SubSeq(d, 1, i) \in Digits /\ Len(SubSeq(d, 1, i)) = i
           /\ SubSeq(d, 1, i)[1] = d[1]
           /\ SubSeq(d, i + 1, k) \in Digits /\ Len(SubSeq(d, i + 1, k)) = k - i
           /\ i < k => SubSeq(d, i + 1, k)[k - i] = d[k]
           /\ SubSeq(d, 1, i) \o SubSeq(d, i + 1, k) = d
<1>1. d \in Seq(0..9)
  BY DEF Digits
<1>2. PICK a : a = SubSeq(d, 1, i)
  OBVIOUS
<1>3. PICK b : b = SubSeq(d, i + 1, k)
  OBVIOUS
<1>4. a \in Digits /\ Len(a) = i /\ \A q \in 1..i : a[q] = d[q]
  <2>1. /\ SubSeq(d, 1, i) \in Seq(0..9) /\ Len(SubSeq(d, 1, i)) = i - 1 + 1
        /\ \A q \in 1..(i - 1 + 1) : SubSeq(d, 1, i)[q] = d[1 + q - 1]
    BY <1>1, Slice
  <2>2. i - 1 + 1 = i /\ \A q \in 1..i : 1 + q - 1 = q
    OBVIOUS
  <2> QED BY <2>1, <2>2, <1>2 DEF Digits
<1>5. b \in Digits /\ Len(b) = k - i /\ \A q \in 1..(k - i) : b[q] = d[i + q]
  <2>1. /\ SubSeq(d, i + 1, k) \in Seq(0..9) /\ Len(SubSeq(d, i + 1, k)) = k - (i + 1) + 1
        /\ \A q \in 1..(k - (i + 1) + 1) : SubSeq(d, i + 1, k)[q] = d[(i + 1) + q - 1]
    BY <1>1, Slice
  <2>2. k - (i + 1) + 1 = k - i
    OBVIOUS
  <2>3. ASSUME NEW q \in 1..(k - i) PROVE b[q] = d[i + q]
    <3>1. (i + 1) + q - 1 = i + q
      OBVIOUS
    <3> QED BY <3>1, <2>1, <2>2, <1>3
  <2> QED BY <2>1, <2>2, <2>3, <1>3 DEF Digits
<1>6. a \o b = d
  <2>1. /\ a \o b \in Digits /\ Len(a \o b) = i + (k - i)
        /\ \A q \in 1..i : (a \o b)[q] = a[q]
        /\ \A q \in 1..(k - i) : (a \o b)[i + q] = b[q]
    <3>1. /\ a \o b \in Digits /\ Len(a \o b) = Len(a) + Len(b)
          /\ \A q \in 1..Len(a) : (a \o b)[q] = a[q]
          /\ \A q \in 1..Len(b) : (a \o b)[Len(a) + q] = b[q]
      BY <1>4, <1>5, DigitsJoined
    <3> QED BY <3>1, <1>4, <1>5
  <2>2. PICK c \in Digits : c = a \o b
    BY <2>1
  <2>3. Len(c) = k
    BY <2>1, <2>2
  <2>4. ASSUME NEW q \in 1..k PROVE c[q] = d[q]
    <3>1. CASE q <= i
      BY <3>1, <2>1, <2>2, <1>4
    <3>2. CASE i < q
      <4>1. PICK r \in 1..(k - i) : r = q - i
        BY <3>2
      <4>2. i + r = q
        BY <4>1
      <4>3. c[i + r] = d[i + r]
        BY <2>1, <2>2, <1>5
      <4> QED BY <4>2, <4>3
    <3> QED BY <3>1, <3>2
  <2>5. c = d
    BY <2>3, <2>4, SameElements DEF Digits
  <2> QED BY <2>2, <2>5
<1>7. a[1] = d[1]
  <2>1. 1 \in 1..i
    OBVIOUS
  <2> QED BY <2>1, <1>4
<1>8. i < k => b[k - i] = d[k]
  <2>1. i < k => k - i \in 1..(k - i)
    OBVIOUS
  <2>2. i + (k - i) = k
    OBVIOUS
  <2> QED BY <2>1, <2>2, <1>5
<1> QED BY <1>2, <1>3, <1>4, <1>5, <1>6, <1>7, <1>8

(* The number m has i of the k digits of x before the point. *)
SplitsAt(m, x, k, i) ==
    /\ Len(x.digits) = k
    /\ m.neg = x.neg
    /\ m.int = SubSeq(x.digits, 1, i)
    /\ m.frac = SubSeq(x.digits, i + 1, k)
    /\ Exponent(m) = x.point - i

LEMMA SplitNumber ==
    ASSUME NEW x \in Decimals, NEW k \in Nat \ {0}, NEW i \in 1..k,
           NEW m, SplitsAt(m, x, k, i)
    PROVE  /\ Decimal(m) = x
           /\ Len(m.int) = i /\ m.int[1] # 0
           /\ m.frac # <<>> => m.frac[Len(m.frac)] # 0
           /\ m.int # <<0>>
<1> USE DEF SplitsAt
<1> DEFINE d == x.digits
<1>1. /\ d \in Digits /\ x.point \in Int /\ x.neg \in BOOLEAN /\ Len(d) = k
      /\ d[1] # 0 /\ d[k] # 0
      /\ x = [neg |-> x.neg, digits |-> d, point |-> x.point]
  BY DEF Decimals, Trimmed
<1> HIDE DEF d
<1>2. /\ m.int \in Digits /\ Len(m.int) = i /\ m.int[1] = d[1]
      /\ m.frac \in Digits /\ Len(m.frac) = k - i
      /\ i < k => m.frac[k - i] = d[k]
      /\ m.int \o m.frac = d
  <2>1. /\ SubSeq(d, 1, i) \in Digits /\ Len(SubSeq(d, 1, i)) = i
        /\ SubSeq(d, 1, i)[1] = d[1]
        /\ SubSeq(d, i + 1, k) \in Digits /\ Len(SubSeq(d, i + 1, k)) = k - i
        /\ i < k => SubSeq(d, i + 1, k)[k - i] = d[k]
        /\ SubSeq(d, 1, i) \o SubSeq(d, i + 1, k) = d
    BY <1>1, DigitsSplit
  <2>2. m.int = SubSeq(d, 1, i) /\ m.frac = SubSeq(d, i + 1, k)
    BY DEF d
  <2> QED BY <2>1, <2>2
<1>3. Decimal(m) = [neg |-> m.neg, digits |-> d, point |-> Len(m.int) + Exponent(m) - 0]
  <2>1. d = AllDigits(m) /\ Exponent(m) \in Int /\ 0 + k <= Len(d)
    <3>1. d = AllDigits(m)
      BY <1>2 DEF AllDigits
    <3>2. Exponent(m) \in Int
      BY <1>1
    <3> QED BY <3>1, <3>2, <1>1
  <2>2. /\ \A q \in 1..k : d[0 + q] = d[q]
        /\ \A j \in 1..Len(d) : j <= 0 \/ 0 + k < j => d[j] = 0
    BY <1>1
  <2>3. /\ m.int \in Digits /\ m.frac \in Digits /\ Exponent(m) \in Int
        /\ d = AllDigits(m) /\ d \in Digits /\ k \in Nat \ {0} /\ Len(d) = k
        /\ d[1] # 0 /\ d[k] # 0 /\ 0 \in Nat
    BY <1>1, <1>2, <2>1
  <2> QED BY <2>1, <2>2, <2>3, Spelled
<1>4. Len(m.int) + Exponent(m) - 0 = x.point
  BY <1>1, <1>2
<1>5. Decimal(m) = x
  BY <1>1, <1>3, <1>4
<1>6. m.frac # <<>> => m.frac[Len(m.frac)] # 0
  <2>1. m.frac # <<>> => Len(m.frac) # 0
    <3>1. \A s \in Digits : s # <<>> => Len(s) # 0
      BY DEF Digits
    <3> QED BY <3>1, <1>2
  <2>2. m.frac # <<>> => i < k /\ Len(m.frac) = k - i
    BY <2>1, <1>2
  <2> QED BY <2>2, <1>1, <1>2
<1>7. m.int # <<0>>
  <2>1. <<0>>[1] = 0
    BY OneDigit
  <2> QED BY <2>1, <1>1, <1>2
<1> QED BY <1>1, <1>2, <1>5, <1>6, <1>7

LEMMA MixedNumber ==
    ASSUME NEW x \in Decimals, NEW k \in Nat \ {0}, Len(x.digits) = k,
           0 < x.point, x.point < k, x.point <= 21
    PROVE  /\ Decimal(EsNumber(x)) = x
           /\ LikeJavaScript(EsNumber(x))
<1>1. x.point \in 1..k /\ x.point \in Int
  BY DEF Decimals
<1> DEFINE m == Plain(SubSeq(x.digits, 1, x.point), SubSeq(x.digits, x.point + 1, k), x)
<1>2. EsNumber(x) = m
  <2>1. /\ Len(x.digits) # 0 /\ PlainMagnitude(x.point)
        /\ ~(Len(x.digits) <= x.point) /\ ~(x.point <= 0)
    BY <1>1 DEF PlainMagnitude
  <2> QED BY <2>1 DEF EsNumber, Plain
<1>3. /\ m.neg = x.neg /\ m.int = SubSeq(x.digits, 1, x.point)
      /\ m.frac = SubSeq(x.digits, x.point + 1, k) /\ m.exp = NoExponent
  BY DEF Plain
<1> HIDE DEF m
<1>4. Exponent(m) = x.point - x.point
  BY <1>1, <1>3 DEF Exponent
<1>5. /\ Decimal(m) = x
      /\ Len(m.int) = x.point /\ m.int[1] # 0
      /\ m.frac # <<>> => m.frac[Len(m.frac)] # 0
      /\ m.int # <<0>>
  <2>1. PICK i \in 1..k : i = x.point
    BY <1>1
  <2>2. SplitsAt(m, x, k, i)
    BY <1>3, <1>4, <2>1 DEF SplitsAt
  <2>3. /\ Decimal(m) = x
        /\ Len(m.int) = i /\ m.int[1] # 0
        /\ m.frac # <<>> => m.frac[Len(m.frac)] # 0
        /\ m.int # <<0>>
    BY <2>2, SplitNumber
  <2> QED BY <2>1, <2>3
<1>6. LikeJavaScript(m)
  BY <1>3, <1>5 DEF LikeJavaScript
<1> QED BY <1>2, <1>5, <1>6

LEMMA ScientificNumber ==
    ASSUME NEW x \in Decimals, NEW k \in Nat \ {0}, Len(x.digits) = k,
           x.point <= -6 \/ 21 < x.point
    PROVE  /\ Decimal(EsNumber(x)) = x
           /\ LikeJavaScript(EsNumber(x))
<1>1. 1 \in 1..k /\ x.point \in Int
  BY DEF Decimals
<1> DEFINE m == [neg |-> x.neg, int |-> SubSeq(x.digits, 1, 1),
                 frac |-> SubSeq(x.digits, 1 + 1, k), exp |-> x.point - 1]
<1>2. EsNumber(x) = m
  BY <1>1 DEF EsNumber, PlainMagnitude
<1>3. /\ m.neg = x.neg /\ m.int = SubSeq(x.digits, 1, 1)
      /\ m.frac = SubSeq(x.digits, 1 + 1, k) /\ m.exp = x.point - 1
  OBVIOUS
<1> HIDE DEF m
<1>4. m.exp # NoExponent
  <2>1. x.point - 1 \in Int
    BY <1>1
  <2> QED BY <2>1, <1>3, LiteralsAreNumbers
<1>5. Exponent(m) = x.point - 1
  BY <1>3, <1>4 DEF Exponent
<1>6. /\ Decimal(m) = x
      /\ Len(m.int) = 1 /\ m.int[1] # 0
      /\ m.frac # <<>> => m.frac[Len(m.frac)] # 0
      /\ m.int # <<0>>
  <2>1. PICK i \in 1..k : i = 1
    BY <1>1
  <2>2. SplitsAt(m, x, k, i)
    BY <1>3, <1>5, <2>1 DEF SplitsAt
  <2>3. /\ Decimal(m) = x
        /\ Len(m.int) = i /\ m.int[1] # 0
        /\ m.frac # <<>> => m.frac[Len(m.frac)] # 0
        /\ m.int # <<0>>
    BY <2>2, SplitNumber
  <2> QED BY <2>1, <2>3
<1>7. m.exp >= 21 \/ m.exp < -6
  BY <1>1, <1>3
<1>8. LikeJavaScript(m)
  BY <1>4, <1>6, <1>7 DEF LikeJavaScript
<1> QED BY <1>2, <1>6, <1>8

LEMMA NonZeroNumber ==
    ASSUME NEW x \in Decimals, x.digits # <<>>
    PROVE  /\ Decimal(EsNumber(x)) = x
           /\ LikeJavaScript(EsNumber(x))
<1>1. PICK k \in Nat \ {0} : k = Len(x.digits)
  <2>1. x.digits \in Seq(0..9)
    BY DEF Decimals, Digits
  <2> QED BY <2>1
<1>2. x.point \in Int
  BY DEF Decimals
<1>3. CASE k <= x.point /\ x.point <= 21
  BY <1>1, <1>3, WholeNumber
<1>4. CASE x.point <= 0 /\ -6 < x.point
  BY <1>1, <1>4, SmallNumber
<1>5. CASE 0 < x.point /\ x.point < k /\ x.point <= 21
  BY <1>1, <1>5, MixedNumber
<1>6. CASE x.point <= -6 \/ 21 < x.point
  BY <1>1, <1>6, ScientificNumber
<1> QED BY <1>1, <1>2, <1>3, <1>4, <1>5, <1>6

LEMMA ZeroNumber ==
    ASSUME NEW x \in Decimals, x.digits = <<>>
    PROVE  /\ Decimal(EsNumber(x)) = [neg |-> FALSE, digits |-> <<>>, point |-> 0]
           /\ LikeJavaScript(EsNumber(x))
<1> DEFINE m == EsNumber(x)
<1>1. m.neg = FALSE /\ m.int = <<0>> /\ m.frac = <<>> /\ m.exp = NoExponent
  BY Zero
<1> HIDE DEF m
<1>2. \A i \in DOMAIN AllDigits(m) : AllDigits(m)[i] = 0
  <2>1. AllDigits(m) = <<0>>
    BY <1>1 DEF AllDigits
  <2> QED BY <2>1
<1>3. Decimal(m) = [neg |-> FALSE, digits |-> <<>>, point |-> 0]
  BY <1>1, <1>2, SpelledZero
<1>4. LeadingZeros(m.frac) < 6
  <2>1. {i \in DOMAIN m.frac : \A j \in 1..i : m.frac[j] = 0} = {}
    BY <1>1
  <2>2. LeadingZeros(m.frac) = Cardinality({})
    BY <2>1 DEF LeadingZeros
  <2> QED BY <2>2, FS_EmptySet
<1>5. Len(m.int) <= 21
  BY <1>1
<1>6. LikeJavaScript(m)
  BY <1>1, <1>4, <1>5 DEF LikeJavaScript
<1> QED BY <1>3, <1>6 DEF m

(* What esNumber writes is what JSON.stringify writes. *)
LEMMA WrittenLikeJavaScript ==
    ASSUME NEW n \in Literal, ~Overflows(n)
    PROVE  LikeJavaScript(EsNumber(ParseFloat(n)))
BY ParseFloatTypes, NonZeroNumber, ZeroNumber

(***************************************************************************)
(* esNumber (jcs/number.go) loses nothing: what it writes for the float    *)
(* read from a literal is read as the same float, zeros without a sign.    *)
(***************************************************************************)
THEOREM WrittenNumberIsRead ==
    ASSUME NEW n \in Literal, ~Overflows(n)
    PROVE  Value(EsNumber(ParseFloat(n)), "envelope") = Value(n, "envelope")
<1> DEFINE x == ParseFloat(n)
           m == EsNumber(x)
<1>1. x \in Decimals /\ x.point >= -323
  BY ParseFloatTypes
<1>2. x.point \in Int /\ x.neg \in BOOLEAN
      /\ x = [neg |-> x.neg, digits |-> x.digits, point |-> x.point]
  BY <1>1 DEF Decimals
<1> HIDE DEF x
<1>3. Value(n, "envelope") = [x EXCEPT !.neg = x.neg /\ x.digits # <<>>]
  BY DEF Value, x
<1>4. CASE x.digits # <<>>
  <2>1. Decimal(m) = x
    BY <1>1, <1>4, NonZeroNumber
  <2> HIDE DEF m
  <2>2. ~Underflows(m)
    BY <1>1, <1>2, <2>1 DEF Underflows
  <2>3. ParseFloat(m) = x
    BY <2>1, <2>2 DEF ParseFloat
  <2>4. Value(m, "envelope") = [x EXCEPT !.neg = x.neg /\ x.digits # <<>>]
    BY <2>3 DEF Value
  <2> QED BY <2>4, <1>3 DEF m, x
<1>5. CASE x.digits = <<>>
  <2>1. Decimal(m) = [neg |-> FALSE, digits |-> <<>>, point |-> 0]
    BY <1>1, <1>5, ZeroNumber
  <2> HIDE DEF m
  <2>2. ~Underflows(m)
    BY <2>1 DEF Underflows
  <2>3. ParseFloat(m) = [neg |-> FALSE, digits |-> <<>>, point |-> 0]
    BY <2>1, <2>2 DEF ParseFloat
  <2> DEFINE y == ParseFloat(m)
  <2>4. Value(m, "envelope") = [neg |-> FALSE, digits |-> <<>>, point |-> 0]
    <3>1. Value(m, "envelope") = [y EXCEPT !.neg = y.neg /\ y.digits # <<>>]
      BY DEF Value
    <3>2. y = [neg |-> FALSE, digits |-> <<>>, point |-> 0]
      BY <2>3
    <3> HIDE DEF y
    <3>3. (y.neg /\ y.digits # <<>>) = FALSE
      BY <3>2
    <3>4. Value(m, "envelope") = [y EXCEPT !.neg = FALSE]
      BY <3>1, <3>3
    <3> QED BY <3>2, <3>4
  <2>5. x.point = 0
    BY <1>1, <1>5 DEF Decimals
  <2>6. Value(n, "envelope") = [neg |-> FALSE, digits |-> <<>>, point |-> 0]
    BY <1>2, <1>3, <1>5, <2>5
  <2> QED BY <2>4, <2>6 DEF m, x
<1> QED BY <1>4, <1>5
=============================================================================
