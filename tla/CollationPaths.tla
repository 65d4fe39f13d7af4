--------------------------- MODULE CollationPaths ---------------------------
(***************************************************************************)
(* What a witness says stays what it is, however its path is led, and what *)
(* is related does not follow each other.                                  *)
(***************************************************************************)
EXTENDS CollationText, CollationOrder, FiniteSetTheorems, SequenceTheorems

-----------------------------------------------------------------------------
(* Functions defined by recursion on numbers.                              *)

\* f begins with a, and g makes every further value of the one before it.
Unrolls(f, K, S, a, g) ==
  f \in [0 .. K -> S] /\ f[0] = a /\ \A k \in 1 .. K : f[k] = g[k][f[k - 1]]

\* Functions on numbers can be defined by recursion.
LEMMA Recursion ==
  ASSUME NEW S, NEW a \in S, NEW C \in Nat, NEW g \in [Nat -> [S -> S]]
  PROVE  \E f : Unrolls(f, C, S, a, g)
<1> DEFINE B == {K \in Nat : ~ \E f : Unrolls(f, K, S, a, g)}
<1>1. SUFFICES ASSUME B # {} PROVE FALSE
  OBVIOUS
<1>2. PICK K \in B : \A j \in B : K <= j
  BY <1>1, Least
<1>3. K # 0
  <2>1. Unrolls([k \in 0 .. 0 |-> a], 0, S, a, g)
    BY DEF Unrolls
  <2>2. QED BY <1>2, <2>1
<1>4. K - 1 \in Nat /\ K - 1 \notin B
  BY <1>2, <1>3
<1>5. PICK f : Unrolls(f, K - 1, S, a, g)
  BY <1>4
<1> DEFINE h == [k \in 0 .. K |-> IF k = K THEN g[K][f[K - 1]] ELSE f[k]]
<1>6. /\ f \in [0 .. K - 1 -> S] /\ f[0] = a
      /\ \A k \in 1 .. K - 1 : f[k] = g[k][f[k - 1]]
  BY <1>5 DEF Unrolls
<1>7. f[K - 1] \in S /\ g[K] \in [S -> S] /\ K \in Nat
  BY <1>2, <1>4, <1>6
<1>8. h \in [0 .. K -> S] /\ h[0] = a
  BY <1>3, <1>6, <1>7
<1>9. ASSUME NEW k \in 1 .. K PROVE h[k] = g[k][h[k - 1]]
  <2>1. h[k - 1] = f[k - 1]
    BY <1>7
  <2>2. CASE k = K
    BY <1>7, <2>1, <2>2
  <2>3. CASE k # K
    BY <1>6, <1>7, <2>1, <2>3
  <2>4. QED BY <2>2, <2>3
<1> HIDE DEF h
<1>10. Unrolls(h, K, S, a, g)
  BY <1>8, <1>9 DEF Unrolls
<1>11. QED BY <1>2, <1>10

\* One step of a walk.
Further(s, q, lab) ==
  IF Last(q) # End /\ IsOne(NextOf(s, Last(q), lab))
  THEN Append(q, CHOOSE m \in NextOf(s, Last(q), lab) : TRUE) ELSE q

Walks(f, s, N, lab) ==
  /\ f \in [0 .. Cardinality(N) -> Seq(N) \ {<<>>}]
  /\ f[0] = <<Start>>
  /\ \A k \in 1 .. Cardinality(N) : f[k] = Further(s, f[k - 1], lab)

LEMMA WalkSteps ==
  ASSUME NEW s, NEW N, NEW lab, Start \in N, IsFiniteSet(N), IsGraph(s, N)
  PROVE  \E f : Walks(f, s, N, lab) /\ WalkOf(s, N, lab) = f[Cardinality(N)]
<1> DEFINE C == Cardinality(N)
           S == Seq(N) \ {<<>>}
           g == [k \in Nat |-> [q \in S |-> Further(s, q, lab)]]
           further == [q \in Seq(N) |->
             LET next == NextOf(s, Last(q), lab)
             IN  IF Last(q) # End /\ IsOne(next) THEN Append(q, CHOOSE m \in next : TRUE) ELSE q]
           walk[k \in 0 .. C] == IF k = 0 THEN <<Start>> ELSE further[walk[k - 1]]
<1>1. WalkOf(s, N, lab) = walk[C]
  BY DEF WalkOf
<1>2. walk = CHOOSE f : f = [k \in 0 .. C |-> IF k = 0 THEN <<Start>> ELSE further[f[k - 1]]]
  OBVIOUS
<1> HIDE DEF walk
<1>0. \A q \in S : further[q] = Further(s, q, lab)
  BY DEF Further
<1> HIDE DEF further
<1>3. \A q \in S : Further(s, q, lab) \in S
  <2>1. ASSUME NEW q \in S, IsOne(NextOf(s, Last(q), lab))
        PROVE  (CHOOSE m \in NextOf(s, Last(q), lab) : TRUE) \in N
    <3>1. NextOf(s, Last(q), lab) \subseteq N
      BY DEF NextOf, After, IsGraph
    <3>2. QED BY <2>1, <3>1 DEF IsOne
  <2>2. ASSUME NEW q \in S, NEW m \in N PROVE Append(q, m) \in S
    BY <2>2, AppendProperties
  <2>3. QED BY <2>1, <2>2 DEF Further
<1>4. g \in [Nat -> [S -> S]] /\ <<Start>> \in S /\ C \in Nat
  BY <1>3, FS_CardinalityType
<1>5. PICK f : Unrolls(f, C, S, <<Start>>, g)
  BY <1>4, Recursion
<1>6. f \in [0 .. C -> S] /\ f[0] = <<Start>> /\ \A k \in 1 .. C : f[k] = Further(s, f[k - 1], lab)
  <2>1. \A k \in Nat, q \in S : g[k][q] = Further(s, q, lab)
    OBVIOUS
  <2> HIDE DEF g, S
  <2>2. f \in [0 .. C -> S] /\ f[0] = <<Start>> /\ \A k \in 1 .. C : f[k] = g[k][f[k - 1]]
    BY <1>5 DEF Unrolls
  <2>3. \A k \in 1 .. C : k \in Nat /\ k - 1 \in 0 .. C
    BY <1>4
  <2>4. QED BY <2>1, <2>2, <2>3
<1>7. f = [k \in 0 .. C |-> IF k = 0 THEN <<Start>> ELSE further[f[k - 1]]]
  <2>1. \A k \in 0 .. C : k = 0 \/ (k \in 1 .. C /\ k - 1 \in 0 .. C)
    BY <1>4
  <2>2. \A k \in 0 .. C : f[k] = IF k = 0 THEN <<Start>> ELSE further[f[k - 1]]
    <3> HIDE DEF S
    <3> QED BY <1>0, <1>6, <2>1
  <2> HIDE DEF S
  <2>3. QED BY <1>6, <2>2
<1>8. walk = [k \in 0 .. C |-> IF k = 0 THEN <<Start>> ELSE further[walk[k - 1]]]
  BY <1>2, <1>7
<1>9. walk[0] = <<Start>> /\ \A k \in 1 .. C : walk[k] = further[walk[k - 1]]
  BY <1>4, <1>8
<1>10. walk \in [0 .. C -> S]
  <2> DEFINE B == {k \in 0 .. C : walk[k] \notin S}
  <2>1. SUFFICES B = {}
    BY <1>8
  <2>2. SUFFICES ASSUME B # {} PROVE FALSE
    OBVIOUS
  <2>3. B \in SUBSET Nat
    BY <1>4
  <2>4. PICK k \in B : \A j \in B : k <= j
    BY <2>2, <2>3, Least
  <2>5. k # 0
    BY <1>4, <1>9, <2>4
  <2>6. k \in 1 .. C /\ k - 1 \in 0 .. C /\ walk[k - 1] \in S
    BY <1>4, <2>4, <2>5
  <2>7. walk[k] = Further(s, walk[k - 1], lab)
    BY <1>0, <1>9, <2>6
  <2>8. QED BY <1>3, <2>4, <2>6, <2>7
<1>11. Walks(walk, s, N, lab)
  <2>1. \A k \in 1 .. C : k \in Nat /\ k - 1 \in 0 .. C
    BY <1>4
  <2> HIDE DEF S
  <2>2. \A k \in 1 .. C : walk[k] = Further(s, walk[k - 1], lab)
    BY <1>0, <1>9, <1>10, <2>1
  <2>3. QED BY <1>9, <1>10, <2>2 DEF Walks, S
<1>12. QED BY <1>1, <1>11

-----------------------------------------------------------------------------
(* What a list of texts joins.                                             *)

\* F[k] joins the first k of the n texts of c.
Joins(F, c, n) ==
  /\ F \in [0 .. n -> Seq(Word)] /\ F[0] = <<>>
  /\ \A k \in 1 .. n : F[k] = F[k - 1] \o c[k]

LEMMA JoinSteps ==
  ASSUME NEW ss \in Seq(Seq(Word))
  PROVE  \E F : Joins(F, ss, Len(ss)) /\ FlattenSeq(ss) = F[Len(ss)]
<1> DEFINE n == Len(ss)
           g == [k \in Nat |-> [q \in Seq(Word) |-> IF k + 1 \in 1 .. n THEN q \o ss[k + 1] ELSE q]]
           flatten[i \in 1 .. n] == IF i = 1 THEN ss[i] ELSE flatten[i - 1] \o ss[i]
<1>1. n \in Nat /\ \A i \in 1 .. n : ss[i] \in Seq(Word)
  BY LenProperties, ElementOfSeq
<1>2. CASE n = 0
  <2>1. ss = <<>>
    BY <1>2, EmptySeq
  <2>2. FlattenSeq(ss) = <<>> /\ <<>> \in Seq(Word)
    BY <1>2, <2>1 DEF FlattenSeq
  <2>3. Joins([k \in 0 .. 0 |-> <<>>], ss, n)
    BY <1>2, <2>2 DEF Joins
  <2>4. QED BY <1>2, <2>2, <2>3
<1>3. CASE n # 0
  <2>1. FlattenSeq(ss) = flatten[n]
    BY <1>3 DEF FlattenSeq
  <2>2. flatten = CHOOSE f : f = [i \in 1 .. n |-> IF i = 1 THEN ss[i] ELSE f[i - 1] \o ss[i]]
    OBVIOUS
  <2> HIDE DEF flatten
  <2>3. g \in [Nat -> [Seq(Word) -> Seq(Word)]]
    <3>1. \A k \in Nat, q \in Seq(Word) :
            (IF k + 1 \in 1 .. n THEN q \o ss[k + 1] ELSE q) \in Seq(Word)
      BY <1>1, ConcatProperties
    <3>2. QED BY <3>1
  <2>4. PICK f : Unrolls(f, n - 1, Seq(Word), ss[1], g)
    <3>1. ss[1] \in Seq(Word) /\ n - 1 \in Nat
      BY <1>1, <1>3
    <3> HIDE DEF n, g
    <3>2. QED BY <2>3, <3>1, Recursion
  <2>5. f[0] = ss[1] /\ \A k \in 1 .. n - 1 : f[k] = f[k - 1] \o ss[k + 1]
    <3>1. \A k \in 1 .. n - 1, q \in Seq(Word) : g[k][q] = q \o ss[k + 1]
      BY <1>1
    <3> HIDE DEF g
    <3>2. /\ f \in [0 .. n - 1 -> Seq(Word)] /\ f[0] = ss[1]
          /\ \A k \in 1 .. n - 1 : f[k] = g[k][f[k - 1]]
      BY <2>4 DEF Unrolls
    <3>3. \A k \in 1 .. n - 1 : k - 1 \in 0 .. n - 1
      BY <1>1
    <3>4. QED BY <3>1, <3>2, <3>3
  <2> DEFINE h == [i \in 1 .. n |-> f[i - 1]]
  <2>6. h = [i \in 1 .. n |-> IF i = 1 THEN ss[i] ELSE h[i - 1] \o ss[i]]
    <3>1. ASSUME NEW i \in 1 .. n PROVE h[i] = IF i = 1 THEN ss[i] ELSE h[i - 1] \o ss[i]
      <4>1. CASE i = 1
        BY <1>1, <2>5, <4>1
      <4>2. CASE i # 1
        <5>1. i - 1 \in 1 .. n - 1 /\ i - 1 \in 1 .. n /\ i - 1 + 1 = i
          BY <1>1, <4>2
        <5>2. f[i - 1] = f[i - 1 - 1] \o ss[i]
          BY <2>5, <5>1
        <5>3. h[i] = f[i - 1] /\ h[i - 1] = f[i - 1 - 1]
          BY <5>1
        <5>4. QED BY <4>2, <5>2, <5>3
      <4>3. QED BY <4>1, <4>2
    <3>2. QED BY <3>1
  <2> HIDE DEF h
  <2>7. flatten = [i \in 1 .. n |-> IF i = 1 THEN ss[i] ELSE flatten[i - 1] \o ss[i]]
    BY <2>2, <2>6
  <2> DEFINE F == [k \in 0 .. n |-> IF k = 0 THEN <<>> ELSE flatten[k]]
  <2>8. \A k \in 1 .. n : flatten[k] \in Seq(Word)
    <3> DEFINE B == {k \in 1 .. n : flatten[k] \notin Seq(Word)}
    <3>1. SUFFICES ASSUME B # {} PROVE FALSE
      OBVIOUS
    <3>2. B \in SUBSET Nat
      BY <1>1
    <3>3. PICK k \in B : \A j \in B : k <= j
      BY <3>1, <3>2, Least
    <3>4. k \in 1 .. n /\ flatten[k] = IF k = 1 THEN ss[k] ELSE flatten[k - 1] \o ss[k]
      BY <2>7, <3>3
    <3>5. k # 1
      BY <1>1, <3>3, <3>4
    <3>6. k - 1 \in 1 .. n /\ k - 1 \notin B
      BY <1>1, <3>3, <3>4, <3>5
    <3>7. flatten[k - 1] \in Seq(Word) /\ ss[k] \in Seq(Word)
      BY <1>1, <3>4, <3>6
    <3>8. flatten[k - 1] \o ss[k] \in Seq(Word)
      BY <3>7, ConcatProperties
    <3>9. QED BY <3>3, <3>4, <3>5, <3>8
  <2>9. Joins(F, ss, n)
    <3>1. <<>> \in Seq(Word)
      OBVIOUS
    <3>2. F \in [0 .. n -> Seq(Word)]
      BY <1>1, <2>8, <3>1
    <3>3. F[0] = <<>>
      BY <1>1
    <3>4. ASSUME NEW k \in 1 .. n PROVE F[k] = F[k - 1] \o ss[k]
      <4>1. flatten[k] = IF k = 1 THEN ss[k] ELSE flatten[k - 1] \o ss[k]
        BY <2>7
      <4>2. CASE k = 1
        <5>1. F[k] = ss[k] /\ F[k - 1] = <<>>
          BY <1>1, <4>1, <4>2
        <5>2. QED BY <1>1, <5>1, ConcatEmptySeq
      <4>3. CASE k # 1
        <5>1. F[k] = flatten[k] /\ F[k - 1] = flatten[k - 1]
          BY <1>1, <4>3
        <5>2. QED BY <4>1, <4>3, <5>1
      <4>4. QED BY <4>2, <4>3
    <3> HIDE DEF F
    <3>5. QED BY <3>2, <3>3, <3>4 DEF Joins
  <2>10. F[n] = flatten[n]
    BY <1>1, <1>3
  <2>11. QED BY <2>1, <2>9, <2>10
<1>4. QED BY <1>2, <1>3

\* d has from b on the l texts that c has from a on.
Alike(c, a, d, b, l) == \A i \in 1 .. l : c[a + i] = d[b + i]

\* d has from b on the n texts of c.
Within(c, n, d, b) == \A i \in 1 .. n : c[i] = d[b + i] /\ c[i] \in Seq(Word)

\* u is v and f.
IsBoth(u, v, f) == u = v \o f

\* Where two lists of texts agree for a stretch, what they join goes on alike.
LEMMA JoinAlong ==
  ASSUME NEW F, NEW c, NEW m \in Nat, Joins(F, c, m),
         NEW G, NEW d, NEW n \in Nat, Joins(G, d, n),
         NEW a \in Nat, NEW b \in Nat, NEW l \in Nat, a + l <= m, b + l <= n,
         F[a] = G[b], Alike(c, a, d, b, l)
  PROVE  F[a + l] = G[b + l]
<1>0. /\ \A k \in 1 .. m : F[k] = F[k - 1] \o c[k]
      /\ \A k \in 1 .. n : G[k] = G[k - 1] \o d[k]
  BY Zenon DEF Joins
<1> DEFINE B == {i \in Nat : i <= l /\ F[a + i] # G[b + i]}
<1>1. B \in SUBSET Nat
  OBVIOUS
<1>2. CASE B # {}
  <2>1. PICK i \in B : \A j \in B : i <= j
    BY <1>1, <1>2, Least
  <2>2. i \in Nat /\ i <= l /\ F[a + i] # G[b + i]
    OBVIOUS
  <2>3. i # 0
    BY <2>2
  <2>4. i - 1 \in Nat /\ i - 1 <= l /\ i - 1 \notin B
    BY <2>1, <2>2, <2>3
  <2>5. F[a + (i - 1)] = G[b + (i - 1)]
    BY <2>4
  <2>6. /\ a + i \in 1 .. m /\ a + i - 1 = a + (i - 1) /\ i \in 1 .. l
        /\ b + i \in 1 .. n /\ b + i - 1 = b + (i - 1)
    BY <2>2, <2>3
  <2> HIDE DEF B
  <2>7. PICK j \in 1 .. m : j = a + i /\ j - 1 = a + (i - 1)
    BY <2>6
  <2>8. PICK k \in 1 .. n : k = b + i /\ k - 1 = b + (i - 1)
    BY <2>6
  <2>9. F[j] = F[j - 1] \o c[j] /\ G[k] = G[k - 1] \o d[k]
    BY <1>0, Zenon
  <2>10. c[j] = d[k] /\ F[j - 1] = G[k - 1]
    BY <2>5, <2>6, <2>7, <2>8 DEF Alike
  <2>11. F[j] = G[k]
    BY <2>9, <2>10, Zenon
  <2>12. QED BY <2>2, <2>7, <2>8, <2>11, Zenon
<1>3. CASE B = {}
  <2>1. l \notin B
    BY <1>3
  <2>2. QED BY <2>1
<1>4. QED BY <1>2, <1>3

\* What a list joins of which another list is a stretch.
LEMMA JoinWithin ==
  ASSUME NEW F, NEW c, NEW m \in Nat, Joins(F, c, m),
         NEW G, NEW d, NEW n \in Nat, Joins(G, d, n),
         NEW b \in Nat, b + m <= n, Within(c, m, d, b)
  PROVE  IsBoth(G[b + m], G[b], F[m])
<1> DEFINE B == {i \in Nat : i <= m /\ G[b + i] # G[b] \o F[i]}
<1>1. B \in SUBSET Nat
  OBVIOUS
<1>2. b \in 0 .. n /\ G[b] \in Seq(Word) /\ F[0] = <<>>
  BY DEF Joins
<1>0. /\ \A k \in 1 .. m : F[k] = F[k - 1] \o c[k]
      /\ \A k \in 1 .. n : G[k] = G[k - 1] \o d[k]
      /\ \A k \in 0 .. m : F[k] \in Seq(Word)
  BY Zenon DEF Joins
<1>3. ASSUME B # {} PROVE G[b + m] = G[b] \o F[m]
  <2>1. PICK i \in B : \A j \in B : i <= j
    BY <1>1, <1>3, Least
  <2>2. i \in Nat /\ i <= m /\ G[b + i] # G[b] \o F[i]
    OBVIOUS
  <2>3. i # 0
    <3>1. G[b] \o <<>> = G[b]
      BY <1>2, ConcatEmptySeq
    <3>2. ASSUME i = 0 PROVE FALSE
      <4>1. b + i = b
        BY <3>2
      <4>2. QED BY <1>2, <2>2, <3>1, <3>2, <4>1, Zenon
    <3>3. QED BY <3>2
  <2>4. i - 1 \in Nat /\ i - 1 <= m /\ ~ (i <= i - 1)
    BY <2>2, <2>3
  <2>5. G[b + (i - 1)] = G[b] \o F[i - 1]
    BY <2>1, <2>4, Zenon
  <2>6. /\ i \in 1 .. m /\ i - 1 \in 0 .. m
        /\ b + i \in 1 .. n /\ b + i - 1 = b + (i - 1)
    BY <2>2, <2>3
  <2> HIDE DEF B
  <2>7. F[i] = F[i - 1] \o c[i] /\ F[i - 1] \in Seq(Word)
    BY <1>0, <2>6, Zenon
  <2>8. PICK k \in 1 .. n : k = b + i /\ k - 1 = b + (i - 1)
    BY <2>6
  <2>9. G[k] = G[k - 1] \o d[k]
    BY <1>0, Zenon
  <2>10. d[k] = c[i] /\ c[i] \in Seq(Word) /\ G[k - 1] = G[b] \o F[i - 1]
    BY <2>5, <2>6, <2>8 DEF Within
  <2>11. \A x, y, z \in Seq(Word) : (x \o y) \o z = x \o (y \o z)
    BY ConcatAssociative
  <2>12. (G[b] \o F[i - 1]) \o c[i] = G[b] \o (F[i - 1] \o c[i])
    BY <1>2, <2>7, <2>10, <2>11, Zenon
  <2>13. QED BY <2>2, <2>7, <2>8, <2>9, <2>10, <2>12, Zenon
<1>4. ASSUME B = {} PROVE G[b + m] = G[b] \o F[m]
  <2>1. m <= m
    OBVIOUS
  <2>2. QED BY <1>4, <2>1, Zenon
<1>5. G[b + m] = G[b] \o F[m]
  <2> HIDE DEF B
  <2>1. QED BY <1>3, <1>4, Zenon
<1>6. QED BY <1>5 DEF IsBoth

\* The parts that a text is divided into spell the text.
LEMMA DividedJoin ==
  ASSUME NEW t \in Seq(Word), NEW parts \in Divided(t), NEW H, Joins(H, parts, Len(parts))
  PROVE  H[Len(parts)] = t
<1>1. Len(t) \in Nat /\ H[0] = <<>> /\ \A k \in 1 .. Len(parts) : H[k] = H[k - 1] \o parts[k]
  BY LenProperties DEF Joins
<1>2. CASE parts \in {<<SubSeq(t, 1, i), SubSeq(t, i + 1, Len(t))>> : i \in 1 .. Len(t)}
  <2>1. PICK i \in 1 .. Len(t) : parts = <<SubSeq(t, 1, i), SubSeq(t, i + 1, Len(t))>>
    BY <1>2
  <2>2. Len(parts) = 2 /\ parts[1] = SubSeq(t, 1, i) /\ parts[2] = SubSeq(t, i + 1, Len(t))
    BY <2>1
  <2>3. H[1] = H[0] \o parts[1] /\ H[2] = H[1] \o parts[2]
    <3>1. 1 \in 1 .. Len(parts) /\ 2 \in 1 .. Len(parts)
      BY <2>2
    <3>2. H[1] = H[1 - 1] \o parts[1] /\ H[2] = H[2 - 1] \o parts[2]
      BY <1>1, <3>1, Zenon
    <3>3. 1 - 1 = 0 /\ 2 - 1 = 1
      OBVIOUS
    <3>4. QED BY <3>2, <3>3, Zenon
  <2>4. SubSeq(t, 1, i) \in Seq(Word)
    BY SubSeqProperties
  <2>5. H[1] = SubSeq(t, 1, i)
    BY <1>1, <2>2, <2>3, <2>4, ConcatEmptySeq
  <2>6. SubSeq(t, 1, i) \o SubSeq(t, i + 1, Len(t)) = SubSeq(t, 1, Len(t))
    BY <1>1, ConcatAdjacentSubSeq
  <2>7. SubSeq(t, 1, Len(t)) = t
    BY SubSeqFull
  <2>8. QED BY <2>2, <2>3, <2>5, <2>6, <2>7
<1>3. CASE parts = [i \in 1 .. Len(t) |-> <<t[i]>>]
  <2> DEFINE B == {i \in Nat : i <= Len(t) /\ H[i] # SubSeq(t, 1, i)}
  <2>1. Len(parts) = Len(t) /\ \A i \in 1 .. Len(t) : parts[i] = <<t[i]>>
    BY <1>1, <1>3
  <2>2. B = {}
    <3>1. B \in SUBSET Nat
      OBVIOUS
    <3>2. SUFFICES ASSUME B # {} PROVE FALSE
      OBVIOUS
    <3>3. PICK i \in B : \A j \in B : i <= j
      BY <3>1, <3>2, Least
    <3>4. i \in Nat /\ i <= Len(t) /\ H[i] # SubSeq(t, 1, i)
      OBVIOUS
    <3>5. i # 0
      <4>1. SubSeq(t, 1, 0) = <<>>
        BY SubSeqEmpty
      <4> HIDE DEF B
      <4>2. QED BY <1>1, <3>4, <4>1
    <3>6. i \in 1 .. Len(t) /\ i - 1 \in Nat /\ i - 1 \notin B
      BY <1>1, <3>3, <3>4, <3>5
    <3>7. H[i - 1] = SubSeq(t, 1, i - 1)
      BY <1>1, <3>6
    <3> HIDE DEF B
    <3>8. H[i] = H[i - 1] \o <<t[i]>>
      BY <1>1, <2>1, <3>6
    <3>9. SubSeq(t, 1, i) = SubSeq(t, 1, i - 1) \o <<t[i]>>
      BY <1>1, <3>6, SubSeqRecursiveSecond
    <3>10. QED BY <3>4, <3>7, <3>8, <3>9
  <2>3. H[Len(t)] = SubSeq(t, 1, Len(t))
    BY <1>1, <2>2
  <2>4. QED BY <2>1, <2>3, SubSeqFull
<1>4. QED BY <1>2, <1>3 DEF Divided

-----------------------------------------------------------------------------
(* The way of a witness, and the walk that finds it.                       *)

\* q leads from a along the base text of w, with one way on from each reading
\* but its last.
Leads(s, w, q, n) ==
  /\ q[1] = Start
  /\ \A i \in 1 .. n - 1 : q[i] # End /\ \A y : Has(s, q[i], y, w) <=> y = q[i + 1]

\* It leads to the end.
Way(s, N, w, q, n) ==
  n \in Nat \ {0} /\ q \in [1 .. n -> N] /\ q[n] = End /\ Leads(s, w, q, n)

LEMMA NextHas ==
  ASSUME NEW s, NEW N, IsGraph(s, N), NEW x, NEW w
  PROVE  \A m : m \in NextOf(s, x, <<w, Base>>) <=> Has(s, x, m, w)
<1>1. \A m : m \in After(s, x) <=> <<x, m>> \in DOMAIN s
  <2>1. \A p \in DOMAIN s : p = <<p[1], p[2]>>
    BY DEF IsGraph
  <2>2. QED BY <2>1 DEF After
<1>2. NextOf(s, x, <<w, Base>>) = {m \in After(s, x) : <<w, Base>> \in s[<<x, m>>]}
  BY DEF NextOf
<1>3. QED BY <1>1, <1>2 DEF Has

\* One more step leads on.
LEMMA FurtherLeads ==
  ASSUME NEW s, NEW N, IsGraph(s, N), NEW w, NEW q \in Seq(N) \ {<<>>}, Leads(s, w, q, Len(q))
  PROVE  Leads(s, w, Further(s, q, <<w, Base>>), Len(Further(s, q, <<w, Base>>)))
<1> DEFINE next == NextOf(s, Last(q), <<w, Base>>)
<1>1. CASE ~ (Last(q) # End /\ IsOne(next))
  <2>1. Further(s, q, <<w, Base>>) = q
    BY <1>1 DEF Further
  <2>2. QED BY <2>1
<1>2. CASE Last(q) # End /\ IsOne(next)
  <2>1. PICK m : next = {m}
    BY <1>2 DEF IsOne
  <2>2. Further(s, q, <<w, Base>>) = Append(q, m)
    BY <1>2, <2>1 DEF Further
  <2>3. \A y : Has(s, Last(q), y, w) <=> y = m
    BY <2>1, NextHas
  <2>4. m \in N
    <3>1. <<Last(q), m>> \in DOMAIN s
      BY <2>3 DEF Has
    <3>2. DOMAIN s \subseteq N \X N
      BY DEF IsGraph
    <3>3. QED BY <3>1, <3>2
  <2>5. Len(q) \in Nat /\ Len(q) > 0 /\ Last(q) = q[Len(q)]
    BY EmptySeq, LenProperties DEF Last
  <2> DEFINE r == Append(q, m)
  <2>6. /\ Len(r) = Len(q) + 1 /\ r[Len(q) + 1] = m
        /\ \A i \in 1 .. Len(q) : r[i] = q[i]
    BY <2>4, AppendProperties
  <2> HIDE DEF r, next
  <2>7. r[1] = Start
    BY <2>5, <2>6 DEF Leads
  <2>8. ASSUME NEW i \in 1 .. Len(r) - 1
        PROVE  r[i] # End /\ \A y : Has(s, r[i], y, w) <=> y = r[i + 1]
    <3>1. CASE i = Len(q)
      <4>1. r[i] = Last(q) /\ r[i + 1] = m
        BY <2>5, <2>6, <3>1
      <4>2. QED BY <1>2, <2>3, <4>1
    <3>2. CASE i # Len(q)
      <4>1. i \in 1 .. Len(q) - 1 /\ i \in 1 .. Len(q) /\ i + 1 \in 1 .. Len(q)
        BY <2>5, <2>6, <3>2
      <4>2. r[i] = q[i] /\ r[i + 1] = q[i + 1]
        BY <2>6, <4>1
      <4>3. QED BY <4>1, <4>2 DEF Leads
    <3>3. QED BY <3>1, <3>2
  <2>9. Leads(s, w, r, Len(r))
    BY <2>7, <2>8 DEF Leads
  <2>10. QED BY <2>2, <2>9 DEF r
<1>3. QED BY <1>1, <1>2

\* A walk that arrives has found a way.
LEMMA WalkFinds ==
  ASSUME NEW s, NEW N, Start \in N, IsFiniteSet(N), IsGraph(s, N), NEW w,
         Last(WalkOf(s, N, <<w, Base>>)) = End
  PROVE  LET q == WalkOf(s, N, <<w, Base>>) IN q \in Seq(N) /\ Way(s, N, w, q, Len(q))
<1> DEFINE C == Cardinality(N)
           q == WalkOf(s, N, <<w, Base>>)
<1>1. C \in Nat
  BY FS_CardinalityType
<1>2. PICK f : Walks(f, s, N, <<w, Base>>) /\ q = f[C]
  BY WalkSteps
<1>3. /\ \A k \in 0 .. C : f[k] \in Seq(N) \ {<<>>}
      /\ f[0] = <<Start>>
      /\ \A k \in 1 .. C : f[k] = Further(s, f[k - 1], <<w, Base>>)
  BY <1>2 DEF Walks
<1> HIDE DEF C, q
<1> DEFINE B == {k \in 0 .. C : ~ Leads(s, w, f[k], Len(f[k]))}
<1>4. B = {}
  <2>1. SUFFICES ASSUME B # {} PROVE FALSE
    OBVIOUS
  <2>2. B \in SUBSET Nat
    BY <1>1
  <2>3. PICK k \in B : \A j \in B : k <= j
    BY <2>1, <2>2, Least
  <2>4. k # 0
    <3>1. Leads(s, w, <<Start>>, Len(<<Start>>))
      BY DEF Leads
    <3>2. QED BY <1>3, <2>3, <3>1
  <2>5. k \in 1 .. C /\ k - 1 \in 0 .. C /\ k - 1 \notin B
    BY <1>1, <2>3, <2>4
  <2>6. Leads(s, w, f[k - 1], Len(f[k - 1])) /\ f[k - 1] \in Seq(N) \ {<<>>}
    BY <1>3, <2>5
  <2>7. Leads(s, w, Further(s, f[k - 1], <<w, Base>>), Len(Further(s, f[k - 1], <<w, Base>>)))
    BY <2>6, FurtherLeads
  <2>8. QED BY <1>3, <2>3, <2>5, <2>7
<1>5. C \in 0 .. C
  BY <1>1
<1>6. q \in Seq(N) \ {<<>>} /\ Leads(s, w, q, Len(q))
  BY <1>2, <1>3, <1>4, <1>5
<1>7. Len(q) \in Nat \ {0} /\ q \in [1 .. Len(q) -> N] /\ Last(q) = q[Len(q)]
  BY <1>6, EmptySeq, LenProperties DEF Last
<1>8. q[Len(q)] = End
  BY <1>7 DEF q
<1>9. q \in Seq(N) /\ Way(s, N, w, q, Len(q))
  BY <1>6, <1>7, <1>8 DEF Way
<1>10. QED BY <1>9 DEF q

\* No reading is on a way twice: what follows would be on it for ever.
LEMMA WayOnce ==
  ASSUME NEW s, NEW N, NEW w, NEW q, NEW n, Way(s, N, w, q, n),
         NEW i \in 1 .. n, NEW j \in 1 .. n, q[i] = q[j]
  PROVE  i = j
<1>1. n \in Nat /\ q[n] = End /\ \A k \in 1 .. n - 1 : q[k] # End
  BY DEF Way, Leads
<1>2. \A k \in 1 .. n - 1 : Has(s, q[k], q[k + 1], w)
  BY DEF Way, Leads
<1>3. \A k \in 1 .. n - 1 : \A y : Has(s, q[k], y, w) => y = q[k + 1]
  BY DEF Way, Leads
<1>4. ASSUME NEW a \in 1 .. n, NEW b \in 1 .. n, a < b, q[a] = q[b] PROVE FALSE
  <2> DEFINE B == {k \in Nat : b + k <= n /\ q[a + k] # q[b + k]}
  <2>1. B = {}
    <3>1. SUFFICES ASSUME B # {} PROVE FALSE
      OBVIOUS
    <3>2. PICK k \in B : \A m \in B : k <= m
      BY <3>1, Least
    <3>3. k # 0
      BY <1>4, <3>2
    <3>4. k - 1 \in Nat /\ b + (k - 1) <= n /\ k - 1 \notin B
      BY <1>1, <3>2, <3>3
    <3>5. q[a + (k - 1)] = q[b + (k - 1)]
      BY <3>4
    <3>6. PICK c \in 1 .. n - 1, d \in 1 .. n - 1 :
            c = a + (k - 1) /\ d = b + (k - 1) /\ c + 1 = a + k /\ d + 1 = b + k
      BY <1>1, <1>4, <3>2, <3>3
    <3>7. q[c] = q[d] /\ q[c + 1] # q[d + 1]
      BY <3>2, <3>5, <3>6
    <3>8. Has(s, q[d], q[d + 1], w)
      BY <1>2, Zenon
    <3>9. QED BY <1>3, <3>7, <3>8, Zenon
  <2>2. n - b \in Nat /\ b + (n - b) = n /\ a + (n - b) \in 1 .. n - 1
    BY <1>1, <1>4
  <2>3. q[a + (n - b)] = q[n]
    BY <2>1, <2>2
  <2>4. QED BY <1>1, <2>2, <2>3
<1>5. ~ (i < j) /\ ~ (j < i)
  BY <1>4
<1>6. QED BY <1>1, <1>5

\* A way is no longer than there are readings.
LEMMA WayShort ==
  ASSUME NEW s, NEW N, IsFiniteSet(N), NEW w, NEW q, NEW n, Way(s, N, w, q, n)
  PROVE  n <= Cardinality(N)
<1>1. n \in Nat \ {0} /\ q \in [1 .. n -> N]
  BY DEF Way
<1>2. IsFiniteSet(1 .. n) /\ Cardinality(1 .. n) = n
  BY <1>1, FS_Interval
<1>3. Cardinality(N) \in Nat
  BY FS_CardinalityType
<1>4. SUFFICES ASSUME Cardinality(N) < n PROVE FALSE
  BY <1>1, <1>3
<1>5. \E i, j \in 1 .. n : i # j /\ q[i] = q[j]
  BY <1>1, <1>2, <1>4, FS_PigeonHole
<1>6. QED BY <1>5, WayOnce

\* The walk finds the way there is.
LEMMA WayWalked ==
  ASSUME NEW s, NEW N, Start \in N, IsFiniteSet(N), IsGraph(s, N),
         NEW w, NEW q, NEW n, Way(s, N, w, q, n)
  PROVE  WalkOf(s, N, <<w, Base>>) = q /\ q \in Seq(N) /\ Len(q) = n
<1> DEFINE C == Cardinality(N)
<1>1. C \in Nat /\ n <= C
  BY FS_CardinalityType, WayShort
<1>2. PICK f : Walks(f, s, N, <<w, Base>>) /\ WalkOf(s, N, <<w, Base>>) = f[C]
  BY WalkSteps
<1>3. /\ \A k \in 0 .. C : f[k] \in Seq(N) \ {<<>>}
      /\ f[0] = <<Start>>
      /\ \A k \in 1 .. C : f[k] = Further(s, f[k - 1], <<w, Base>>)
  BY <1>2 DEF Walks
<1>4. /\ n \in Nat \ {0} /\ q \in [1 .. n -> N] /\ q[1] = Start /\ q[n] = End
      /\ \A i \in 1 .. n - 1 : q[i] # End
      /\ \A i \in 1 .. n - 1 : \A y : Has(s, q[i], y, w) <=> y = q[i + 1]
  BY DEF Way, Leads
<1> HIDE DEF C
<1> DEFINE B == {k \in 0 .. n - 1 : ~ (Len(f[k]) = k + 1 /\ \A i \in 1 .. k + 1 : f[k][i] = q[i])}
<1>5. B = {}
  <2>1. SUFFICES ASSUME B # {} PROVE FALSE
    OBVIOUS
  <2>2. B \in SUBSET Nat
    BY <1>4
  <2>3. PICK k \in B : \A j \in B : k <= j
    BY <2>1, <2>2, Least
  <2>4. k \in 0 .. n - 1 /\ ~ (Len(f[k]) = k + 1 /\ \A i \in 1 .. k + 1 : f[k][i] = q[i])
    OBVIOUS
  <2>5. k # 0
    <3>1. Len(<<Start>>) = 0 + 1 /\ \A i \in 1 .. 0 + 1 : <<Start>>[i] = q[i]
      BY <1>4
    <3> HIDE DEF B
    <3>2. QED BY <1>3, <2>4, <3>1
  <2>6. /\ k \in 1 .. n - 1 /\ k - 1 \in 0 .. n - 1 /\ k - 1 \notin B
        /\ k \in 1 .. C /\ k - 1 \in 0 .. C
    BY <1>1, <1>4, <2>3, <2>4, <2>5
  <2>7. PICK p \in Seq(N) \ {<<>>} : p = f[k - 1]
    BY <1>3, <2>6
  <2>8. Len(p) = k /\ \A i \in 1 .. k : p[i] = q[i]
    <3>1. k - 1 + 1 = k
      BY <2>6
    <3>2. Len(f[k - 1]) = k - 1 + 1 /\ \A i \in 1 .. k - 1 + 1 : f[k - 1][i] = q[i]
      BY <2>6
    <3> HIDE DEF B
    <3>3. QED BY <2>7, <3>1, <3>2
  <2> HIDE DEF B
  <2>9. Last(p) = q[k] /\ q[k + 1] \in N
    BY <1>4, <2>6, <2>8 DEF Last
  <2>10. \A m : m \in NextOf(s, Last(p), <<w, Base>>) <=> m = q[k + 1]
    <3>1. \A m : Has(s, q[k], m, w) <=> m = q[k + 1]
      BY <1>4, <2>6
    <3>2. QED BY <2>9, <3>1, NextHas
  <2>11. NextOf(s, Last(p), <<w, Base>>) = {q[k + 1]}
    BY <2>10
  <2>12. f[k] = Append(p, q[k + 1])
    <3>1. f[k] = Further(s, p, <<w, Base>>)
      BY <1>3, <2>6, <2>7
    <3>2. Last(p) # End
      BY <1>4, <2>6, <2>9
    <3>3. QED BY <2>11, <3>1, <3>2 DEF Further, IsOne
  <2>13. Len(f[k]) = k + 1 /\ f[k][k + 1] = q[k + 1] /\ \A i \in 1 .. k : f[k][i] = q[i]
    BY <2>8, <2>9, <2>12, AppendProperties
  <2>14. QED BY <2>4, <2>6, <2>13
<1>6. Len(f[n - 1]) = n /\ \A i \in 1 .. n : f[n - 1][i] = q[i]
  <2>1. n - 1 \in 0 .. n - 1 /\ n - 1 + 1 = n
    BY <1>4
  <2>2. Len(f[n - 1]) = n - 1 + 1 /\ \A i \in 1 .. n - 1 + 1 : f[n - 1][i] = q[i]
    BY <1>5, <2>1
  <2> HIDE DEF B
  <2>3. QED BY <2>1, <2>2
<1>7. f[n - 1] \in Seq(N)
  BY <1>1, <1>3, <1>4
<1>8. f[n - 1] = q
  BY <1>4, <1>6, <1>7, LenProperties
<1> HIDE DEF B
<1> DEFINE D == {k \in n - 1 .. C : f[k] # q}
<1>9. D = {}
  <2>1. SUFFICES ASSUME D # {} PROVE FALSE
    OBVIOUS
  <2>2. D \in SUBSET Nat
    BY <1>4
  <2>3. PICK k \in D : \A j \in D : k <= j
    BY <2>1, <2>2, Least
  <2>4. k # n - 1
    BY <1>8, <2>3
  <2>5. k \in 1 .. C /\ k - 1 \in n - 1 .. C /\ k - 1 \notin D
    BY <1>1, <1>4, <2>3, <2>4
  <2>6. f[k - 1] = q /\ f[k] = Further(s, q, <<w, Base>>)
    BY <1>3, <2>5
  <2>7. Last(q) = End
    BY <1>4, <1>6, <1>8 DEF Last
  <2>8. f[k] = q
    BY <2>6, <2>7 DEF Further
  <2>9. QED BY <2>3, <2>8
<1>10. f[C] = q
  BY <1>1, <1>4, <1>9
<1>11. QED BY <1>2, <1>6, <1>7, <1>8, <1>10

\* What a walk spells.
Spelling(x, q) == FlattenSeq([i \in DOMAIN q |-> x[q[i]]])

\* The texts of the readings on a way.
Told(x, q, n) == [i \in 1 .. n |-> x[q[i]]]

\* The way q with the texts x says what the way r says with the texts y.
SameTale(x, q, n, y, r, m) ==
  \A F, G : Joins(F, Told(x, q, n), n) /\ Joins(G, Told(y, r, m), m) => F[n] = G[m]

\* What w says in s it says in t as well.
Retold(s, N, x, t, M, y, w) ==
  \A q, n : Way(s, N, w, q, n) => \E r, m : Way(t, M, w, r, m) /\ SameTale(x, q, n, y, r, m)

LEMMA Spelt ==
  ASSUME NEW s, NEW N, NEW w, NEW q, NEW n, Way(s, N, w, q, n), NEW x \in [N -> Seq(Word)]
  PROVE  \E F : /\ Joins(F, Told(x, q, n), n)
                /\ Spelling(x, q) = F[n]
<1>1. n \in Nat /\ q \in [1 .. n -> N] /\ DOMAIN q = 1 .. n
  BY DEF Way
<1> DEFINE ss == [i \in 1 .. n |-> x[q[i]]]
<1>2. ss \in [1 .. n -> Seq(Word)]
  BY <1>1
<1>3. ss \in Seq(Seq(Word)) /\ Len(ss) = n
  BY <1>1, <1>2
<1>4. Told(x, q, n) = ss /\ [i \in DOMAIN q |-> x[q[i]]] = ss
  BY <1>1 DEF Told
<1> HIDE DEF ss
<1>5. QED BY <1>3, <1>4, JoinSteps DEF Spelling

\* A graph with its texts.
Fit(s, N, x) == Start \in N /\ IsFiniteSet(N) /\ IsGraph(s, N) /\ x \in [N -> Seq(Word)]

\* A text that is told again is found again.
LEMMA RetoldSays ==
  ASSUME NEW s, NEW N, NEW x, Fit(s, N, x), NEW t, NEW M, NEW y, Fit(t, M, y),
         NEW w, Retold(s, N, x, t, M, y, w), Last(WalkOf(s, N, <<w, Base>>)) = End
  PROVE  /\ Last(WalkOf(t, M, <<w, Base>>)) = End
         /\ Spelling(y, WalkOf(t, M, <<w, Base>>)) = Spelling(x, WalkOf(s, N, <<w, Base>>))
         /\ WalkOf(s, N, <<w, Base>>) \in Seq(N) /\ WalkOf(t, M, <<w, Base>>) \in Seq(M)
<1>0. /\ Start \in N /\ IsFiniteSet(N) /\ IsGraph(s, N) /\ x \in [N -> Seq(Word)]
      /\ Start \in M /\ IsFiniteSet(M) /\ IsGraph(t, M) /\ y \in [M -> Seq(Word)]
  BY DEF Fit
<1>1. PICK q : q = WalkOf(s, N, <<w, Base>>)
  OBVIOUS
<1>2. Way(s, N, w, q, Len(q))
  BY <1>0, <1>1, WalkFinds
<1>3. PICK r, m : Way(t, M, w, r, m) /\ SameTale(x, q, Len(q), y, r, m)
  BY <1>2 DEF Retold
<1>4. r = WalkOf(t, M, <<w, Base>>) /\ Len(r) = m
  BY <1>0, <1>3, WayWalked
<1>5. Last(r) = End
  BY <1>3, <1>4 DEF Way, Last
<1>6. PICK F : Joins(F, Told(x, q, Len(q)), Len(q)) /\ Spelling(x, q) = F[Len(q)]
  BY <1>0, <1>2, Spelt
<1>7. PICK G : Joins(G, Told(y, r, m), m) /\ Spelling(y, r) = G[m]
  BY <1>0, <1>3, Spelt
<1>8. F[Len(q)] = G[m]
  BY <1>3, <1>6, <1>7 DEF SameTale
<1>9. q \in Seq(N) /\ r \in Seq(M)
  <2>1. q \in [1 .. Len(q) -> N] /\ Len(q) \in Nat
    BY <1>2 DEF Way
  <2>2. r \in [1 .. m -> M] /\ m \in Nat
    BY <1>3 DEF Way
  <2>3. QED BY <2>1, <2>2, SeqDef
<1>10. QED BY <1>1, <1>4, <1>5, <1>6, <1>7, <1>8, <1>9

LEMMA StillSaid ==
  ASSUME IInv, IInv', \A w \in Sigil : Retold(seq, node, text, seq', node', text', w)
  PROVE  StillSay(Sigil \X {Base})
<1>1. Fit(seq, node, text)
  BY CollationAssumption, FS_Subset DEF IInv, TypeOK, Fit
<1>2. Fit(seq', node', text')
  BY CollationAssumption, FS_Subset DEF IInv, TypeOK, Fit
<1>3. ASSUME NEW lab \in Sigil \X {Base}, Arrives(lab)
      PROVE  Arrives(lab)' /\ TextOf(lab)' = TextOf(lab)
  <2>1. PICK w \in Sigil : lab = <<w, Base>>
    OBVIOUS
  <2>2. Last(WalkOf(seq, node, <<w, Base>>)) = End /\ Retold(seq, node, text, seq', node', text', w)
    BY <1>3, <2>1 DEF Arrives
  <2>a. ASSUME NEW t, NEW M, NEW y, Fit(t, M, y), Retold(seq, node, text, t, M, y, w)
        PROVE  /\ Last(WalkOf(t, M, <<w, Base>>)) = End
               /\ Spelling(y, WalkOf(t, M, <<w, Base>>))
                    = Spelling(text, WalkOf(seq, node, <<w, Base>>))
               /\ WalkOf(seq, node, <<w, Base>>) \in Seq(node)
               /\ WalkOf(t, M, <<w, Base>>) \in Seq(M)
    BY <1>1, <2>2, <2>a, RetoldSays, SMT
  <2>3. /\ Last(WalkOf(seq', node', <<w, Base>>)) = End
        /\ Spelling(text', WalkOf(seq', node', <<w, Base>>))
             = Spelling(text, WalkOf(seq, node, <<w, Base>>))
        /\ WalkOf(seq, node, <<w, Base>>) \in Seq(node)
        /\ WalkOf(seq', node', <<w, Base>>) \in Seq(node')
    BY <1>2, <2>2, <2>a, Zenon
  <2>4. \A q \in Seq(node) : Spelled[q] = Spelling(text, q)
    BY DEF Spelled, Spelling
  <2>5. \A q \in Seq(node') : Spelled'[q] = Spelling(text', q)
    BY DEF Spelled, Spelling
  <2>6. TextOf(lab) = Spelling(text, WalkOf(seq, node, <<w, Base>>))
    BY <2>1, <2>3, <2>4, Zenon DEF TextOf
  <2>7. TextOf(lab)' = Spelling(text', WalkOf(seq', node', <<w, Base>>))
    BY <2>1, <2>3, <2>5, Zenon DEF TextOf
  <2>8. QED BY <2>1, <2>3, <2>6, <2>7 DEF Arrives
<1>4. QED BY <1>3 DEF StillSay

\* The same readings, or others of the same texts, say the same.
LEMMA SameTexts ==
  ASSUME NEW x, NEW q, NEW y, NEW r, NEW n \in Nat, \A i \in 1 .. n : x[q[i]] = y[r[i]]
  PROVE  SameTale(x, q, n, y, r, n)
<1>1. Told(x, q, n) = Told(y, r, n)
  BY DEF Told
<1>2. ASSUME NEW F, NEW G, Joins(F, Told(x, q, n), n), Joins(G, Told(x, q, n), n)
      PROVE  F[n] = G[n]
  <2> DEFINE c == Told(x, q, n)
  <2>1. F[0] = G[0]
    BY <1>2 DEF Joins
  <2>2. Alike(c, 0, c, 0, n)
    BY DEF Alike
  <2> HIDE DEF c
  <2>3. Joins(F, c, n) /\ Joins(G, c, n) /\ 0 + n <= n /\ 0 \in Nat
    BY <1>2 DEF c
  <2>4. F[0 + n] = G[0 + n]
    BY <2>1, <2>2, <2>3, JoinAlong
  <2>5. QED BY <2>4
<1>3. QED BY <1>1, <1>2 DEF SameTale

-----------------------------------------------------------------------------
(* Duplicating.                                                            *)

\* No base text goes on behind the end.
EndsLast == \A y \in Reading, w \in Sigil : ~ Has(seq, End, y, w)

\* In s, w runs from p through r to m; in t it runs through c instead, which no
\* witness was on.
Rerouted(s, t, w, p, r, c, m) ==
  /\ \A x : Has(s, x, r, w) <=> x = p
  /\ \A y : Has(s, r, y, w) <=> y = m
  /\ \A y : ~ Has(s, c, y, w) /\ ~ Has(s, y, c, w)
  /\ \A x, y : Has(t, x, y, w) <=>
                  /\ Has(s, x, y, w) \/ (x = p /\ y = c) \/ (x = c /\ y = m)
                  /\ ~ (x = p /\ y = r) /\ ~ (x = r /\ y = m)

\* So is its way.
LEMMA RerouteWay ==
  ASSUME NEW s, NEW t, NEW w, NEW N, NEW q, NEW n, Way(s, N, w, q, n),
         NEW p, NEW m, NEW r, NEW c \in N, r # Start, c # End, Start # End,
         Rerouted(s, t, w, p, r, c, m), \A y : ~ Has(s, End, y, w)
  PROVE  Way(t, N, w, [i \in 1 .. n |-> IF q[i] = r THEN c ELSE q[i]], n)
<1> DEFINE k == [i \in 1 .. n |-> IF q[i] = r THEN c ELSE q[i]]
<1>0. /\ \A x : Has(s, x, r, w) <=> x = p
      /\ \A y : Has(s, r, y, w) <=> y = m
      /\ \A y : ~ Has(s, c, y, w) /\ ~ Has(s, y, c, w)
      /\ \A x, y : Has(t, x, y, w) <=>
                      /\ Has(s, x, y, w) \/ (x = p /\ y = c) \/ (x = c /\ y = m)
                      /\ ~ (x = p /\ y = r) /\ ~ (x = r /\ y = m)
  BY DEF Rerouted
<1>1. /\ n \in Nat \ {0} /\ q \in [1 .. n -> N] /\ q[1] = Start /\ q[n] = End
      /\ \A i \in 1 .. n - 1 : q[i] # End
      /\ \A i \in 1 .. n - 1 : \A y : Has(s, q[i], y, w) <=> y = q[i + 1]
  BY DEF Way, Leads
<1>2. k \in [1 .. n -> N] /\ \A i \in 1 .. n : k[i] = IF q[i] = r THEN c ELSE q[i]
  BY <1>1
<1> HIDE DEF k
<1>3. r # End
  <2>1. Has(s, r, m, w)
    BY <1>0
  <2>2. QED BY <2>1
<1>4. k[1] = Start /\ k[n] = End
  BY <1>1, <1>2, <1>3
<1>5. ASSUME NEW i \in 1 .. n - 1
      PROVE  k[i] # End /\ \A y : Has(t, k[i], y, w) <=> y = k[i + 1]
  <2>1. /\ i \in 1 .. n /\ i + 1 \in 1 .. n /\ i # i + 1 /\ q[i] # End
        /\ \A y : Has(s, q[i], y, w) <=> y = q[i + 1]
    <3>1. i \in 1 .. n /\ i + 1 \in 1 .. n /\ i # i + 1
      BY <1>1
    <3>2. QED BY <1>1, <3>1, Zenon
  <2>2. Has(s, q[i], q[i + 1], w) /\ q[i] # c /\ q[i] # q[i + 1]
    BY <1>0, <2>1, WayOnce
  <2>3. k[i] = (IF q[i] = r THEN c ELSE q[i]) /\ k[i + 1] = (IF q[i + 1] = r THEN c ELSE q[i + 1])
    BY <1>2, <2>1
  <2>4. PICK a, b : a = q[i] /\ b = q[i + 1]
    OBVIOUS
  <2>5. /\ Has(s, a, b, w) /\ a # c /\ a # b /\ a # End /\ \A y : Has(s, a, y, w) <=> y = b
        /\ k[i] = (IF a = r THEN c ELSE a) /\ k[i + 1] = (IF b = r THEN c ELSE b)
    BY <2>1, <2>2, <2>3, <2>4
  <2>6. CASE a = r
    <3>1. b = m /\ p # c /\ k[i] = c /\ k[i + 1] = m
      <4>1. Has(s, p, r, w)
        BY <1>0
      <4>2. QED BY <1>0, <2>5, <2>6, <4>1
    <3>2. \A y : Has(t, c, y, w) <=> y = m
      BY <1>0, <2>5, <2>6, <3>1
    <3>3. QED BY <3>1, <3>2
  <2>7. CASE a # r /\ b = r
    <3>1. a = p /\ k[i] = a /\ k[i + 1] = c
      BY <1>0, <2>5, <2>7
    <3>2. \A y : Has(t, a, y, w) <=> y = c
      BY <1>0, <2>5, <2>7, <3>1
    <3>3. QED BY <2>5, <3>1, <3>2
  <2>8. CASE a # r /\ b # r
    <3>1. a # p /\ k[i] = a /\ k[i + 1] = b
      BY <1>0, <2>5, <2>8
    <3>2. \A y : Has(t, a, y, w) <=> y = b
      BY <1>0, <2>5, <2>8, <3>1
    <3>3. QED BY <2>5, <3>1, <3>2
  <2>9. QED BY <2>6, <2>7, <2>8
<1>6. Way(t, N, w, k, n)
  BY <1>1, <1>2, <1>4, <1>5 DEF Way, Leads
<1>7. QED BY <1>6 DEF k

Orig(n) == IF n \in node THEN n ELSE dup.from[n]

\* The way of w in the open transaction passes the same readings or copies of them.
Carried(w) ==
  \A q, n : Way(seq, node, w, q, n) =>
    \E r : Way(dup.seq, DupNode, w, r, n) /\ \A i \in 1 .. n : Orig(r[i]) = q[i]

\* A copy that is being filled is not yet on the way of any witness that it is
\* still to get.
AllCarried ==
  \A w \in Sigil :
    /\ Carried(w)
    /\ \A y : ~ Has(dup.seq, End, y, w)
    /\ <<w, Base>> \in dup.todo =>
         \A y : ~ Has(dup.seq, dup.copy, y, w) /\ ~ Has(dup.seq, y, dup.copy, w)

TInv == IInv /\ (EndsLast /\ dup # Closed => AllCarried)

LEMMA DupOpenCarries ==
  ASSUME IInv, EndsLast, NEW wits \in SUBSET Label, DupOpen(wits)
  PROVE  AllCarried'
<1>1. /\ dup'.seq = seq /\ dup'.from = <<>> /\ dup'.todo = {} /\ seq' = seq /\ node' = node
  BY DEF DupOpen
<1>2. DupNode' = node
  BY <1>1 DEF DupNode
<1>3. ASSUME NEW w \in Sigil, NEW y PROVE ~ Has(seq, End, y, w)
  <2>1. Has(seq, End, y, w) => y \in Reading
    BY DEF Has, IInv, TypeOK, IsGraph
  <2>2. QED BY <2>1 DEF EndsLast
<1>4. ASSUME NEW w, NEW q, NEW n, Way(seq, node, w, q, n)
      PROVE  Way(seq, node, w, q, n) /\ \A i \in 1 .. n : Orig(q[i])' = q[i]
  <2>1. q \in [1 .. n -> node]
    BY <1>4 DEF Way
  <2>2. QED BY <1>1, <1>4, <2>1 DEF Orig
<1>5. ASSUME NEW w \in Sigil PROVE Carried(w)'
  BY <1>1, <1>2, <1>4 DEF Carried
<1>6. QED BY <1>1, <1>3, <1>5 DEF AllCarried

LEMMA DupReadingCarries ==
  ASSUME IInv, AllCarried, NEW r \in Reading, NEW c \in Reading, DupReading(r, c)
  PROVE  AllCarried'
<1> DEFINE from2 == [n \in DOMAIN dup.from \cup {c} |-> IF n = c THEN r ELSE dup.from[n]]
<1>1. /\ dup # Closed /\ ~dup.busy /\ c \notin node \cup DOMAIN dup.from
      /\ UNCHANGED <<node, seq>>
      /\ dup' = [dup EXCEPT !.todo = dup.wits, !.busy = TRUE, !.cur = r, !.copy = c,
                            !.from = from2]
  BY DEF DupReading
<1>2. TransactionOK /\ DupOK
  BY <1>1 DEF IInv, DupOK
<1>3. /\ dup'.seq = dup.seq /\ dup'.from = from2 /\ dup'.copy = c /\ dup'.todo = dup.wits
  BY <1>1, <1>2 DEF TransactionOK, DupOK
<1>4. \A w, y : ~ Has(dup.seq, c, y, w) /\ ~ Has(dup.seq, y, c, w)
  BY <1>1, <1>2 DEF TransactionOK, IsGraph, Has
<1> HIDE DEF from2
<1>5. /\ DOMAIN from2 = DOMAIN dup.from \cup {c}
      /\ \A n \in DOMAIN dup.from : from2[n] = dup.from[n]
  BY <1>1 DEF from2
<1>6. DupNode' = DupNode \cup {c}
  BY <1>1, <1>3, <1>5 DEF DupNode
<1>7. \A n \in DupNode : Orig(n)' = Orig(n)
  BY <1>1, <1>3, <1>5 DEF Orig, DupNode
<1>8. ASSUME NEW w \in Sigil PROVE Carried(w)'
  <2>1. ASSUME NEW q, NEW n, Way(seq, node, w, q, n)
        PROVE  \E k : /\ Way(dup.seq, DupNode \cup {c}, w, k, n)
                      /\ \A i \in 1 .. n : Orig(k[i])' = q[i]
    <3>1. PICK k : Way(dup.seq, DupNode, w, k, n) /\ \A i \in 1 .. n : Orig(k[i]) = q[i]
      BY <2>1 DEF AllCarried, Carried
    <3>2. k \in [1 .. n -> DupNode]
      BY <3>1 DEF Way
    <3>3. Way(dup.seq, DupNode \cup {c}, w, k, n)
      BY <3>1, <3>2 DEF Way
    <3>4. QED BY <1>7, <3>1, <3>2, <3>3
  <2>2. QED BY <1>1, <1>3, <1>6, <2>1 DEF Carried
<1>9. QED BY <1>3, <1>4, <1>8 DEF AllCarried

LEMMA DupWitnessCarries ==
  ASSUME IInv, AllCarried, NEW lab \in Label, DupWitness(lab)
  PROVE  AllCarried'
<1>1. dup # Closed /\ lab \in dup.todo /\ UNCHANGED <<node, seq>>
  BY DEF DupWitness
<1>2. DupOK /\ TransactionOK /\ dup.busy
  BY <1>1 DEF IInv, DupOK
<1>3. /\ dup'.todo = dup.todo \ {lab} /\ dup'.copy = dup.copy /\ dup'.cur = dup.cur
      /\ dup'.from = dup.from
  <2>1. PICK s : dup' = [dup EXCEPT !.todo = dup.todo \ {lab}, !.seq = s]
    BY DEF DupWitness
  <2>2. QED BY <1>2, <2>1 DEF TransactionOK
<1>4. PICK p \in DupNode, m \in DupNode :
        /\ \A w : lab = <<w, Base>> => /\ BaseBefore(dup.seq, dup.cur, w) = {p}
                                       /\ BaseAfter(dup.seq, dup.cur, w) = {m}
        /\ \A x, y, w :
             Has(dup'.seq, x, y, w)
               <=> IF lab = <<w, Base>>
                   THEN /\ \/ Has(dup.seq, x, y, w)
                           \/ x = p /\ y = dup.copy
                           \/ x = dup.copy /\ y = m
                        /\ ~ (x = p /\ y = dup.cur) /\ ~ (x = dup.cur /\ y = m)
                   ELSE Has(dup.seq, x, y, w)
  BY <1>2, WitnessMoves
<1>5. /\ DupNode \subseteq Reading /\ dup.cur \in node /\ dup.copy \in DOMAIN dup.from
      /\ dup.cur = dup.from[dup.copy] /\ dup.cur # dup.copy /\ dup.copy \notin node
      /\ dup.copy \in DupNode /\ {Start, End} \subseteq node
  BY <1>2 DEF IInv, TypeOK, DupOK, TransactionOK, DupNode
<1>6. DupNode' = DupNode /\ \A x : Orig(x)' = Orig(x)
  BY <1>1, <1>3 DEF DupNode, Orig
<1>7. ASSUME NEW w \in Sigil, <<w, Base>> # lab
      PROVE  \A x, y : Has(dup'.seq, x, y, w) <=> Has(dup.seq, x, y, w)
  BY <1>4, <1>7
<1>8. ASSUME NEW w \in Sigil, <<w, Base>> = lab
      PROVE  /\ Rerouted(dup.seq, dup'.seq, w, p, dup.cur, dup.copy, m)
             /\ \A y : ~ Has(dup.seq, End, y, w)
             /\ p # End /\ dup.cur # Start
  <2>1. \A x, y : Has(dup.seq, x, y, w) => x \in Reading /\ y \in Reading
    BY <1>2, <1>5 DEF TransactionOK, IsGraph, Has, DupNode
  <2>2. BaseBefore(dup.seq, dup.cur, w) = {p} /\ BaseAfter(dup.seq, dup.cur, w) = {m}
    BY <1>4, <1>8
  <2>3. \A x : x \in BaseBefore(dup.seq, dup.cur, w) <=> Has(dup.seq, x, dup.cur, w)
    BY <2>1 DEF BaseBefore, Has
  <2>4. \A y : y \in BaseAfter(dup.seq, dup.cur, w) <=> Has(dup.seq, dup.cur, y, w)
    BY <2>1 DEF BaseAfter, Has
  <2>5. /\ \A x : Has(dup.seq, x, dup.cur, w) <=> x = p
        /\ \A y : Has(dup.seq, dup.cur, y, w) <=> y = m
    BY <2>2, <2>3, <2>4
  <2>6. \A x, y : Has(dup'.seq, x, y, w) <=>
                    /\ Has(dup.seq, x, y, w) \/ (x = p /\ y = dup.copy) \/ (x = dup.copy /\ y = m)
                    /\ ~ (x = p /\ y = dup.cur) /\ ~ (x = dup.cur /\ y = m)
    BY <1>4, <1>8
  <2>7. /\ \A y : ~ Has(dup.seq, dup.copy, y, w) /\ ~ Has(dup.seq, y, dup.copy, w)
        /\ \A y : ~ Has(dup.seq, End, y, w)
    BY <1>1, <1>8 DEF AllCarried
  <2>8. p # End
    BY <2>5, <2>7
  <2>9. dup.cur # Start
    <3>1. <<p, dup.cur>> \in DOMAIN dup.seq
      BY <2>5 DEF Has
    <3>2. <<p, Start>> \notin DOMAIN dup.seq
      BY <1>2 DEF DupOK
    <3>3. QED BY <3>1, <3>2
  <2>10. Rerouted(dup.seq, dup'.seq, w, p, dup.cur, dup.copy, m)
    BY <2>5, <2>6, <2>7 DEF Rerouted
  <2>11. QED BY <2>7, <2>8, <2>9, <2>10
<1>9. ASSUME NEW w \in Sigil, NEW y PROVE ~ Has(dup'.seq, End, y, w)
  <2>1. End # dup.copy /\ ~ Has(dup.seq, End, y, w)
    BY <1>5 DEF AllCarried
  <2>2. CASE <<w, Base>> # lab
    BY <1>7, <2>1, <2>2
  <2>3. CASE <<w, Base>> = lab
    BY <1>8, <2>1, <2>3 DEF Rerouted
  <2>4. QED BY <2>2, <2>3
<1>10. ASSUME NEW w \in Sigil, <<w, Base>> \in dup.todo \ {lab}, NEW y
       PROVE  ~ Has(dup'.seq, dup.copy, y, w) /\ ~ Has(dup'.seq, y, dup.copy, w)
  BY <1>7, <1>10 DEF AllCarried
<1>11. ASSUME NEW w \in Sigil PROVE Carried(w)'
  <2>1. ASSUME NEW q, NEW n, Way(seq, node, w, q, n)
        PROVE  \E k : Way(dup'.seq, DupNode, w, k, n) /\ \A i \in 1 .. n : Orig(k[i]) = q[i]
    <3>1. PICK r : Way(dup.seq, DupNode, w, r, n) /\ \A i \in 1 .. n : Orig(r[i]) = q[i]
      BY <2>1 DEF AllCarried, Carried
    <3>2. CASE <<w, Base>> # lab
      <4>1. Way(dup'.seq, DupNode, w, r, n)
        BY <1>7, <3>1, <3>2 DEF Way, Leads
      <4>2. QED BY <3>1, <4>1
    <3>3. CASE <<w, Base>> = lab
      <4> DEFINE k == [i \in 1 .. n |-> IF r[i] = dup.cur THEN dup.copy ELSE r[i]]
      <4>1. Way(dup'.seq, DupNode, w, k, n)
        <5>1. dup.copy # End /\ Start # End
          BY <1>5, CollationAssumption
        <5>2. Way(dup.seq, DupNode, w, r, n) /\ dup.copy \in DupNode
          BY <1>5, <3>1
        <5> HIDE DEF k
        <5>3. Way(dup'.seq, DupNode, w,
                  [i \in 1 .. n |-> IF r[i] = dup.cur THEN dup.copy ELSE r[i]], n)
          BY <1>8, <3>3, <5>1, <5>2, RerouteWay
        <5>4. QED BY <5>3 DEF k
      <4>2. ASSUME NEW i \in 1 .. n PROVE Orig(k[i]) = q[i]
        <5>1. Orig(dup.copy) = dup.cur /\ Orig(dup.cur) = dup.cur
          BY <1>5 DEF Orig
        <5>2. QED BY <3>1, <5>1
      <4>3. QED BY <4>1, <4>2
    <3>4. QED BY <3>2, <3>3
  <2>2. QED BY <1>1, <1>6, <2>1 DEF Carried
<1>12. QED BY <1>3, <1>9, <1>10, <1>11 DEF AllCarried

LEMMA DupRelationsCarries ==
  ASSUME IInv, AllCarried, DupRelations
  PROVE  AllCarried'
<1>1. dup # Closed /\ UNCHANGED <<node, seq>>
  BY DEF DupRelations
<1>2. TransactionOK
  BY <1>1 DEF IInv, DupOK
<1>3. /\ dup'.seq = dup.seq /\ dup'.from = dup.from /\ dup'.copy = dup.copy
      /\ dup'.todo = dup.todo
  BY <1>2 DEF DupRelations, TransactionOK
<1>4. DupNode' = DupNode /\ \A x : Orig(x)' = Orig(x)
  BY <1>1, <1>3 DEF DupNode, Orig
<1>5. \A w : Carried(w)' <=> Carried(w)
  BY <1>1, <1>3, <1>4 DEF Carried
<1>6. QED BY <1>3, <1>5 DEF AllCarried

LEMMA CarriedInv == TInv /\ [Next]_vars => TInv'
<1> SUFFICES ASSUME TInv, [Next]_vars PROVE TInv'
  OBVIOUS
<1>1. IInv /\ IInv'
  BY NextInv DEF TInv
<1>2. CASE dup' = Closed
  BY <1>1, <1>2 DEF TInv
<1>3. CASE dup' = dup /\ dup # Closed
  <2>1. UNCHANGED <<node, seq>>
    <3>1. CASE UNCHANGED vars
      BY <3>1 DEF vars
    <3>2. CASE DuplicateStep
      BY <1>3, <3>2 DEF DuplicateStep, DupOpen, DupReading, DupWitness, DupRelations,
                        DupCommit, DupAbort
    <3>3. QED BY <1>3, <3>1, <3>2, OthersWait
  <2>2. DupNode' = DupNode /\ \A x : Orig(x)' = Orig(x)
    BY <1>3, <2>1 DEF DupNode, Orig
  <2>3. \A w : Carried(w)' <=> Carried(w)
    BY <1>3, <2>1, <2>2 DEF Carried
  <2>4. EndsLast' <=> EndsLast
    BY <2>1 DEF EndsLast
  <2>5. AllCarried' <=> AllCarried
    BY <1>3, <2>3 DEF AllCarried
  <2>6. QED BY <1>1, <1>3, <2>4, <2>5 DEF TInv
<1>4. CASE dup' # dup /\ dup' # Closed
  <2>1. DuplicateStep
    BY <1>4, OthersWait DEF vars
  <2>2. UNCHANGED seq
    BY <1>4, <2>1 DEF DuplicateStep, DupOpen, DupReading, DupWitness, DupRelations, DupCommit,
                      DupAbort
  <2>3. SUFFICES ASSUME EndsLast PROVE AllCarried'
    BY <1>1, <2>2 DEF TInv, EndsLast
  <2>4. dup # Closed => AllCarried
    BY <2>3 DEF TInv
  <2>5. CASE \E wits \in SUBSET Label : DupOpen(wits)
    BY <1>1, <2>3, <2>5, DupOpenCarries
  <2>6. CASE \E r, c \in Reading : DupReading(r, c)
    <3>1. AllCarried
      BY <2>4, <2>6 DEF DupReading
    <3>2. QED BY <1>1, <2>6, <3>1, DupReadingCarries
  <2>7. CASE \E lab \in Label : DupWitness(lab)
    <3>1. AllCarried
      BY <2>4, <2>7 DEF DupWitness
    <3>2. QED BY <1>1, <2>7, <3>1, DupWitnessCarries
  <2>8. CASE DupRelations
    <3>1. AllCarried
      BY <2>4, <2>8 DEF DupRelations
    <3>2. QED BY <1>1, <2>8, <3>1, DupRelationsCarries
  <2>9. CASE DupCommit \/ DupAbort
    BY <1>4, <2>9 DEF DupCommit, DupAbort
  <2>10. QED BY <2>1, <2>5, <2>6, <2>7, <2>8, <2>9 DEF DuplicateStep
<1>5. QED BY <1>2, <1>3, <1>4

\* A copy says what its original says.
LEMMA DupCommitRetells ==
  ASSUME IInv, AllCarried, DupCommit, NEW w \in Sigil
  PROVE  Retold(seq, node, text, seq', node', text', w)
<1>1. /\ dup # Closed /\ seq' = dup.seq /\ node' = DupNode
      /\ \A n \in node' : text'[n] = IF n \in node THEN text[n] ELSE text[dup.from[n]]
  BY DEF DupCommit, DupNode
<1>2. \A n \in node' : text'[n] = text[Orig(n)]
  BY <1>1 DEF Orig
<1>3. ASSUME NEW q, NEW n, Way(seq, node, w, q, n)
      PROVE  \E r, m : Way(seq', node', w, r, m) /\ SameTale(text, q, n, text', r, m)
  <2>1. PICK r : Way(dup.seq, DupNode, w, r, n) /\ \A i \in 1 .. n : Orig(r[i]) = q[i]
    BY <1>3 DEF AllCarried, Carried
  <2>2. n \in Nat /\ r \in [1 .. n -> node']
    BY <1>1, <2>1 DEF Way
  <2>3. ASSUME NEW i \in 1 .. n PROVE text[q[i]] = text'[r[i]]
    BY <1>2, <2>1, <2>2
  <2>4. SameTale(text, q, n, text', r, n)
    BY <2>2, <2>3, SameTexts
  <2>5. QED BY <1>1, <2>1, <2>4
<1>4. QED BY <1>3 DEF Retold

-----------------------------------------------------------------------------
(* Splitting.                                                              *)

\* The way q of n readings with the k readings e in the place of the j-th.
Stretched(q, n, e, k, j) ==
  [i \in 1 .. n + (k - 1) |->
     IF i < j THEN q[i] ELSE IF i < j + k THEN e[i - j + 1] ELSE q[i - (k - 1)]]

\* The way of w in t has the readings e in the place of e[1].
LEMMA StretchWay ==
  ASSUME NEW s, NEW t, NEW w, NEW N, NEW M \in SUBSET Reading, IsGraph(s, N), IsGraph(t, M),
         N \subseteq M, Start # End, NEW q, NEW n, Way(s, N, w, q, n),
         NEW e, NEW k, Drawn(e, k, N), \A i \in 1 .. k : e[i] \in M,
         DrawnOut(s, t, w, e, k), NEW j \in 1 .. n, q[j] = e[1]
  PROVE  Way(t, M, w, Stretched(q, n, e, k, j), n + (k - 1))
<1> DEFINE l == n + (k - 1)
           z == Stretched(q, n, e, k, j)
<1>1. /\ n \in Nat \ {0} /\ q \in [1 .. n -> N] /\ q[1] = Start /\ q[n] = End
      /\ \A i \in 1 .. n - 1 : q[i] # End
      /\ \A i \in 1 .. n - 1 : \A y : Has(s, q[i], y, w) <=> y = q[i + 1]
  BY DEF Way, Leads
<1>2. /\ k \in Nat /\ k >= 2 /\ e \in [1 .. k -> Reading]
      /\ \A a, b \in 1 .. k : e[a] = e[b] => a = b
      /\ e[1] \in N \ {Start, End} /\ \A i \in 2 .. k : e[i] \notin N
  BY DEF Drawn
<1>3. j # 1 /\ j # n /\ j \in Nat /\ j < n /\ j \in 1 .. n - 1
  BY <1>1, <1>2
<1>4. \A x, y : Has(s, x, y, w) => x \in N /\ y \in N /\ y \in Reading
  BY DEF Has, IsGraph
<1>5. \A x, y : Has(t, x, y, w) => x \in Reading /\ y \in Reading
  BY DEF Has, IsGraph
<1>6. BaseAfter(s, e[1], w) # {}
  <2>1. Has(s, e[1], q[j + 1], w)
    BY <1>1, <1>3
  <2>2. q[j + 1] \in BaseAfter(s, e[1], w)
    BY <1>4, <2>1 DEF BaseAfter, Has
  <2>3. QED BY <2>2
<1>7. \A x, y \in Reading : Has(t, x, y, w) <=>
        \/ \E i \in 1 .. k - 1 : x = e[i] /\ y = e[i + 1]
        \/ x = e[k] /\ Has(s, e[1], y, w)
        \/ x # e[1] /\ Has(s, x, y, w)
  BY <1>6 DEF DrawnOut
\* Off the readings drawn out nothing has changed.
<1>8. ASSUME NEW a \in 1 .. n - 1, a # j
      PROVE  \A y : Has(t, q[a], y, w) <=> y = q[a + 1]
  <2>1. a \in 1 .. n /\ q[a] \in N /\ q[a] # e[1] /\ q[a + 1] \in Reading /\ q[a] \in Reading
    <3>1. a \in 1 .. n /\ a + 1 \in 1 .. n
      BY <1>1
    <3>2. q[a] # q[j]
      BY <1>8, <3>1, WayOnce
    <3>3. QED BY <1>1, <3>1, <3>2
  <2>2. \A i \in 1 .. k : q[a] # e[i]
    BY <1>2, <2>1
  <2>3. ASSUME NEW y \in Reading PROVE Has(t, q[a], y, w) <=> Has(s, q[a], y, w)
    <3>1. q[a] # e[k] /\ ~ \E i \in 1 .. k - 1 : q[a] = e[i] /\ y = e[i + 1]
      BY <1>2, <2>2
    <3>2. QED BY <1>7, <2>1, <3>1
  <2>4. \A y : Has(s, q[a], y, w) <=> y = q[a + 1]
    BY <1>1
  <2>5. QED BY <1>5, <2>1, <2>3, <2>4
\* Along them.
<1>9. ASSUME NEW a \in 1 .. k - 1
      PROVE  \A y : Has(t, e[a], y, w) <=> y = e[a + 1]
  <2>1. a \in 1 .. k /\ a + 1 \in 1 .. k /\ a # k /\ k \in 1 .. k
    BY <1>2
  <2>2. e[a] \in Reading /\ e[a + 1] \in Reading /\ e[a] # e[k]
    BY <1>2, <2>1
  <2>3. e[a] = e[1] \/ e[a] \notin N
    BY <1>2, <2>1
  <2>4. ASSUME NEW y \in Reading
        PROVE  Has(t, e[a], y, w) <=> \E i \in 1 .. k - 1 : e[a] = e[i] /\ y = e[i + 1]
    BY <1>4, <1>7, <2>2, <2>3
  <2>5. ASSUME NEW y, NEW i \in 1 .. k - 1, e[a] = e[i], y = e[i + 1] PROVE y = e[a + 1]
    <3>1. i \in 1 .. k
      BY <1>2
    <3>2. i = a
      BY <1>2, <2>1, <2>5, <3>1
    <3>3. QED BY <2>5, <3>2
  <2>6. QED BY <1>5, <2>2, <2>4, <2>5
<1>10. \A y : Has(t, e[k], y, w) <=> y = q[j + 1]
  <2>1. k \in 1 .. k /\ e[k] \in Reading /\ e[k] \notin N /\ e[k] # e[1] /\ q[j + 1] \in Reading
    <3>1. k \in 1 .. k /\ 1 \in 1 .. k /\ k \in 2 .. k /\ 1 # k /\ j + 1 \in 1 .. n
      BY <1>1, <1>2, <1>3
    <3>2. QED BY <1>1, <1>2, <3>1
  <2>2. ASSUME NEW i \in 1 .. k - 1 PROVE e[k] # e[i]
    <3>1. i \in 1 .. k /\ i # k
      BY <1>2
    <3>2. QED BY <1>2, <2>1, <3>1
  <2>3. ASSUME NEW y \in Reading PROVE Has(t, e[k], y, w) <=> Has(s, e[1], y, w)
    BY <1>4, <1>7, <2>1, <2>2
  <2>4. \A y : Has(s, e[1], y, w) <=> y = q[j + 1]
    BY <1>1, <1>3
  <2>5. QED BY <1>5, <2>1, <2>3, <2>4
<1>11. l \in Nat \ {0} /\ l \in 1 .. l
  BY <1>1, <1>2
<1>12. ASSUME NEW i \in 1 .. l
       PROVE  z[i] = IF i < j THEN q[i] ELSE IF i < j + k THEN e[i - j + 1] ELSE q[i - (k - 1)]
  BY DEF Stretched
<1>13. z \in [1 .. l -> M]
  <2>1. ASSUME NEW i \in 1 .. l
        PROVE  (IF i < j THEN q[i] ELSE IF i < j + k THEN e[i - j + 1] ELSE q[i - (k - 1)]) \in M
    <3>1. CASE i < j
      <4>1. i \in 1 .. n
        BY <1>1, <1>3, <3>1
      <4>2. QED BY <1>1, <3>1, <4>1
    <3>2. CASE ~ (i < j) /\ i < j + k
      <4>1. i - j + 1 \in 1 .. k
        BY <1>2, <1>3, <3>2
      <4>2. QED BY <3>2, <4>1
    <3>3. CASE ~ (i < j) /\ ~ (i < j + k)
      <4>1. i - (k - 1) \in 1 .. n
        BY <1>1, <1>2, <1>3, <3>3
      <4>2. QED BY <1>1, <3>3, <4>1
    <3>4. QED BY <3>1, <3>2, <3>3
  <2>2. QED BY <2>1 DEF Stretched
<1> HIDE DEF z
<1>14. z[1] = Start /\ z[l] = End
  <2>1. 1 \in 1 .. l /\ 1 < j /\ ~ (l < j) /\ ~ (l < j + k) /\ l - (k - 1) = n
    BY <1>1, <1>2, <1>3, <1>11
  <2>2. z[1] = q[1]
    BY <1>12, <2>1
  <2>3. z[l] = q[l - (k - 1)]
    BY <1>11, <1>12, <2>1
  <2>4. QED BY <1>1, <2>1, <2>2, <2>3
<1>15. ASSUME NEW i \in 1 .. l - 1
       PROVE  z[i] # End /\ \A y : Has(t, z[i], y, w) <=> y = z[i + 1]
  <2>1. i \in 1 .. l /\ i + 1 \in 1 .. l
    BY <1>11
  <2>2. z[i] = IF i < j THEN q[i] ELSE IF i < j + k THEN e[i - j + 1] ELSE q[i - (k - 1)]
    BY <1>12, <2>1
  <2>3. z[i + 1] = IF i + 1 < j THEN q[i + 1] ELSE IF i + 1 < j + k THEN e[i + 1 - j + 1]
                   ELSE q[i + 1 - (k - 1)]
    <3>1. PICK h \in 1 .. l : h = i + 1
      BY <2>1
    <3>2. z[h] = IF h < j THEN q[h] ELSE IF h < j + k THEN e[h - j + 1] ELSE q[h - (k - 1)]
      BY <1>12
    <3>3. QED BY <1>1, <1>2, <1>3, <3>1, <3>2
  <2>4. CASE i < j
    <3>1. i \in 1 .. n - 1 /\ i # j
      BY <1>1, <1>3, <2>4
    <3>2. z[i] = q[i]
      BY <2>2, <2>4
    <3>3. z[i + 1] = q[i + 1]
      <4>1. CASE i + 1 < j
        BY <2>3, <4>1
      <4>2. CASE i + 1 = j
        <5>1. ~ (i + 1 < j) /\ i + 1 < j + k /\ i + 1 - j + 1 = 1
          BY <1>2, <1>3, <4>2
        <5>2. z[i + 1] = e[1]
          BY <2>3, <5>1
        <5>3. QED BY <4>2, <5>2
      <4>3. QED BY <1>3, <2>4, <4>1, <4>2
    <3>4. QED BY <1>1, <1>8, <3>1, <3>2, <3>3
  <2>5. CASE ~ (i < j) /\ i + 1 < j + k
    <3>1. PICK a \in 1 .. k - 1 : a = i - j + 1 /\ a + 1 = i + 1 - j + 1
      BY <1>2, <1>3, <2>5
    <3>2. i < j + k /\ ~ (i + 1 < j)
      BY <1>2, <1>3, <2>5
    <3>3. z[i] = e[a] /\ z[i + 1] = e[a + 1]
      BY <2>2, <2>3, <2>5, <3>1, <3>2
    <3>4. e[a] # End
      <4>1. a = 1 \/ a \in 2 .. k
        BY <1>2
      <4>2. End \in N
        BY <1>1
      <4>3. QED BY <1>2, <4>1, <4>2
    <3>5. QED BY <1>9, <3>3, <3>4
  <2>6. CASE i + 1 = j + k
    <3>1. i - j + 1 = k /\ i + 1 - (k - 1) = j + 1 /\ ~ (i < j) /\ i < j + k /\ ~ (i + 1 < j)
          /\ ~ (i + 1 < j + k)
      BY <1>2, <1>3, <2>6
    <3>2. z[i] = e[k] /\ z[i + 1] = q[j + 1]
      BY <2>2, <2>3, <3>1
    <3>3. e[k] # End
      <4>1. k \in 2 .. k /\ End \in N
        BY <1>1, <1>2
      <4>2. QED BY <1>2, <4>1
    <3>4. QED BY <1>10, <3>2, <3>3
  <2>7. CASE i + 1 > j + k
    <3>1. PICK a \in 1 .. n - 1 : a = i - (k - 1) /\ a + 1 = i + 1 - (k - 1) /\ a # j
      BY <1>1, <1>2, <1>3, <2>7
    <3>2. ~ (i < j) /\ ~ (i < j + k) /\ ~ (i + 1 < j) /\ ~ (i + 1 < j + k)
      BY <1>2, <1>3, <2>7
    <3>3. z[i] = q[a] /\ z[i + 1] = q[a + 1]
      BY <2>2, <2>3, <3>1, <3>2
    <3>4. QED BY <1>1, <1>8, <3>1, <3>3
  <2>8. QED BY <1>2, <1>3, <2>4, <2>5, <2>6, <2>7
<1>16. Way(t, M, w, z, l)
  BY <1>11, <1>13, <1>14, <1>15 DEF Way, Leads
<1>17. QED BY <1>16 DEF z

\* d has the k texts of parts in the place of the j-th of the n texts of c.
Cut(c, n, j, parts, k, d) ==
  /\ \A i \in 1 .. j - 1 : d[i] = c[i]
  /\ \A i \in 1 .. k : d[j - 1 + i] = parts[i]
  /\ \A i \in 1 .. n - j : d[j - 1 + k + i] = c[j + i]

\* The k parts spell t.
Spells(parts, k, t) ==
  /\ \A i \in 1 .. k : parts[i] \in Seq(Word)
  /\ \E H : Joins(H, parts, k) /\ H[k] = t

LEMMA DividedSpell ==
  ASSUME NEW t \in Seq(Word), NEW parts \in Divided(t)
  PROVE  Spells(parts, Len(parts), t)
<1>1. parts \in Seq(Seq(Word)) /\ \A i \in 1 .. Len(parts) : parts[i] \in Seq(Word)
  <2>1. parts \in Cuts(t)
    BY DEF Cuts
  <2>2. QED BY <2>1, CutsType, LenProperties, ElementOfSeq
<1>2. PICK H : Joins(H, parts, Len(parts))
  BY <1>1, JoinSteps
<1>3. H[Len(parts)] = t
  BY <1>2, DividedJoin
<1>4. QED BY <1>1, <1>2, <1>3 DEF Spells

LEMMA PairSpells ==
  ASSUME NEW a \in Seq(Word), NEW b \in Seq(Word)
  PROVE  Spells(<<a, b>>, 2, a \o b)
<1> DEFINE parts == <<a, b>>
<1>1. parts \in Seq(Seq(Word)) /\ Len(parts) = 2 /\ parts[1] = a /\ parts[2] = b
  OBVIOUS
<1> HIDE DEF parts
<1>2. PICK H : Joins(H, parts, 2)
  BY <1>1, JoinSteps
<1>3. H[0] = <<>> /\ H[1] = H[0] \o parts[1] /\ H[2] = H[1] \o parts[2]
  <2>1. 1 \in 1 .. 2 /\ 2 \in 1 .. 2 /\ 1 - 1 = 0 /\ 2 - 1 = 1
    OBVIOUS
  <2>2. H[1] = H[1 - 1] \o parts[1] /\ H[2] = H[2 - 1] \o parts[2] /\ H[0] = <<>>
    BY <1>2, <2>1, Zenon DEF Joins
  <2>3. QED BY <2>1, <2>2, Zenon
<1>4. <<>> \o a = a
  BY ConcatEmptySeq
<1>5. H[2] = a \o b
  BY <1>1, <1>3, <1>4, Zenon
<1>6. \A i \in 1 .. 2 : parts[i] \in Seq(Word)
  <2>1. \A i \in 1 .. 2 : i = 1 \/ i = 2
    OBVIOUS
  <2>2. QED BY <1>1, <2>1
<1>7. Spells(parts, 2, a \o b)
  BY <1>2, <1>5, <1>6 DEF Spells
<1>8. QED BY <1>7 DEF parts

\* A text that is cut up on a way says what it said.
LEMMA StretchTale ==
  ASSUME NEW n \in Nat, NEW j \in 1 .. n, NEW k \in Nat, k >= 1,
         NEW c, NEW parts, Spells(parts, k, c[j]), NEW d,
         Cut(c, n, j, parts, k, d),
         NEW F, Joins(F, c, n), NEW G, Joins(G, d, n + (k - 1))
  PROVE  F[n] = G[n + (k - 1)]
<1>1. j \in Nat /\ j >= 1 /\ j <= n /\ \A i \in 1 .. k : parts[i] \in Seq(Word)
  BY DEF Spells
<1>3. PICK H : Joins(H, parts, k) /\ H[k] = c[j]
  BY DEF Spells
<1>a. PICK a \in Nat : a = j - 1
  BY <1>1
<1>b. PICK l \in Nat : l = n + (k - 1)
  <2>1. n + (k - 1) \in Nat
    BY <1>1
  <2>2. QED BY <2>1
<1>5. a + 1 = j /\ 0 + a <= n /\ 0 + a <= l /\ a + k <= l
  BY <1>1, <1>a, <1>b
<1>c. Joins(F, c, n) /\ Joins(G, d, l)
  BY <1>b
<1>6. F[a] = G[a]
  <2>1. F[0] = G[0]
    BY <1>c DEF Joins
  <2>2. Alike(c, 0, d, 0, a)
    BY <1>a DEF Alike, Cut
  <2>3. n \in Nat /\ l \in Nat /\ 0 \in Nat /\ a \in Nat /\ 0 + a <= n /\ 0 + a <= l
    BY <1>5
  <2>4. F[0 + a] = G[0 + a]
    BY ONLY <1>c, <2>1, <2>2, <2>3, JoinAlong
  <2>5. QED BY <2>4
<1>7. G[a + k] = G[a] \o H[k]
  <2>1. Within(parts, k, d, a)
    BY <1>1, <1>a DEF Within, Cut
  <2>2. k \in Nat /\ l \in Nat /\ a \in Nat /\ a + k <= l
    BY <1>1, <1>5
  <2>3. IsBoth(G[a + k], G[a], H[k])
    BY ONLY <1>3, <1>c, <2>1, <2>2, JoinWithin
  <2>4. QED BY <2>3 DEF IsBoth
<1>8. F[j] = G[a + k]
  <2>1. j \in 1 .. n /\ j - 1 = a
    BY <1>5
  <2>2. F[j] = F[j - 1] \o c[j]
    BY <2>1 DEF Joins
  <2>3. QED BY <1>3, <1>6, <1>7, <2>1, <2>2, Zenon
<1>d. PICK b \in Nat : b = a + k
  BY <1>1
<1>e. PICK r \in Nat : r = n - j
  BY <1>1
<1>9. j + r <= n /\ b + r <= l /\ j + r = n /\ b + r = l
  BY <1>1, <1>a, <1>b, <1>d, <1>e
<1>10. F[j + r] = G[b + r]
  <2>1. Alike(c, j, d, b, r)
    BY <1>1, <1>a, <1>d, <1>e DEF Alike, Cut
  <2>2. F[j] = G[b]
    BY <1>8, <1>d
  <2>3. n \in Nat /\ l \in Nat /\ j \in Nat /\ b \in Nat /\ r \in Nat /\ j + r <= n /\ b + r <= l
    BY <1>1, <1>9
  <2>4. QED BY ONLY <1>c, <2>1, <2>2, <2>3, JoinAlong
<1>11. QED BY <1>b, <1>9, <1>10

LEMMA SplitRetells ==
  ASSUME IInv, IInv', NEW r \in node, NEW parts \in Divided(text[r]), NEW byPattern,
         NEW fresh, Split(r, parts, fresh, byPattern), NEW w \in Sigil
  PROVE  Retold(seq, node, text, seq', node', text', w)
<1> DEFINE k == Len(parts)
<1>1. PICK e : /\ Drawn(e, k, node) /\ Filled(node', node, e, k)
               /\ DrawnOut(seq, seq', w, e, k)
               /\ e[1] = r /\ \A i \in 1 .. k : text'[e[i]] = parts[i]
               /\ \A n \in node \ {r} : text'[n] = text[n]
  <2>1. parts \in Cuts(text[r])
    BY DEF Cuts
  <2>2. QED BY <2>1, SplitDraws
<1>2. /\ {Start, End} \subseteq node /\ node \in SUBSET Reading /\ IsGraph(seq, node)
      /\ node' \in SUBSET Reading /\ IsGraph(seq', node') /\ text[r] \in Seq(Word)
      /\ Start # End
  BY CollationAssumption DEF IInv, TypeOK
<1>3. /\ k \in Nat /\ k >= 2 /\ e \in [1 .. k -> Reading]
      /\ r \in node \ {Start, End} /\ \A i \in 2 .. k : e[i] \notin node
  BY <1>1 DEF Drawn
<1> HIDE DEF k
<1>4. node \subseteq node' /\ \A i \in 1 .. k : e[i] \in node'
  <2>1. \A i \in 1 .. k : i = 1 \/ i \in 2 .. k
    BY <1>3
  <2>2. QED BY <1>1, <2>1 DEF Filled
<1>5. ASSUME NEW q, NEW n, Way(seq, node, w, q, n)
      PROVE  \E z, m : Way(seq', node', w, z, m) /\ SameTale(text, q, n, text', z, m)
  <2>1. n \in Nat \ {0} /\ q \in [1 .. n -> node]
    BY <1>5 DEF Way
  <2>2. CASE \E j \in 1 .. n : q[j] = r
    <3>1. PICK j \in 1 .. n : q[j] = r
      BY <2>2
    <3> DEFINE l == n + (k - 1)
               z == Stretched(q, n, e, k, j)
               c == Told(text, q, n)
               d == Told(text', z, l)
    <3>2. Way(seq', node', w, z, l)
      <4>1. /\ \A i \in 1 .. k : e[i] \in node'
            /\ q[j] = e[1]
        BY <1>1, <1>4, <3>1
      <4> HIDE DEF z, l
      <4>2. Drawn(e, k, node) /\ DrawnOut(seq, seq', w, e, k)
        BY <1>1
      <4>3. /\ node' \in SUBSET Reading /\ IsGraph(seq, node) /\ IsGraph(seq', node')
            /\ node \subseteq node' /\ Start # End
        BY <1>2, <1>4
      <4>4. Way(seq', node', w, Stretched(q, n, e, k, j), n + (k - 1))
        BY ONLY <1>5, <4>1, <4>2, <4>3, j \in 1 .. n, StretchWay
      <4>5. QED BY <4>4 DEF z, l
    <3>3. j \in Nat /\ j >= 1 /\ j <= n /\ l \in Nat
      BY <1>3, <2>1
    <3>4. /\ \A i \in 1 .. n : c[i] = text[q[i]]
          /\ \A i \in 1 .. l : d[i] = text'[z[i]]
      BY DEF Told
    <3>5. \A i \in 1 .. n : i # j => text'[q[i]] = text[q[i]]
      <4>1. \A i \in 1 .. n : i # j => q[i] # r
        BY <1>5, <3>1, WayOnce
      <4>2. QED BY <1>1, <2>1, <4>1
    <3>6. \A i \in 1 .. l :
            z[i] = IF i < j THEN q[i] ELSE IF i < j + k THEN e[i - j + 1] ELSE q[i - (k - 1)]
      BY DEF Stretched
    <3> HIDE DEF z, c, d
    <3>7. ASSUME NEW i \in 1 .. j - 1 PROVE d[i] = c[i]
      <4>1. i \in 1 .. l /\ i \in 1 .. n /\ i < j /\ i # j
        BY <1>3, <2>1, <3>3
      <4>2. z[i] = q[i]
        BY <3>6, <4>1
      <4>3. QED BY <3>4, <3>5, <4>1, <4>2
    <3>8. ASSUME NEW i \in 1 .. k PROVE d[j - 1 + i] = parts[i]
      <4>1. PICK h \in 1 .. l : h = j - 1 + i /\ ~ (h < j) /\ h < j + k /\ h - j + 1 = i
        BY <1>3, <2>1, <3>3
      <4>2. z[h] = e[i]
        BY <3>6, <4>1
      <4>3. d[h] = parts[i]
        BY <1>1, <3>4, <4>2
      <4>4. QED BY <4>1, <4>3
    <3>9. ASSUME NEW i \in 1 .. n - j PROVE d[j - 1 + k + i] = c[j + i]
      <4>1. PICK h \in 1 .. l : /\ h = j - 1 + k + i /\ ~ (h < j) /\ ~ (h < j + k)
                                /\ h - (k - 1) = j + i
        BY <1>3, <2>1, <3>3
      <4>2. PICK g \in 1 .. n : g = j + i /\ g # j
        BY <1>3, <2>1, <3>3
      <4>3. z[h] = q[g]
        BY <3>6, <4>1, <4>2
      <4>4. d[h] = c[g]
        BY <3>4, <3>5, <4>2, <4>3
      <4>5. QED BY <4>1, <4>2, <4>4
    <3>10. Spells(parts, k, c[j])
      BY <1>2, <3>1, <3>4, DividedSpell DEF k
    <3>11. SameTale(text, q, n, text', z, l)
      <4>1. Cut(c, n, j, parts, k, d)
        BY <3>7, <3>8, <3>9 DEF Cut
      <4>2. n \in Nat /\ k \in Nat /\ k >= 1
        BY <1>3, <2>1
      <4>3. ASSUME NEW F, NEW G, Joins(F, c, n), Joins(G, d, n + (k - 1))
            PROVE  F[n] = G[n + (k - 1)]
        BY ONLY <3>10, <4>1, <4>2, <4>3, j \in 1 .. n, StretchTale, SMTT(60)
      <4>4. QED BY <4>3 DEF SameTale, c, d
    <3>12. QED BY <3>2, <3>11
  <2>3. CASE ~ \E j \in 1 .. n : q[j] = r
    <3>1. \A i \in 1 .. n : q[i] \in node \ {r}
      BY <2>1, <2>3
    <3>2. ASSUME NEW x \in node \ {r}, NEW y PROVE Has(seq', x, y, w) <=> Has(seq, x, y, w)
      <4>1. /\ Has(seq', x, y, w) => y \in Reading
            /\ Has(seq, x, y, w) => y \in Reading
            /\ x \in Reading
        BY <1>2 DEF Has, IsGraph
      <4>2. \A i \in 1 .. k : x # e[i]
        BY <1>1, <1>3
      <4>3. k \in 1 .. k /\ \A i \in 1 .. k - 1 : i \in 1 .. k
        BY <1>3
      <4>4. y \in Reading => (Has(seq', x, y, w) <=> Has(seq, x, y, w))
        BY <1>1, <4>1, <4>2, <4>3 DEF DrawnOut
      <4>5. QED BY <4>1, <4>4
    <3>3. Way(seq', node', w, q, n)
      <4>1. \A i \in 1 .. n - 1 : i \in 1 .. n
        BY <2>1
      <4>2. \A i \in 1 .. n - 1 : q[i] # End /\ \A y : Has(seq, q[i], y, w) <=> y = q[i + 1]
        BY <1>5 DEF Way, Leads
      <4>3. \A i \in 1 .. n - 1 : \A y : Has(seq', q[i], y, w) <=> Has(seq, q[i], y, w)
        BY <3>1, <3>2, <4>1
      <4>4. \A i \in 1 .. n - 1 : q[i] # End /\ \A y : Has(seq', q[i], y, w) <=> y = q[i + 1]
        BY <4>2, <4>3
      <4>5. q \in [1 .. n -> node']
        BY <1>4, <2>1
      <4>6. QED BY <1>5, <4>4, <4>5 DEF Way, Leads
    <3>4. SameTale(text, q, n, text', q, n)
      BY <1>1, <2>1, <3>1, SameTexts
    <3>5. QED BY <3>3, <3>4
  <2>4. QED BY <2>2, <2>3
<1>6. QED BY <1>5 DEF Retold

-----------------------------------------------------------------------------
(* Compressing.                                                            *)

\* The way q of n readings without its j-th.
Shrunk(q, n, j) == [i \in 1 .. n - 1 |-> IF i < j THEN q[i] ELSE q[i + 1]]

\* r1 leads to r2 alone, and alone to it.
Alone(s, w, r1, r2) ==
  /\ \A y : Has(s, r1, y, w) => y = r2
  /\ \A x : Has(s, x, r2, w) => x = r1

\* The way of w in t is q, or q without r2, which r1 is before.
Shrinks(t, M, w, q, n, r1, r2) ==
  \/ /\ \A i \in 1 .. n : q[i] \notin {r1, r2}
     /\ Way(t, M, w, q, n)
  \/ \E j \in 2 .. n - 1 :
       /\ q[j - 1] = r1 /\ q[j] = r2
       /\ \A i \in 1 .. n : i # j - 1 /\ i # j => q[i] \notin {r1, r2}
       /\ Way(t, M, w, Shrunk(q, n, j), n - 1)

\* A way that r2 is taken out of.
LEMMA ShrinkWay ==
  ASSUME NEW s, NEW t, NEW w, NEW N \in SUBSET Reading, NEW r1 \in N \ {Start, End},
         NEW r2 \in N \ {Start, End}, r1 # r2, IsGraph(s, N), IsGraph(t, N \ {r2}),
         Alone(s, w, r1, r2), DrawnIn(s, t, w, r1, r2), NEW q, NEW n, Way(s, N, w, q, n)
  PROVE  Shrinks(t, N \ {r2}, w, q, n, r1, r2)
<1>1. /\ n \in Nat \ {0} /\ q \in [1 .. n -> N] /\ q[1] = Start /\ q[n] = End
      /\ \A i \in 1 .. n - 1 : q[i] # End
      /\ \A i \in 1 .. n - 1 : \A y : Has(s, q[i], y, w) <=> y = q[i + 1]
  BY DEF Way, Leads
<1>2. \A x, y \in Reading :
        Has(t, x, y, w) <=> /\ x # r2 /\ y # r2
                            /\ \/ x = r1 /\ y # r1 /\ Has(s, r2, y, w)
                               \/ x # r1 /\ Has(s, x, y, w)
  BY DEF DrawnIn
<1>a. \A x, y : Has(t, x, y, w) => y \in Reading
  BY DEF Has, IsGraph
<1>3. ASSUME NEW x \in Reading \ {r1, r2}, NEW z \in Reading \ {r2},
             \A y : Has(s, x, y, w) <=> y = z
      PROVE  \A y : Has(t, x, y, w) <=> y = z
  BY <1>2, <1>3, <1>a
<1>4. ASSUME NEW z \in Reading \ {r1, r2}, \A y : Has(s, r2, y, w) <=> y = z
      PROVE  \A y : Has(t, r1, y, w) <=> y = z
  BY <1>2, <1>4, <1>a
<1>5. ASSUME NEW i \in 1 .. n, NEW j \in 1 .. n, i # j PROVE q[i] # q[j]
  BY <1>5, WayOnce
<1>6. CASE \A i \in 1 .. n : q[i] # r2
  <2>1. \A i \in 1 .. n : q[i] # r1
    <3>1. ASSUME NEW i \in 1 .. n, q[i] = r1 PROVE FALSE
      <4>1. i # n
        BY <1>1, <3>1
      <4>2. i \in 1 .. n - 1 /\ i + 1 \in 1 .. n
        BY <1>1, <4>1
      <4>3. Has(s, q[i], q[i + 1], w)
        BY <1>1, <4>2
      <4>4. q[i + 1] = r2
        BY <3>1, <4>3 DEF Alone
      <4>5. QED BY <1>6, <4>2, <4>4
    <3>2. QED BY <3>1
  <2>2. ASSUME NEW i \in 1 .. n - 1 PROVE \A y : Has(t, q[i], y, w) <=> y = q[i + 1]
    <3>1. i \in 1 .. n /\ i + 1 \in 1 .. n
      BY <1>1
    <3>2. q[i] \in Reading \ {r1, r2} /\ q[i + 1] \in Reading \ {r2}
      BY <1>1, <1>6, <2>1, <3>1
    <3>3. \A y : Has(s, q[i], y, w) <=> y = q[i + 1]
      BY <1>1
    <3>4. QED BY <1>3, <3>2, <3>3
  <2>3. q \in [1 .. n -> N \ {r2}]
    BY <1>1, <1>6
  <2>4. Way(t, N \ {r2}, w, q, n)
    BY <1>1, <2>2, <2>3 DEF Way, Leads
  <2>5. QED BY <1>6, <2>1, <2>4 DEF Shrinks
<1>7. CASE \E j \in 1 .. n : q[j] = r2
  <2>1. PICK j \in 1 .. n : q[j] = r2
    BY <1>7
  <2>2. j # 1 /\ j # n
    BY <1>1, <2>1
  <2>3. j \in 2 .. n - 1 /\ j - 1 \in 1 .. n - 1 /\ j - 1 \in 1 .. n /\ j - 1 + 1 = j
    BY <1>1, <2>2
  <2>4. q[j - 1] = r1
    <3>1. Has(s, q[j - 1], q[j - 1 + 1], w)
      BY <1>1, <2>3
    <3>2. Has(s, q[j - 1], r2, w)
      BY <2>1, <2>3, <3>1
    <3>3. QED BY <3>2 DEF Alone
  <2>5. \A i \in 1 .. n : i # j - 1 /\ i # j => q[i] \notin {r1, r2}
    BY <1>5, <2>1, <2>3, <2>4
  <2> DEFINE z == Shrunk(q, n, j)
             l == n - 1
  <2>6. l \in Nat \ {0} /\ l \in 1 .. l /\ 1 \in 1 .. l
    BY <1>1, <2>3
  <2>7. \A i \in 1 .. l : z[i] = IF i < j THEN q[i] ELSE q[i + 1]
    BY DEF Shrunk
  <2>8. z \in [1 .. l -> N \ {r2}]
    <3>1. ASSUME NEW i \in 1 .. l PROVE (IF i < j THEN q[i] ELSE q[i + 1]) \in N \ {r2}
      <4>1. i \in 1 .. n /\ i + 1 \in 1 .. n /\ (~ (i < j) => i + 1 # j) /\ (i < j => i # j)
        BY <1>1, <2>3
      <4>2. CASE i < j
        BY <1>1, <1>5, <2>1, <4>1, <4>2
      <4>3. CASE ~ (i < j)
        BY <1>1, <1>5, <2>1, <4>1, <4>3
      <4>4. QED BY <4>2, <4>3
    <3>2. QED BY <3>1 DEF Shrunk
  <2> HIDE DEF z
  <2>9. z[1] = Start /\ z[l] = End
    <3>1. 1 < j /\ ~ (l < j) /\ l + 1 = n
      BY <1>1, <2>3
    <3>2. z[1] = q[1] /\ z[l] = q[l + 1]
      BY <2>6, <2>7, <3>1
    <3>3. QED BY <1>1, <3>1, <3>2
  <2>10. ASSUME NEW i \in 1 .. l - 1
         PROVE  z[i] # End /\ \A y : Has(t, z[i], y, w) <=> y = z[i + 1]
    <3>1. PICK h \in 1 .. l : h = i + 1
      BY <2>6
    <3>2. i \in 1 .. l /\ i \in Nat
      BY <2>6
    <3>3. /\ z[i] = IF i < j THEN q[i] ELSE q[i + 1]
          /\ z[h] = IF h < j THEN q[h] ELSE q[h + 1]
      BY <2>7, <3>2
    <3>4. CASE i + 1 = j
      <4>1. i = j - 1 /\ i < j /\ ~ (h < j) /\ h = j /\ j \in 1 .. n - 1 /\ j + 1 \in 1 .. n
            /\ j + 1 # j /\ j + 1 # j - 1
        BY <1>1, <2>3, <3>1, <3>4
      <4>2. z[i] = r1 /\ z[h] = q[j + 1]
        BY <2>4, <3>3, <4>1
      <4>3. q[j + 1] \in Reading \ {r1, r2}
        BY <1>1, <2>5, <4>1
      <4>4. \A y : Has(s, r2, y, w) <=> y = q[j + 1]
        BY <1>1, <2>1, <4>1
      <4>5. \A y : Has(t, r1, y, w) <=> y = q[j + 1]
        BY <1>4, <4>3, <4>4
      <4>6. QED BY <3>1, <4>2, <4>5
    <3>5. CASE i + 1 # j
      <4>1. PICK a \in 1 .. n - 1 : /\ a = (IF i < j THEN i ELSE i + 1)
                                    /\ a + 1 = (IF h < j THEN h ELSE h + 1)
                                    /\ a # j - 1 /\ a # j /\ a + 1 # j
        BY <1>1, <2>3, <3>1, <3>5
      <4>2. z[i] = q[a] /\ z[h] = q[a + 1]
        BY <3>3, <4>1
      <4>3. a \in 1 .. n /\ a + 1 \in 1 .. n
        BY <1>1
      <4>4. q[a] \in Reading \ {r1, r2} /\ q[a + 1] \in Reading \ {r2}
        BY <1>1, <1>5, <2>1, <2>5, <4>1, <4>3
      <4>5. q[a] # End /\ \A y : Has(s, q[a], y, w) <=> y = q[a + 1]
        BY <1>1
      <4>6. \A y : Has(t, q[a], y, w) <=> y = q[a + 1]
        BY <1>3, <4>4, <4>5
      <4>7. QED BY <3>1, <4>2, <4>5, <4>6
    <3>6. QED BY <3>4, <3>5
  <2>11. Way(t, N \ {r2}, w, z, l)
    BY <2>6, <2>8, <2>9, <2>10 DEF Way, Leads
  <2>12. QED BY <2>1, <2>3, <2>4, <2>5, <2>11 DEF z, Shrinks
<1>8. QED BY <1>6, <1>7

\* Compressing leaves what the witnesses say.
LEMMA CompressRetells ==
  ASSUME IInv, IInv', NEW r1 \in node, NEW r2 \in node, Compress(r1, r2), NEW w \in Sigil
  PROVE  Retold(seq, node, text, seq', node', text', w)
<1>1. /\ {r1, r2} \subseteq node \ {Start, End} /\ r1 # r2 /\ node' = node \ {r2}
      /\ Alone(seq, w, r1, r2) /\ DrawnIn(seq, seq', w, r1, r2)
  BY CompressDraws DEF Alone
<1>2. /\ node \in SUBSET Reading /\ IsGraph(seq, node) /\ IsGraph(seq', node \ {r2})
      /\ text \in [node -> Seq(Word)]
  BY <1>1 DEF IInv, TypeOK
<1>3. \A n \in node \ {r2} : text'[n] = IF n = r1 THEN text[r1] \o text[r2] ELSE text[n]
  <2>1. text' = Without([text EXCEPT ![r1] = @ \o text[r2]], {r2})
    BY DEF Compress
  <2>2. QED BY <1>2, <2>1 DEF Without
<1>4. ASSUME NEW q, NEW n, Way(seq, node, w, q, n)
      PROVE  \E z, m : Way(seq', node', w, z, m) /\ SameTale(text, q, n, text', z, m)
  <2>1. n \in Nat \ {0} /\ q \in [1 .. n -> node]
    BY <1>4 DEF Way
  <2>2. \/ /\ \A i \in 1 .. n : q[i] \notin {r1, r2}
           /\ Way(seq', node', w, q, n)
        \/ \E j \in 2 .. n - 1 :
             /\ q[j - 1] = r1 /\ q[j] = r2
             /\ \A i \in 1 .. n : i # j - 1 /\ i # j => q[i] \notin {r1, r2}
             /\ Way(seq', node', w, Shrunk(q, n, j), n - 1)
    <3>1. r1 \in node \ {Start, End} /\ r2 \in node \ {Start, End} /\ r1 # r2
      BY <1>1
    <3>2. /\ node \in SUBSET Reading /\ IsGraph(seq, node) /\ IsGraph(seq', node \ {r2})
          /\ Alone(seq, w, r1, r2) /\ DrawnIn(seq, seq', w, r1, r2)
      BY <1>1, <1>2
    <3>3. Shrinks(seq', node \ {r2}, w, q, n, r1, r2)
      BY ONLY <1>4, <3>1, <3>2, ShrinkWay
    <3>4. QED BY <1>1, <3>3 DEF Shrinks
  <2>3. CASE (\A i \in 1 .. n : q[i] \notin {r1, r2}) /\ Way(seq', node', w, q, n)
    <3>1. \A i \in 1 .. n : text[q[i]] = text'[q[i]]
      BY <1>3, <2>1, <2>3
    <3>2. SameTale(text, q, n, text', q, n)
      BY <2>1, <3>1, SameTexts
    <3>3. QED BY <2>3, <3>2
  <2>4. CASE \E j \in 2 .. n - 1 :
               /\ q[j - 1] = r1 /\ q[j] = r2
               /\ \A i \in 1 .. n : i # j - 1 /\ i # j => q[i] \notin {r1, r2}
               /\ Way(seq', node', w, Shrunk(q, n, j), n - 1)
    <3>1. PICK j \in 2 .. n - 1 :
               /\ q[j - 1] = r1 /\ q[j] = r2
               /\ \A i \in 1 .. n : i # j - 1 /\ i # j => q[i] \notin {r1, r2}
               /\ Way(seq', node', w, Shrunk(q, n, j), n - 1)
      BY <2>4
    <3> DEFINE z == Shrunk(q, n, j)
    <3>a. PICK l \in Nat : l = n - 1
      BY <2>1
    <3>b. PICK g \in 1 .. l : g = j - 1
      BY <2>1, <3>a
    <3>2. l \in Nat /\ l = n - 1 /\ g \in 1 .. l /\ g = j - 1
      BY <3>a, <3>b
    <3>3. \A i \in 1 .. l : z[i] = IF i < j THEN q[i] ELSE q[i + 1]
      BY <3>2 DEF Shrunk
    <3> DEFINE c == Told(text', z, l)
               d == Told(text, q, n)
               parts == <<text[r1], text[r2]>>
    <3>4. /\ \A i \in 1 .. l : c[i] = text'[z[i]]
          /\ \A i \in 1 .. n : d[i] = text[q[i]]
          /\ parts[1] = text[r1] /\ parts[2] = text[r2]
      BY DEF Told
    <3> HIDE DEF z, c, d, parts
    <3>5. \A i \in 1 .. n : i # j - 1 /\ i # j => text'[q[i]] = text[q[i]]
      BY <1>3, <2>1, <3>1
    <3>6. ASSUME NEW i \in 1 .. g - 1 PROVE d[i] = c[i]
      <4>1. i \in 1 .. l /\ i \in 1 .. n /\ i < j /\ i # j - 1 /\ i # j
        BY <2>1, <3>2
      <4>2. z[i] = q[i]
        BY <3>3, <4>1
      <4>3. QED BY <3>4, <3>5, <4>1, <4>2
    <3>7. ASSUME NEW i \in 1 .. 2 PROVE d[g - 1 + i] = parts[i]
      <4>1. j \in 1 .. n /\ j - 1 \in 1 .. n /\ g - 1 + 1 = j - 1 /\ g - 1 + 2 = j
        BY <2>1, <3>2
      <4>2. d[j - 1] = parts[1] /\ d[j] = parts[2]
        BY <3>1, <3>4, <4>1
      <4>3. i = 1 \/ i = 2
        OBVIOUS
      <4>4. QED BY <4>1, <4>2, <4>3
    <3>8. ASSUME NEW i \in 1 .. l - g PROVE d[g - 1 + 2 + i] = c[g + i]
      <4>1. PICK h \in 1 .. l : h = g + i /\ ~ (h < j)
        BY <2>1, <3>2
      <4>2. PICK k \in 1 .. n : k = h + 1 /\ k = g - 1 + 2 + i /\ k # j - 1 /\ k # j
        BY <2>1, <3>2, <4>1
      <4>3. z[h] = q[k]
        BY <3>3, <4>1, <4>2
      <4>4. d[k] = c[h]
        BY <3>4, <3>5, <4>2, <4>3
      <4>5. QED BY <4>1, <4>2, <4>4
    <3>9. Spells(parts, 2, c[g])
      <4>1. g < j /\ z[g] = r1
        BY <2>1, <3>1, <3>2, <3>3
      <4>2. c[g] = text[r1] \o text[r2]
        BY <1>1, <1>3, <3>4, <4>1
      <4>3. Spells(<<text[r1], text[r2]>>, 2, text[r1] \o text[r2])
        BY <1>2, PairSpells
      <4>4. QED BY <4>2, <4>3 DEF parts
    <3>10. Cut(c, l, g, parts, 2, d)
      BY <3>6, <3>7, <3>8 DEF Cut
    <3>11. l + (2 - 1) = n /\ 2 \in Nat /\ 2 >= 1
      BY <2>1, <3>2
    <3>12. ASSUME NEW G, NEW F, Joins(G, c, l), Joins(F, d, l + (2 - 1))
           PROVE  G[l] = F[l + (2 - 1)]
      BY ONLY <3>9, <3>10, <3>11, <3>12, l \in Nat, g \in 1 .. l, StretchTale, SMTT(60)
    <3>13. SameTale(text, q, n, text', z, l)
      BY <3>11, <3>12 DEF SameTale, c, d
    <3>14. QED BY <3>1, <3>2, <3>13 DEF z
  <2>5. QED BY <2>2, <2>3, <2>4
<1>5. QED BY <1>4 DEF Retold

-----------------------------------------------------------------------------
(* Merging.                                                                *)

\* Where the readings of a merge have the same text, what ran through the one
\* says the same through the other.
LEMMA MergeRetells ==
  ASSUME IInv, IInv', Ranked, AllRun, NEW s \in node, NEW t \in node, s # t, MergeNodes(s, t),
         text[s] = text[t], NEW w \in Sigil
  PROVE  Retold(seq, node, text, seq', node', text', w)
<1>1. PICK p \in node, n \in node : Merges(s, t, p, n)
  BY MergeLinks
<1>2. /\ s \notin {Start, End, p} /\ rank[s] = rank[t] /\ node' = node \ {s}
      /\ \A x : <<x, s>> \in DOMAIN seq <=> x = p
      /\ \A y : <<s, y>> \in DOMAIN seq <=> y = n
      /\ \A x, y :
           Has(seq', x, y, w) <=>
             /\ \/ Has(seq, x, y, w)
                \/ x = p /\ y = t /\ Has(seq, p, s, w)
                \/ x = t /\ y = n /\ Has(seq, s, n, w)
             /\ ~ (x = p /\ y = s) /\ ~ (x = s /\ y = n)
  BY <1>1 DEF Merges
<1>3. /\ {Start, End} \subseteq node /\ node \in SUBSET Reading /\ IsGraph(seq, node)
      /\ text \in [node -> Seq(Word)] /\ rank \in [node -> Nat] /\ Start # End
  BY CollationAssumption DEF IInv, TypeOK
<1>4. \A x \in node \ {s} : text'[x] = text[x]
  <2>1. text' = Without([text EXCEPT ![t] = Joined(text[s], @)], {s})
    BY DEF MergeNodes
  <2>2. Joined(text[s], text[t]) = text[t]
    <3>1. <<>> \o <<>> = <<>>
      OBVIOUS
    <3>2. QED BY <3>1 DEF Joined
  <2>3. QED BY <1>3, <2>1, <2>2 DEF Without
<1>5. Runs(seq, node, w)
  BY DEF AllRun
<1>6. \A x, y : Has(seq, x, y, w) => x \in node /\ y \in node /\ x \in Reading /\ y \in Reading
  BY <1>3 DEF Has, IsGraph
<1>7. \A y : ~ Has(seq, End, y, w)
  BY <1>5, <1>6 DEF Runs, BaseAfter, Has
<1>8. ASSUME NEW q, NEW l, Way(seq, node, w, q, l)
      PROVE  \E z, m : Way(seq', node', w, z, m) /\ SameTale(text, q, l, text', z, m)
  <2>1. /\ l \in Nat \ {0} /\ q \in [1 .. l -> node] /\ q[1] = Start /\ q[l] = End
        /\ \A i \in 1 .. l - 1 : q[i] # End
        /\ \A i \in 1 .. l - 1 : \A y : Has(seq, q[i], y, w) <=> y = q[i + 1]
    BY <1>8 DEF Way, Leads
  <2>2. CASE Has(seq, p, s, w)
    <3>1. BaseBefore(seq, s, w) # {} /\ BaseAfter(seq, s, w) # {}
      <4>1. p \in BaseBefore(seq, s, w)
        BY <1>3, <2>2 DEF BaseBefore, Has
      <4>2. QED BY <1>2, <1>5, <4>1 DEF Runs, IsOne
    <3>2. Has(seq, s, n, w)
      <4>1. PICK y : y \in BaseAfter(seq, s, w)
        BY <3>1
      <4>2. Has(seq, s, y, w)
        BY <4>1 DEF BaseAfter, Has
      <4>3. y = n
        BY <1>2, <4>2 DEF Has
      <4>4. QED BY <4>2, <4>3
    <3>3. BaseBefore(seq, t, w) = {}
      BY <1>2, <1>5, <3>1, OnePlace
    <3>4. t \notin {Start, End}
      <4>1. t # End
        BY <1>5, <3>3 DEF Runs, IsOne
      <4>2. t # Start
        BY <1>2, <1>3 DEF IInv, StartComesFirst
      <4>3. QED BY <4>1, <4>2
    <3>5. BaseAfter(seq, t, w) = {}
      BY <1>5, <3>3, <3>4 DEF Runs, IsOne
    <3>6. \A y : ~ Has(seq, t, y, w) /\ ~ Has(seq, y, t, w)
      BY <1>6, <3>3, <3>5 DEF BaseBefore, BaseAfter, Has
    <3>7. /\ \A x : Has(seq, x, s, w) <=> x = p
          /\ \A y : Has(seq, s, y, w) <=> y = n
      BY <1>2, <2>2, <3>2 DEF Has
    <3>8. \A x, y : Has(seq', x, y, w) <=>
            /\ Has(seq, x, y, w) \/ (x = p /\ y = t) \/ (x = t /\ y = n)
            /\ ~ (x = p /\ y = s) /\ ~ (x = s /\ y = n)
      BY <1>2, <2>2, <3>2
    <3>9. Rerouted(seq, seq', w, p, s, t, n)
      BY <3>6, <3>7, <3>8 DEF Rerouted
    <3>10. Way(seq', node, w, [i \in 1 .. l |-> IF q[i] = s THEN t ELSE q[i]], l)
      <4>1. s # Start /\ t # End /\ Start # End
        BY <1>2, <1>3, <3>4
      <4>2. QED BY ONLY <1>7, <1>8, <3>9, <4>1, t \in node, RerouteWay
    <3> DEFINE z == [i \in 1 .. l |-> IF q[i] = s THEN t ELSE q[i]]
    <3>11. z \in [1 .. l -> node'] /\ \A i \in 1 .. l : z[i] = IF q[i] = s THEN t ELSE q[i]
      BY <1>2, <2>1
    <3>12. Way(seq', node', w, z, l)
      BY <3>10, <3>11 DEF Way
    <3>13. \A i \in 1 .. l : text[q[i]] = text'[z[i]]
      BY <1>2, <1>4, <2>1, <3>11
    <3> HIDE DEF z
    <3>14. SameTale(text, q, l, text', z, l)
      BY <2>1, <3>13, SameTexts
    <3>15. QED BY <3>12, <3>14
  <2>3. CASE ~ Has(seq, p, s, w)
    <3>1. \A x : ~ Has(seq, x, s, w)
      BY <1>2, <2>3 DEF Has
    <3>2. \A y : ~ Has(seq, s, y, w)
      <4>1. BaseBefore(seq, s, w) = {}
        BY <3>1 DEF BaseBefore, Has
      <4>2. BaseAfter(seq, s, w) = {}
        BY <1>2, <1>5, <4>1 DEF Runs, IsOne
      <4>3. QED BY <1>6, <4>2 DEF BaseAfter, Has
    <3>3. \A x, y : Has(seq', x, y, w) <=> Has(seq, x, y, w)
      BY <1>2, <3>1, <3>2
    <3>4. ASSUME NEW i \in 1 .. l PROVE q[i] # s
      <4>1. CASE i = 1
        BY <1>2, <2>1, <4>1
      <4>2. CASE i # 1
        <5>1. i - 1 \in 1 .. l - 1 /\ i - 1 + 1 = i
          BY <2>1, <4>2
        <5>2. Has(seq, q[i - 1], q[i - 1 + 1], w)
          BY <2>1, <5>1
        <5>3. Has(seq, q[i - 1], q[i], w)
          BY <5>1, <5>2
        <5>4. QED BY <3>1, <5>3
      <4>3. QED BY <4>1, <4>2
    <3>5. q \in [1 .. l -> node'] /\ \A i \in 1 .. l : text[q[i]] = text'[q[i]]
      BY <1>2, <1>4, <2>1, <3>4
    <3>6. Way(seq', node', w, q, l)
      BY <1>8, <3>3, <3>5 DEF Way, Leads
    <3>7. SameTale(text, q, l, text', q, l)
      BY <2>1, <3>5, SameTexts
    <3>8. QED BY <3>6, <3>7
  <2>4. QED BY <2>2, <2>3
<1>9. QED BY <1>8 DEF Retold

-----------------------------------------------------------------------------
(* What the requests keep.                                                 *)

LEMMA TextStep ==
  TInv /\ EndsLast /\ [Next]_vars =>
    [StillSay(Sigil \X {Base}) \/ MergeStep \/ SplitShort]_vars
<1> SUFFICES ASSUME TInv, EndsLast, Next, ~ MergeStep, ~ SplitShort
             PROVE  StillSay(Sigil \X {Base})
  OBVIOUS
<1>1. IInv /\ IInv'
  BY NextInv DEF TInv
<1>2. CASE DupCommit
  <2>1. AllCarried
    BY <1>2 DEF TInv, DupCommit
  <2>2. \A w \in Sigil : Retold(seq, node, text, seq', node', text', w)
    BY <1>1, <1>2, <2>1, DupCommitRetells
  <2>3. QED BY <1>1, <2>2, StillSaid
<1>3. CASE SplitStep
  <2>1. PICK r \in node : \E parts \in Cuts(text[r]) : \E byPattern \in BOOLEAN :
               \E fresh \in [1 .. (Len(parts) - 1) -> Reading] : Split(r, parts, fresh, byPattern)
    BY <1>3 DEF SplitStep
  <2>2. PICK parts \in Cuts(text[r]) : \E byPattern \in BOOLEAN :
               \E fresh \in [1 .. (Len(parts) - 1) -> Reading] : Split(r, parts, fresh, byPattern)
    BY <2>1
  <2>3. PICK byPattern \in BOOLEAN : \E fresh \in [1 .. (Len(parts) - 1) -> Reading] :
               Split(r, parts, fresh, byPattern)
    BY <2>2
  <2>4. PICK fresh \in [1 .. (Len(parts) - 1) -> Reading] : Split(r, parts, fresh, byPattern)
    BY <2>3
  <2>5. CASE parts \in Divided(text[r])
    <3>1. \A w \in Sigil : Retold(seq, node, text, seq', node', text', w)
      BY <1>1, <2>4, <2>5, SplitRetells
    <3>2. QED BY <1>1, <3>1, StillSaid
  <2>6. CASE parts \notin Divided(text[r])
    <3>1. parts \in Shortened(text[r])
      BY <2>6 DEF Cuts
    <3>2. byPattern = TRUE
      BY <2>4, <2>6 DEF Split
    <3>3. SplitShort
      BY <2>4, <3>1, <3>2 DEF SplitShort
    <3>4. QED BY <3>3
  <2>7. QED BY <2>5, <2>6
<1>4. CASE CompressStep
  <2>1. \A w \in Sigil : Retold(seq, node, text, seq', node', text', w)
    BY <1>1, <1>4, CompressRetells DEF CompressStep
  <2>2. QED BY <1>1, <2>1, StillSaid
<1>5. CASE ~DupCommit /\ ~SplitStep /\ ~CompressStep
  <2>1. UNCHANGED <<seq, text>>
    <3>1. CASE PutBackStep \/ LookUpStep \/ Crash
      BY <3>1 DEF PutBackStep, PutBack, LookUpStep, LookUp, Crash
    <3>2. CASE ~PutBackStep /\ ~LookUpStep /\ ~Crash
      BY <1>5, <3>2 DEF Next, DuplicateStep, DupOpen, DupReading, DupWitness, DupRelations,
                DupAbort, RankStep, ChangeRank, LemmaStep, SetLemma, SetLemmaText,
                RelationStep, RelateStep, Relate, Unrelate, UnrelateAlike, UnrelateAll, CreateType
    <3>3. QED BY <3>1, <3>2
  <2>2. QED BY <2>1 DEF StillSay
<1>6. QED BY <1>2, <1>3, <1>4, <1>5

LEMMA TextInit == Init => TInv /\ EndsLast
<1> SUFFICES ASSUME Init PROVE TInv /\ EndsLast
  OBVIOUS
<1>1. IInv /\ dup = Closed
  BY InitInv DEF Init
<1>2. AllRun
  BY CollationAssumption DEF Init, WellFormed, AllRun
<1>3. EndsLast
  BY <1>2 DEF AllRun, Runs, BaseAfter, EndsLast, Has
<1>4. QED BY <1>1, <1>3 DEF TInv

\* Duplicating, splitting and compressing keep what every base text says in a
\* graph in which no base text goes on behind the end, but for the split by a
\* regular expression at an index, which takes words out of it.
THEOREM BaseTextStays == Spec /\ []EndsLast => BaseTextKept
BY TextInit, CarriedInv, TextStep, PTL DEF Spec, BaseTextKept

LEMMA EndStep ==
  TInv /\ [Next]_vars => [(EndsLast => EndsLast') \/ \E s \in node : MergeNodes(s, End)]_vars
<1> SUFFICES ASSUME TInv, Next, EndsLast, ~ \E s \in node : MergeNodes(s, End)
             PROVE  EndsLast'
  OBVIOUS
<1>1. IInv
  BY DEF TInv
<1>2. /\ {Start, End} \subseteq node /\ node \in SUBSET Reading /\ IsGraph(seq, node)
  BY <1>1 DEF IInv, TypeOK
<1>3. \A y, w : Has(seq, End, y, w) => y \in Reading
  BY <1>2 DEF Has, IsGraph
<1>4. SUFFICES ASSUME NEW y \in Reading, NEW w \in Sigil, Has(seq', End, y, w) PROVE FALSE
  BY DEF EndsLast, Has
<1>5. CASE DupCommit
  <2>1. AllCarried /\ seq' = dup.seq
    BY <1>5 DEF TInv, DupCommit
  <2>2. QED BY <1>4, <2>1 DEF AllCarried
<1>6. CASE SplitStep
  <2>1. PICK r \in node : \E parts \in Cuts(text[r]) : \E byPattern, fresh :
                              Split(r, parts, fresh, byPattern)
    BY <1>6 DEF SplitStep
  <2>2. PICK parts \in Cuts(text[r]) : \E byPattern, fresh : Split(r, parts, fresh, byPattern)
    BY <2>1
  <2> DEFINE k == Len(parts)
  <2>3. PICK e : Drawn(e, k, node) /\ DrawnOut(seq, seq', w, e, k)
    BY <1>1, <2>2, SplitDraws
  <2> HIDE DEF k
  <2>4. \A i \in 1 .. k : e[i] # End
    <3>1. k \in Nat /\ e[1] # End /\ \A i \in 2 .. k : e[i] \notin node
      BY <2>3 DEF Drawn
    <3>2. \A i \in 1 .. k : i = 1 \/ i \in 2 .. k
      BY <3>1
    <3>3. QED BY <1>2, <3>1, <3>2
  <2>5. k \in 1 .. k /\ \A i \in 1 .. k - 1 : i \in 1 .. k
    BY <2>3 DEF Drawn
  <2>6. Has(seq, End, y, w)
    BY <1>2, <1>4, <2>3, <2>4, <2>5 DEF DrawnOut
  <2>7. QED BY <2>6 DEF EndsLast
<1>7. CASE CompressStep
  <2>1. PICK r1 \in node, r2 \in node : Compress(r1, r2)
    BY <1>7 DEF CompressStep
  <2>2. r1 # End /\ DrawnIn(seq, seq', w, r1, r2)
    BY <1>1, <2>1, CompressDraws
  <2>3. Has(seq, End, y, w)
    BY <1>2, <1>4, <2>2 DEF DrawnIn
  <2>4. QED BY <2>3 DEF EndsLast
<1>8. CASE MergeStep
  <2>1. PICK s \in node, t \in node : MergeNodes(s, t)
    BY <1>8 DEF MergeStep
  <2>2. PICK p \in node, n \in node : Merges(s, t, p, n)
    BY <1>1, <2>1, MergeLinks
  <2>3. t # End
    BY <2>1
  <2>4. Has(seq, End, y, w) \/ Has(seq, End, s, w)
    BY <1>4, <2>2, <2>3 DEF Merges
  <2>5. QED BY <1>3, <2>4 DEF EndsLast
<1>9. CASE ~DupCommit /\ ~SplitStep /\ ~CompressStep /\ ~MergeStep
  <2>1. UNCHANGED seq
    <3>1. CASE PutBackStep \/ LookUpStep \/ Crash
      BY <3>1 DEF PutBackStep, PutBack, LookUpStep, LookUp, Crash
    <3>2. CASE ~PutBackStep /\ ~LookUpStep /\ ~Crash
      BY <1>9, <3>2 DEF Next, DuplicateStep, DupOpen, DupReading, DupWitness, DupRelations,
                DupAbort, RankStep, ChangeRank, LemmaStep, SetLemma, SetLemmaText,
                RelationStep, RelateStep, Relate, Unrelate, UnrelateAlike, UnrelateAll, CreateType
    <3>3. QED BY <3>1, <3>2
  <2>2. QED BY <1>4, <2>1 DEF EndsLast
<1>10. QED BY <1>5, <1>6, <1>7, <1>8, <1>9

\* Nothing but a merge onto the end lets a base text go on behind it.
THEOREM EndStaysLast ==
  Spec => [][(EndsLast => EndsLast') \/ \E s \in node : MergeNodes(s, End)]_vars
BY TextInit, CarriedInv, EndStep, PTL DEF Spec

LEMMA MergeTextStep ==
  IInv /\ AllRun /\ [Next]_vars =>
    [\A s, t \in node : (MergeNodes(s, t) /\ s # t /\ Ranked /\ text[s] = text[t]) =>
        StillSay(Sigil \X {Base})]_vars
<1> SUFFICES ASSUME IInv, AllRun, Next, NEW s \in node, NEW t \in node, MergeNodes(s, t),
                    s # t, Ranked, text[s] = text[t]
             PROVE  StillSay(Sigil \X {Base})
  OBVIOUS
<1>1. IInv'
  BY NextInv
<1>2. \A w \in Sigil : Retold(seq, node, text, seq', node', text', w)
  BY <1>1, MergeRetells
<1>3. QED BY <1>1, <1>2, StillSaid

\* Attaching a reading to another of the same text keeps what every base text
\* says, in a collation with ranks in order in which every witness has its path.
THEOREM MergesKeepText == Spec /\ []AllRun => MergeKeepsText
BY InitInv, NextInv, MergeTextStep, PTL DEF Spec, Init, MergeKeepsText

-----------------------------------------------------------------------------
(* The check for a cycle.                                                  *)

Onward(links, S) == S \cup {e[2] : e \in {l \in links : l[1] \in S}}

\* What the traversal has visited after each of its rounds.
Visits(f, links, a) ==
  /\ f \in [0 .. Cardinality(node) -> SUBSET node]
  /\ f[0] = {a}
  /\ \A k \in 1 .. Cardinality(node) : f[k] = Onward(links, f[k - 1])

LEMMA VisitSteps ==
  ASSUME IsFiniteSet(node), NEW links \in SUBSET (node \X node), NEW a \in node
  PROVE  \E f : Visits(f, links, a) /\ Reached(links, a) = f[Cardinality(node)]
<1> DEFINE C == Cardinality(node)
           S == SUBSET node
           g == [k \in Nat |-> [T \in S |-> Onward(links, T)]]
           onward == [T \in SUBSET node |-> T \cup {e[2] : e \in {l \in links : l[1] \in T}}]
           visit[k \in 0 .. C] == IF k = 0 THEN {a} ELSE onward[visit[k - 1]]
<1>1. Reached(links, a) = visit[C]
  BY DEF Reached
<1>2. visit = CHOOSE f : f = [k \in 0 .. C |-> IF k = 0 THEN {a} ELSE onward[f[k - 1]]]
  OBVIOUS
<1> HIDE DEF visit
<1>3. \A T \in S : onward[T] = Onward(links, T)
  BY DEF Onward
<1> HIDE DEF onward
<1>4. \A T \in S : Onward(links, T) \in S
  BY DEF Onward
<1>5. g \in [Nat -> [S -> S]] /\ {a} \in S /\ C \in Nat
  BY <1>4, FS_CardinalityType
<1>6. PICK f : Unrolls(f, C, S, {a}, g)
  BY <1>5, Recursion
<1>7. f \in [0 .. C -> S] /\ f[0] = {a} /\ \A k \in 1 .. C : f[k] = Onward(links, f[k - 1])
  <2>1. \A k \in Nat, T \in S : g[k][T] = Onward(links, T)
    OBVIOUS
  <2> HIDE DEF g, S
  <2>2. f \in [0 .. C -> S] /\ f[0] = {a} /\ \A k \in 1 .. C : f[k] = g[k][f[k - 1]]
    BY <1>6 DEF Unrolls
  <2>3. \A k \in 1 .. C : k \in Nat /\ k - 1 \in 0 .. C
    BY <1>5
  <2>4. QED BY <2>1, <2>2, <2>3
<1>8. f = [k \in 0 .. C |-> IF k = 0 THEN {a} ELSE onward[f[k - 1]]]
  <2>1. \A k \in 0 .. C : k = 0 \/ (k \in 1 .. C /\ k - 1 \in 0 .. C)
    BY <1>5
  <2> HIDE DEF S
  <2>2. \A k \in 0 .. C : f[k] = IF k = 0 THEN {a} ELSE onward[f[k - 1]]
    BY <1>3, <1>7, <2>1
  <2>3. QED BY <1>7, <2>2
<1>9. visit = [k \in 0 .. C |-> IF k = 0 THEN {a} ELSE onward[visit[k - 1]]]
  BY <1>2, <1>8
<1> DEFINE B == {k \in Nat : k <= C /\ visit[k] # f[k]}
<1>10. B = {}
  <2>1. SUFFICES ASSUME B # {} PROVE FALSE
    OBVIOUS
  <2>2. B \in SUBSET Nat
    OBVIOUS
  <2>3. PICK k \in B : \A j \in B : k <= j
    BY <2>1, <2>2, Least
  <2>4. k \in 0 .. C /\ visit[k] # f[k]
    BY <1>5
  <2>5. CASE k = 0
    BY <1>7, <1>9, <2>4, <2>5
  <2>6. CASE k # 0
    <3>1. k - 1 \in Nat /\ k - 1 <= C /\ k - 1 \notin B /\ k \in 0 .. C
      BY <1>5, <2>3, <2>4, <2>6
    <3>2. visit[k - 1] = f[k - 1]
      BY <3>1
    <3> HIDE DEF B
    <3>3. visit[k] = onward[visit[k - 1]] /\ f[k] = onward[f[k - 1]]
      BY <1>8, <1>9, <2>6, <3>1
    <3>4. QED BY <2>4, <3>2, <3>3
  <2>7. QED BY <2>5, <2>6
<1>11. visit[C] = f[C]
  BY <1>5, <1>10
<1>12. QED BY <1>1, <1>7, <1>11 DEF Visits

\* The traversal leaves out nothing: every round but the last has come by a new
\* reading, or nothing new was left.
LEMMA ReachedAll ==
  ASSUME IsFiniteSet(node), NEW links \in SUBSET (node \X node), NEW a \in node
  PROVE  /\ a \in Reached(links, a) /\ Reached(links, a) \subseteq node
         /\ \A e \in links : e[1] \in Reached(links, a) => e[2] \in Reached(links, a)
<1> DEFINE C == Cardinality(node)
<1>1. PICK f : Visits(f, links, a) /\ Reached(links, a) = f[C]
  BY VisitSteps
<1>2. /\ f \in [0 .. C -> SUBSET node] /\ f[0] = {a}
      /\ \A k \in 1 .. C : f[k] = Onward(links, f[k - 1])
  BY <1>1 DEF Visits
<1>3. C \in Nat
  BY FS_CardinalityType
<1> HIDE DEF C
<1> DEFINE Settled(k) == Onward(links, f[k]) = f[k]
           B == {k \in Nat : k <= C /\ ~ (a \in f[k] /\ (Settled(k) \/ k + 1 <= Cardinality(f[k])))}
<1>4. \A k \in 0 .. C : IsFiniteSet(f[k]) /\ Cardinality(f[k]) \in Nat /\ Cardinality(f[k]) <= C
  BY <1>2, FS_Subset, FS_CardinalityType DEF C
<1>5. B = {}
  <2>1. SUFFICES ASSUME B # {} PROVE FALSE
    OBVIOUS
  <2>2. B \in SUBSET Nat
    OBVIOUS
  <2>3. PICK k \in B : \A j \in B : k <= j
    BY <2>1, <2>2, Least
  <2>4. k \in 0 .. C
    BY <1>3
  <2>5. CASE k = 0
    <3>1. a \in f[0] /\ Cardinality(f[0]) = 1
      BY <1>2, FS_Singleton
    <3>2. QED BY <2>5, <3>1
  <2>6. CASE k # 0
    <3>1. k \in 1 .. C /\ k - 1 \in 0 .. C /\ k - 1 \notin B
      BY <1>3, <2>3, <2>4, <2>6
    <3>2. a \in f[k - 1] /\ (Settled(k - 1) \/ k <= Cardinality(f[k - 1]))
      BY <3>1
    <3>3. f[k] = Onward(links, f[k - 1]) /\ f[k - 1] \subseteq f[k]
      BY <1>2, <3>1 DEF Onward
    <3>4. CASE Settled(k - 1)
      BY <3>2, <3>3, <3>4
    <3>5. CASE ~ Settled(k - 1)
      <4>1. f[k - 1] # f[k] /\ f[k - 1] \in SUBSET f[k]
        BY <3>3, <3>5
      <4>2. IsFiniteSet(f[k]) /\ Cardinality(f[k]) \in Nat /\ Cardinality(f[k - 1]) \in Nat
        BY <1>4, <2>4, <3>1
      <4>3. Cardinality(f[k - 1]) <= Cardinality(f[k]) /\ Cardinality(f[k]) # Cardinality(f[k - 1])
        BY <4>1, <4>2, FS_Subset
      <4>4. k + 1 <= Cardinality(f[k])
        BY <2>4, <3>2, <3>5, <4>2, <4>3
      <4>5. QED BY <3>2, <3>3, <4>4
    <3>6. QED BY <3>4, <3>5
  <2>7. QED BY <2>5, <2>6
<1>6. a \in f[C] /\ Settled(C)
  <2>1. C \in 0 .. C /\ C \notin B
    BY <1>3, <1>5
  <2>2. QED BY <1>3, <1>4, <2>1
<1>7. f[C] \subseteq node
  BY <1>2, <1>3
<1>8. QED BY <1>1, <1>6, <1>7 DEF Onward

\* Where ranks rise along the links, a way from one reading to another is found
\* in whatever order the walk takes the links.
LEMMA WayIsFound ==
  ASSUME IInv, Ranked, NEW lo \in node, NEW hi \in node, LeadsTo(lo, hi)
  PROVE  rank[lo] < rank[hi] /\ MustReach(DOMAIN seq, lo, hi)
<1> DEFINE links == DOMAIN seq
           early == Early(links, hi)
           late  == {e \in links \ early : e[1] \in Reached(early, lo)}
           cut   == {e[2] : e \in late} \ {lo}
           open  == {e \in links : e[1] \notin cut}
           R     == Reached(early, lo)
<1>1. /\ node \in SUBSET Reading /\ IsFiniteSet(node) /\ links \subseteq node \X node
      /\ rank \in [node -> Nat]
  BY CollationAssumption, FS_Subset DEF IInv, TypeOK, IsGraph
<1>2. \A e \in links : e[1] \in node /\ e[2] \in node /\ rank[e[1]] < rank[e[2]]
  BY <1>1 DEF Ranked, RanksIncrease
<1>3. lo # hi /\ \A S \in SUBSET node :
        lo \in S /\ (\A e \in links : e[1] \in S => e[2] \in S) => hi \in S
  BY DEF LeadsTo
<1>4. rank[lo] < rank[hi]
  <2> DEFINE S == {lo} \cup {n \in node : rank[lo] < rank[n]}
  <2>1. \A e \in links : e[1] \in S => e[2] \in S
    BY <1>1, <1>2
  <2>2. S \in SUBSET node /\ lo \in S
    OBVIOUS
  <2>3. hi \in S
    BY <1>3, <2>1, <2>2
  <2>4. QED BY <1>3, <2>3
<1>5. early = {e \in links : rank[e[1]] < rank[hi]}
  BY DEF Early
<1>6. early \in SUBSET (node \X node)
  BY <1>1, <1>5
<1>7. lo \in R /\ R \subseteq node /\ \A e \in early : e[1] \in R => e[2] \in R
  BY <1>1, <1>6, ReachedAll
<1>8. \A n \in cut : n \in node /\ rank[hi] < rank[n]
  BY <1>1, <1>2, <1>5
<1>9. Early(open, hi) = early
  <2>1. \A e \in early : e \in open
    BY <1>1, <1>2, <1>5, <1>8
  <2>2. QED BY <1>5, <2>1 DEF Early
<1> HIDE DEF early, R
<1>10. PICK e \in open : e[2] = hi /\ e[1] \in R
  <2> DEFINE S == (R \ {hi}) \cup {n \in node \ {hi} : rank[hi] <= rank[n]}
  <2>1. SUFFICES ASSUME \A e \in open : ~ (e[2] = hi /\ e[1] \in R) PROVE FALSE
    OBVIOUS
  <2>2. ASSUME NEW e \in links, e[1] \in S PROVE e[2] \in S
    <3>1. e[1] \in node /\ e[2] \in node /\ rank[e[1]] < rank[e[2]]
      BY <1>2
    <3>2. CASE rank[hi] <= rank[e[1]]
      BY <1>1, <3>1, <3>2
    <3>3. CASE rank[e[1]] < rank[hi]
      <4>1. ~ (rank[hi] <= rank[e[1]]) /\ ~ (rank[hi] < rank[e[1]])
        BY <1>1, <3>1, <3>3
      <4>2. e \in early /\ e[1] \in R
        BY <1>5, <2>2, <3>3, <4>1
      <4> HIDE DEF cut
      <4>3. e[1] \notin cut
        BY <1>8, <4>1
      <4>4. e[2] \in R
        BY <1>7, <4>2
      <4>5. e[2] # hi
        BY <2>1, <4>2, <4>3
      <4>6. QED BY <4>4, <4>5
    <3>4. QED BY <1>1, <3>1, <3>2, <3>3
  <2>3. S \in SUBSET node /\ lo \in S
    BY <1>3, <1>7
  <2>4. hi \in S
    BY <1>3, <2>2, <2>3
  <2>5. QED BY <2>4
<1>11. MayReach(open, lo, hi)
  BY <1>9, <1>10 DEF MayReach, R, early
<1>12. QED BY <1>4, <1>11 DEF MustReach, early

\* What is newly related is related by a request that has looked for a cycle.
LEMMA NewlyRelated ==
  ASSUME IInv, Next, dup = Closed, NEW p \in related' \ related
  PROVE  CanRelate(p.src, p.tgt)
<1>1. CASE RelateStep
  <2>1. PICK a \in node, b \in node, t \in Type : Relate(a, b, t)
    BY <1>1 DEF RelateStep
  <2>2. QED BY <2>1 DEF Relate, Relating
<1>2. CASE PutBackStep
  <2>1. PICK q \in pending : \E o \in q.left : PutBack(q, o)
    BY <1>2 DEF PutBackStep
  <2>2. PICK o \in q.left : PutBack(q, o)
    BY <2>1
  <2>3. CanRelate(o.src, o.tgt) /\ Relating(o.src, o.tgt, o.type)
    BY <2>2 DEF PutBack
  <2>4. QED BY <2>3 DEF Relating
<1>3. CASE ~ RelateStep /\ ~ PutBackStep
  <2>1. related' \subseteq related
    <3>1. CASE SplitStep \/ CompressStep \/ MergeStep
      <4>1. CASE SplitStep
        BY <4>1 DEF SplitStep, Split
      <4>2. CASE CompressStep
        BY <4>2 DEF CompressStep, Compress
      <4>3. CASE MergeStep
        BY <4>3 DEF MergeStep, MergeNodes
      <4>4. QED BY <3>1, <4>1, <4>2, <4>3
    <3>2. CASE DuplicateStep
      BY <3>2 DEF DuplicateStep, DupOpen, DupReading, DupWitness, DupRelations, DupCommit, DupAbort
    <3>3. CASE LookUpStep \/ Crash
      BY <3>3 DEF LookUpStep, LookUp, Crash
    <3>4. CASE RankStep \/ LemmaStep
      BY <3>4 DEF RankStep, ChangeRank, LemmaStep, SetLemma, SetLemmaText
    <3>5. CASE RelationStep
      BY <1>3, <3>5 DEF RelationStep, Unrelate, UnrelateAlike, UnrelateAll, CreateType
    <3>6. QED BY <1>3, <3>1, <3>2, <3>3, <3>4, <3>5 DEF Next
  <2>2. QED BY <2>1
<1>4. QED BY <1>1, <1>2, <1>3

LEMMA ApartStep ==
  IInv /\ [Next]_vars =>
    [dup = Closed /\ Ranked /\ lemmaLink = {} =>
       \A p \in related' \ related : ~ LeadsTo(p.src, p.tgt) /\ ~ LeadsTo(p.tgt, p.src)]_vars
<1> SUFFICES ASSUME IInv, Next, dup = Closed, Ranked, lemmaLink = {},
                    NEW p \in related' \ related
             PROVE  ~ LeadsTo(p.src, p.tgt) /\ ~ LeadsTo(p.tgt, p.src)
  OBVIOUS
<1> DEFINE a == p.src
           b == p.tgt
<1>1. CanRelate(a, b)
  BY NewlyRelated
<1>2. a \in node /\ b \in node /\ MayFindNoCycle(a, b)
  BY <1>1 DEF CanRelate
<1>3. rank[a] \in Nat /\ rank[b] \in Nat
  BY <1>2 DEF IInv, TypeOK
<1> HIDE DEF a, b
<1>4. DOMAIN seq \cup lemmaLink = DOMAIN seq /\ ~ MayReach(lemmaLink, Lower(a, b), Higher(a, b))
  BY DEF MayReach
<1>5. a = b \/ ~ MustReach(DOMAIN seq, Lower(a, b), Higher(a, b))
  BY <1>2, <1>4 DEF MayFindNoCycle
<1>6. ASSUME LeadsTo(a, b) PROVE FALSE
  <2>1. rank[a] < rank[b] /\ MustReach(DOMAIN seq, a, b)
    BY <1>2, <1>6, WayIsFound
  <2>2. Lower(a, b) = a /\ Higher(a, b) = b /\ a # b
    BY <1>3, <2>1 DEF Lower, Higher
  <2>3. QED BY <1>5, <2>1, <2>2
<1>7. ASSUME LeadsTo(b, a) PROVE FALSE
  <2>1. rank[b] < rank[a] /\ MustReach(DOMAIN seq, b, a)
    BY <1>2, <1>7, WayIsFound
  <2>2. Lower(a, b) = b /\ Higher(a, b) = a /\ a # b
    BY <1>3, <2>1 DEF Lower, Higher
  <2>3. QED BY <1>5, <2>1, <2>2
<1>8. QED BY <1>6, <1>7 DEF a, b

\* Readings that follow each other are never newly related in a graph whose
\* ranks are in order and that has no lemma text, also by a relation that is
\* put back late: wouldGetCyclic misses no way that pruning by rank allows.
THEOREM RelatedStayApart == Spec => RelatedApart
BY InitInv, NextInv, ApartStep, PTL DEF Spec, RelatedApart

=============================================================================
