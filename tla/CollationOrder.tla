---------------------------- MODULE CollationOrder ----------------------------
(***************************************************************************)
(* Which requests keep the order of the ranks, the places of the lemmata   *)
(* and the paths of the witnesses, what a duplicate separates, and that    *)
(* the lemma text stays readable: for any number of readings and witnesses.*)
(***************************************************************************)
EXTENDS CollationProofs, WellFoundedInduction

-----------------------------------------------------------------------------
(* The order of the ranks.                                                 *)

\* The rank a reading has for the open transaction: a copy that of its original.
DupRank(n) == IF n \in node THEN rank[n] ELSE rank[dup.from[n]]

DupRanked == \A p \in DOMAIN dup.seq : DupRank(p[1]) < DupRank(p[2])

\* Nobody else writes while a transaction is open, so the ranks it has read
\* are those it commits among.
RInv == IInv /\ (dup # Closed /\ Ranked => DupRanked)

LEMMA DupOpenRanked ==
  ASSUME RInv, NEW wits \in SUBSET Label, DupOpen(wits)
  PROVE  Ranked' => DupRanked'
<1>1. dup'.seq = seq /\ seq' = seq /\ rank' = rank /\ node' = node
  BY DEF DupOpen
<1>2. \A p \in DOMAIN seq : p[1] \in node /\ p[2] \in node
  BY DEF RInv, IInv, TypeOK, IsGraph
<1>3. QED BY <1>1, <1>2 DEF Ranked, RanksIncrease, DupRanked, DupRank

LEMMA DupReadingRanked ==
  ASSUME RInv, NEW r \in Reading, NEW c \in Reading, DupReading(r, c)
  PROVE  Ranked' => DupRanked'
<1> DEFINE from2 == [n \in DOMAIN dup.from \cup {c} |-> IF n = c THEN r ELSE dup.from[n]]
<1>1. /\ dup # Closed /\ c \notin node \cup DOMAIN dup.from
      /\ UNCHANGED <<node, seq, rank>>
      /\ dup' = [dup EXCEPT !.todo = dup.wits, !.busy = TRUE, !.cur = r, !.copy = c,
                            !.from = from2]
  BY DEF DupReading
<1>2. TransactionOK
  BY <1>1 DEF RInv, IInv, DupOK
<1>3. dup'.seq = dup.seq /\ dup'.from = from2
  BY <1>1, <1>2 DEF TransactionOK
<1>4. \A p \in DOMAIN dup.seq : {p[1], p[2]} \subseteq node \cup DOMAIN dup.from
  BY <1>2 DEF TransactionOK, IsGraph
<1>5. \A n \in node \cup DOMAIN dup.from : DupRank(n)' = DupRank(n)
  BY <1>1, <1>3 DEF DupRank
<1>6. Ranked' => DupRanked
  BY <1>1 DEF RInv, Ranked
<1>7. QED BY <1>3, <1>4, <1>5, <1>6 DEF DupRanked

LEMMA DupWitnessRanked ==
  ASSUME RInv, NEW lab \in Label, DupWitness(lab)
  PROVE  Ranked' => DupRanked'
<1>1. dup # Closed /\ lab \in dup.todo /\ UNCHANGED <<node, seq, rank>>
  BY DEF DupWitness
<1>2. DupOK /\ TransactionOK /\ dup.busy
  BY <1>1 DEF RInv, IInv, DupOK
<1>3. PICK p \in Reading, n \in Reading :
        /\ PriorOf(dup.seq, dup.cur, lab) = {p}
        /\ NextOf(dup.seq, dup.cur, lab) = {n}
        /\ dup' = [dup EXCEPT !.todo = dup.todo \ {lab},
                     !.seq = RemoveLink(RemoveLink(
                               AddLink(AddLink(dup.seq, p, dup.copy, lab), dup.copy, n, lab),
                               p, dup.cur, lab, "end"), dup.cur, n, lab, "start")]
  BY DEF DupWitness
<1> DEFINE s1 == AddLink(dup.seq, p, dup.copy, lab)
           s2 == AddLink(s1, dup.copy, n, lab)
           s3 == RemoveLink(s2, p, dup.cur, lab, "end")
           s4 == RemoveLink(s3, dup.cur, n, lab, "start")
<1>4. <<p, dup.cur>> \in DOMAIN dup.seq /\ <<dup.cur, n>> \in DOMAIN dup.seq
  <2>1. p \in Before(dup.seq, dup.cur) /\ n \in After(dup.seq, dup.cur)
    BY <1>3 DEF PriorOf, NextOf
  <2>2. \A q \in DOMAIN dup.seq : q = <<q[1], q[2]>>
    BY <1>2 DEF TransactionOK, IsGraph
  <2>3. QED BY <2>1, <2>2 DEF Before, After
<1>5. DupRank(dup.copy) = DupRank(dup.cur)
  BY <1>2 DEF DupOK, TransactionOK, DupRank
<1>6. dup'.seq = s4 /\ dup'.from = dup.from
  BY <1>2, <1>3 DEF TransactionOK
<1>7. DOMAIN s4 \subseteq DOMAIN dup.seq \cup {<<p, dup.copy>>, <<dup.copy, n>>}
  <2>1. \A s, a, b, l, c : DOMAIN RemoveLink(s, a, b, l, c) \subseteq DOMAIN s
    BY DEF RemoveLink
  <2>2. DOMAIN s4 \subseteq DOMAIN s3 /\ DOMAIN s3 \subseteq DOMAIN s2
    BY <2>1
  <2>3. DOMAIN s1 = DOMAIN dup.seq \cup {<<p, dup.copy>>}
    BY DEF AddLink
  <2>4. DOMAIN s2 = DOMAIN s1 \cup {<<dup.copy, n>>}
    <3> HIDE DEF s1
    <3> QED BY DEF AddLink
  <2> HIDE DEF s1, s2, s3, s4
  <2>5. QED BY <2>2, <2>3, <2>4
<1> HIDE DEF s4
<1>8. Ranked' => DupRanked
  BY <1>1 DEF RInv, Ranked
<1>9. \A m : DupRank(m)' = DupRank(m)
  BY <1>1, <1>6 DEF DupRank
<1>10. QED BY <1>4, <1>5, <1>6, <1>7, <1>8, <1>9 DEF DupRanked

LEMMA DupRelationsRanked ==
  ASSUME RInv, DupRelations
  PROVE  Ranked' => DupRanked'
<1>1. dup # Closed /\ UNCHANGED <<node, seq, rank>>
  BY DEF DupRelations
<1>2. TransactionOK
  BY <1>1 DEF RInv, IInv, DupOK
<1>3. dup'.seq = dup.seq /\ dup'.from = dup.from
  BY <1>2 DEF DupRelations, TransactionOK
<1>4. QED BY <1>1, <1>3 DEF RInv, Ranked, DupRanked, DupRank

\* No other request runs inside an open transaction.
LEMMA OthersWait ==
  ASSUME Next, ~DuplicateStep
  PROVE  dup' = Closed
<1>1. CASE PutBackStep \/ LookUpStep \/ Crash
  <2>1. CASE PutBackStep
    BY <2>1 DEF PutBackStep, PutBack
  <2>2. CASE LookUpStep
    BY <2>2 DEF LookUpStep, LookUp
  <2>3. CASE Crash
    BY <2>3 DEF Crash
  <2>4. QED BY <1>1, <2>1, <2>2, <2>3
<1>2. CASE SplitStep
  BY <1>2 DEF SplitStep, Split
<1>3. CASE CompressStep
  BY <1>3 DEF CompressStep, Compress
<1>4. CASE MergeStep
  BY <1>4 DEF MergeStep, MergeNodes
<1>5. CASE RankStep
  BY <1>5 DEF RankStep, ChangeRank
<1>6. CASE LemmaStep
  BY <1>6 DEF LemmaStep, SetLemma, SetLemmaText
<1>7. CASE RelationStep
  BY <1>7 DEF RelationStep, RelateStep, Relate, Unrelate, UnrelateAlike, UnrelateAll, CreateType
<1>8. QED BY <1>1, <1>2, <1>3, <1>4, <1>5, <1>6, <1>7 DEF Next

LEMMA RankedInv == RInv /\ [Next]_vars => RInv'
<1> SUFFICES ASSUME RInv, [Next]_vars PROVE RInv'
  OBVIOUS
<1>1. IInv'
  BY NextInv DEF RInv
<1>2. CASE dup' = Closed
  BY <1>1, <1>2 DEF RInv
<1>3. CASE dup' = dup /\ dup # Closed
  <2>1. UNCHANGED <<node, seq, rank>>
    <3>1. CASE UNCHANGED vars
      BY <3>1 DEF vars
    <3>2. CASE DuplicateStep
      BY <1>3, <3>2 DEF DuplicateStep, DupOpen, DupReading, DupWitness, DupRelations,
                        DupCommit, DupAbort
    <3>3. QED BY <1>3, <3>1, <3>2, OthersWait
  <2>2. QED BY <1>1, <1>3, <2>1 DEF RInv, Ranked, DupRanked, DupRank
<1>4. CASE dup' # dup /\ dup' # Closed
  <2>1. DuplicateStep
    BY <1>4, OthersWait DEF vars
  <2>2. CASE \E wits \in SUBSET Label : DupOpen(wits)
    BY <1>1, <2>2, DupOpenRanked DEF RInv
  <2>3. CASE \E r, c \in Reading : DupReading(r, c)
    BY <1>1, <2>3, DupReadingRanked DEF RInv
  <2>4. CASE \E lab \in Label : DupWitness(lab)
    BY <1>1, <2>4, DupWitnessRanked DEF RInv
  <2>5. CASE DupRelations
    BY <1>1, <2>5, DupRelationsRanked DEF RInv
  <2>6. CASE DupCommit \/ DupAbort
    BY <1>4, <2>6 DEF DupCommit, DupAbort
  <2>7. QED BY <2>1, <2>2, <2>3, <2>4, <2>5, <2>6 DEF DuplicateStep
<1>5. QED BY <1>2, <1>3, <1>4

LEMMA DupCommitOrder ==
  ASSUME RInv, Ranked, DupCommit
  PROVE  Ranked'
<1>1. /\ dup # Closed /\ seq' = dup.seq /\ node' = node \cup DOMAIN dup.from
      /\ rank' = [n \in node' |-> DupRank(n)]
  BY DEF DupCommit, DupRank
<1>2. TransactionOK /\ DupRanked
  BY <1>1 DEF RInv, IInv, DupOK
<1>3. \A p \in DOMAIN dup.seq : {p[1], p[2]} \subseteq node'
  BY <1>1, <1>2 DEF TransactionOK, IsGraph
<1>4. QED BY <1>1, <1>2, <1>3 DEF Ranked, RanksIncrease, DupRanked

LEMMA CompressOrder ==
  ASSUME IInv, Ranked, NEW r1 \in node, NEW r2 \in node, Compress(r1, r2)
  PROVE  Ranked'
<1>1. rank \in [node -> Nat] /\ IsGraph(seq, node)
  BY DEF IInv, TypeOK
<1>2. /\ r1 # r2 /\ rank[r1] <= rank[r2]
      /\ node' = node \ {r2} /\ rank' = Without(rank, {r2})
  BY DEF Compress
<1>3. \A n \in node \ {r2} : rank'[n] = rank[n]
  BY <1>1, <1>2 DEF Without
<1>4. ASSUME NEW p \in DOMAIN seq' PROVE rank'[p[1]] < rank'[p[2]]
  <2>1. p[1] \in node' /\ p[2] \in node'
    BY <1>4, CompressInv DEF IInv, TypeOK, IsGraph
  <2>2. CASE p \in DOMAIN seq /\ r2 \notin {p[1], p[2]}
    BY <1>2, <1>3, <2>1, <2>2 DEF Ranked, RanksIncrease
  <2>3. CASE \E q \in DOMAIN seq : q[1] = r2 /\ p = <<r1, q[2]>>
    <3>1. PICK q \in DOMAIN seq : q[1] = r2 /\ p = <<r1, q[2]>>
      BY <2>3
    <3>2. rank[r2] < rank[q[2]] /\ q[2] \in node
      BY <1>1, <3>1 DEF Ranked, RanksIncrease, IsGraph
    <3>3. rank[r1] < rank[q[2]]
      BY <1>1, <1>2, <3>2
    <3>4. QED BY <1>2, <1>3, <2>1, <3>1, <3>3
  <2>4. QED BY <1>4, <2>2, <2>3 DEF Compress
<1>5. QED BY <1>4 DEF Ranked, RanksIncrease

LEMMA MergeOrder ==
  ASSUME IInv, Ranked, NEW s \in node, NEW t \in node, MergeNodes(s, t)
  PROVE  Ranked'
<1>1. rank \in [node -> Nat] /\ IsGraph(seq, node)
  BY DEF IInv, TypeOK
<1>2. PICK p \in node, n \in node :
        /\ Before(seq, s) = {p} /\ After(seq, s) = {n}
        /\ rank[s] = rank[t]
        /\ node' = node \ {s}
        /\ DOMAIN seq' = (DOMAIN seq \cup {<<p, t>>, <<t, n>>}) \ {<<p, s>>, <<s, n>>}
        /\ rank' = Without(rank, {s})
  BY DEF MergeNodes
<1>3. \A m \in node' : rank'[m] = rank[m]
  BY <1>1, <1>2 DEF Without
<1>4. rank[p] < rank[t] /\ rank[t] < rank[n]
  BY <1>2 DEF Before, After, Ranked, RanksIncrease
<1>5. ASSUME NEW a \in DOMAIN seq' PROVE rank'[a[1]] < rank'[a[2]]
  <2>1. a[1] \in node' /\ a[2] \in node'
    BY <1>5, MergeInv DEF IInv, TypeOK, IsGraph
  <2>2. rank[a[1]] < rank[a[2]]
    BY <1>2, <1>4, <1>5 DEF Ranked, RanksIncrease
  <2>3. QED BY <1>3, <2>1, <2>2
<1>6. QED BY <1>5 DEF Ranked, RanksIncrease

LEMMA RankOrder ==
  ASSUME IInv, Ranked, NEW r \in node, NEW k \in Nat, ChangeRank(r, k)
  PROVE  Ranked'
<1>1. rank \in [node -> Nat] /\ IsGraph(seq, node)
  BY DEF IInv, TypeOK
<1>2. PICK p \in node, n \in node :
        /\ Before(seq, r) = {p} /\ After(seq, r) = {n}
        /\ (rank[r] < k /\ k < rank[n]) \/ (rank[p] < k /\ k < rank[r])
  BY DEF ChangeRank, CheckNodeRank
<1>3. seq' = seq /\ rank' = [rank EXCEPT ![r] = k]
  BY DEF ChangeRank
<1>4. rank[p] < rank[r] /\ rank[r] < rank[n]
  BY <1>2 DEF Before, After, Ranked, RanksIncrease
<1>5. rank[p] < k /\ k < rank[n]
  BY <1>1, <1>2, <1>4
<1>6. ASSUME NEW a \in DOMAIN seq PROVE rank'[a[1]] < rank'[a[2]]
  <2>1. a[1] \in node /\ a[2] \in node /\ rank[a[1]] < rank[a[2]]
    BY <1>1 DEF IsGraph, Ranked, RanksIncrease
  <2>2. a[1] # a[2]
    BY <1>1, <2>1
  <2>3. CASE a[1] = r
    <3>1. a[2] = n
      BY <1>2, <2>3 DEF After
    <3>2. QED BY <1>1, <1>3, <1>5, <2>2, <2>3, <3>1
  <2>4. CASE a[2] = r
    <3>1. a[1] = p
      BY <1>2, <2>4 DEF Before
    <3>2. QED BY <1>1, <1>3, <1>5, <2>2, <2>4, <3>1
  <2>5. CASE a[1] # r /\ a[2] # r
    BY <1>1, <1>3, <2>1, <2>5
  <2>6. QED BY <2>3, <2>4, <2>5
<1>7. QED BY <1>3, <1>6 DEF Ranked, RanksIncrease

LEMMA OrderStep ==
  RInv /\ [Next]_vars => [(Ranked => Ranked') \/ SplitStep \/ RelateStep \/ PutBackStep]_vars
<1> SUFFICES ASSUME RInv, Next, Ranked, ~SplitStep, ~RelateStep, ~PutBackStep
             PROVE  Ranked'
  BY DEF RInv
<1>1. IInv
  BY DEF RInv
<1>2. CASE DupCommit
  BY <1>2, DupCommitOrder
<1>3. CASE CompressStep
  BY <1>1, <1>3, CompressOrder DEF CompressStep
<1>4. CASE MergeStep
  BY <1>1, <1>4, MergeOrder DEF MergeStep
<1>5. CASE RankStep
  BY <1>1, <1>5, RankOrder, CollationAssumption DEF RankStep
<1>6. CASE ~DupCommit /\ ~CompressStep /\ ~MergeStep /\ ~RankStep
  <2>1. UNCHANGED <<seq, rank>>
    BY <1>6 DEF Next, DuplicateStep, DupOpen, DupReading, DupWitness, DupRelations, DupAbort,
                LookUpStep, LookUp, Crash, LemmaStep, SetLemma, SetLemmaText, RelationStep, Unrelate,
                UnrelateAlike, UnrelateAll, CreateType
  <2>2. QED BY <2>1 DEF Ranked, RanksIncrease
<1>7. QED BY <1>2, <1>3, <1>4, <1>5, <1>6

\* Where ranks rise along every link they go on doing so: no duplicate
\* request, compression, merge, change of rank or lemma, and no removal of a
\* relation puts a reading beside or behind one that follows it.
THEOREM RankOrderStays == Spec => RankOrderKept
<1>1. Init => RInv
  BY InitInv DEF Init, RInv
<1>2. QED BY <1>1, RankedInv, OrderStep, PTL DEF Spec, RankOrderKept

-----------------------------------------------------------------------------
(* The places of the lemmata.                                              *)

LEMMA LemmaPlacesStep ==
  IInv /\ [Next]_vars
    => [(LemmaPlaces => LemmaPlaces') \/ RankStep \/ RelateStep \/ PutBackStep]_vars
<1> SUFFICES ASSUME IInv, Next, LemmaPlaces, ~RankStep, ~RelateStep, ~PutBackStep
             PROVE  LemmaPlaces'
  OBVIOUS
<1>1. lemma \subseteq node /\ rank \in [node -> Nat]
  BY DEF IInv, TypeOK
<1>2. CASE lemma' \subseteq lemma /\ \A n \in lemma' : rank'[n] = rank[n]
  BY <1>2 DEF LemmaPlaces
<1>3. CASE \E r \in node, value \in BOOLEAN : SetLemma(r, value)
  BY <1>1, <1>3 DEF SetLemma, LemmataWith, LemmaPlaces
<1>4. CASE DupCommit
  BY <1>1, <1>2, <1>4 DEF DupCommit
<1>5. CASE SplitStep
  BY <1>1, <1>2, <1>5 DEF SplitStep, Split
<1>6. CASE CompressStep
  BY <1>1, <1>2, <1>6 DEF CompressStep, Compress, Without
<1>7. CASE MergeStep
  BY <1>1, <1>2, <1>7 DEF MergeStep, MergeNodes, Without
<1>8. CASE /\ ~DupCommit /\ ~SplitStep /\ ~CompressStep /\ ~MergeStep
           /\ ~ \E r \in node, value \in BOOLEAN : SetLemma(r, value)
  <2>1. UNCHANGED <<lemma, rank>>
    BY <1>8 DEF Next, DuplicateStep, DupOpen, DupReading, DupWitness, DupRelations, DupAbort,
                LookUpStep, LookUp, Crash, LemmaStep, SetLemmaText, RelationStep, Unrelate,
                UnrelateAlike, UnrelateAll, CreateType
  <2>2. QED BY <1>2, <2>1
<1>9. QED BY <1>3, <1>4, <1>5, <1>6, <1>7, <1>8

\* Two lemmata of one rank only ever come from a rank that was changed, by
\* hand or by a relation, under a reading that is a lemma already.
THEOREM LemmaPlacesStay == Spec => LemmaPlacesKept
<1>1. QED BY InitInv, NextInv, LemmaPlacesStep, PTL DEF Spec, LemmaPlacesKept

-----------------------------------------------------------------------------
(* The path of one witness.                                                *)

\* The base text of w runs from a to b.
Has(s, a, b, w) == <<a, b>> \in DOMAIN s /\ <<w, Base>> \in s[<<a, b>>]

\* Only the link that it writes changes for its base label.
LEMMA AddLinkHas ==
  ASSUME NEW s, NEW a, NEW b, NEW lab \in Label,
         NEW x, NEW y, NEW w
  PROVE  Has(AddLink(s, a, b, lab), x, y, w)
           <=> Has(s, x, y, w) \/ (x = a /\ y = b /\ lab = <<w, Base>>)
<1> DEFINE t == AddLink(s, a, b, lab)
           goal == Has(t, x, y, w) <=> Has(s, x, y, w) \/ (x = a /\ y = b /\ lab = <<w, Base>>)
<1> SUFFICES goal
  OBVIOUS
<1>1. lab = <<lab[1], lab[2]>>
  BY DEF Label
<1>2. DOMAIN t = DOMAIN s \cup {<<a, b>>}
  BY DEF AddLink
<1>3. CASE <<x, y>> # <<a, b>>
  <2>1. <<x, y>> \in DOMAIN s => t[<<x, y>>] = s[<<x, y>>]
    BY <1>3 DEF AddLink
  <2>2. ~ (x = a /\ y = b)
    BY <1>3
  <2> HIDE DEF t
  <2>3. <<x, y>> \in DOMAIN t <=> <<x, y>> \in DOMAIN s
    BY <1>2, <1>3
  <2>4. Has(t, x, y, w) <=> Has(s, x, y, w)
    BY <2>1, <2>3 DEF Has
  <2>5. QED BY <2>2, <2>4
<1>4. CASE <<x, y>> = <<a, b>>
  <2>1. x = a /\ y = b
    BY <1>4
  <2>2. <<w, Base>> \in t[<<a, b>>] <=> <<w, Base>> \in On(s, a, b) \/ lab = <<w, Base>>
    <3>1. CASE lab[2] = Base
      <4>1. t[<<a, b>>] = {l \in On(s, a, b) : l[1] # lab[1]} \cup {lab}
        BY <3>1 DEF AddLink
      <4>2. QED BY <1>1, <3>1, <4>1
    <3>2. CASE lab[2] # Base
      <4>1. t[<<a, b>>] = On(s, a, b) \/ t[<<a, b>>] = On(s, a, b) \cup {lab}
        BY <3>2 DEF AddLink
      <4>2. QED BY <1>1, <3>2, <4>1
    <3>3. QED BY <3>1, <3>2
  <2>3. <<w, Base>> \in On(s, a, b) <=> Has(s, a, b, w)
    BY DEF On, Has
  <2>4. <<a, b>> \in DOMAIN t
    BY <1>2
  <2> HIDE DEF t
  <2>5. Has(t, a, b, w) <=> <<w, Base>> \in t[<<a, b>>]
    BY <2>4 DEF Has
  <2>6. QED BY <2>1, <2>2, <2>3, <2>5
<1>5. QED BY <1>3, <1>4

LEMMA RemoveLinkHas ==
  ASSUME NEW s, NEW N, IsGraph(s, N), NEW a, NEW b, NEW lab \in Label, NEW check,
         NEW x, NEW y, NEW w
  PROVE  Has(RemoveLink(s, a, b, lab, check), x, y, w)
           <=> Has(s, x, y, w) /\ ~ (x = a /\ y = b /\ lab = <<w, Base>>)
<1> DEFINE t       == RemoveLink(s, a, b, lab, check)
           orphans == IF lab[2] = Base THEN Orphans(s, a, b, lab[1], check) ELSE {}
           left    == ({l \in On(s, a, b) : l[2] \notin orphans}
                         \cup ({lab[1]} \X orphans)) \ {lab}
           here    == \E l \in On(s, a, b) : l[2] = lab[2]
           goal == Has(t, x, y, w)
                     <=> Has(s, x, y, w) /\ ~ (x = a /\ y = b /\ lab = <<w, Base>>)
<1> SUFFICES goal
  OBVIOUS
<1>1. lab = <<lab[1], lab[2]>>
  BY DEF Label
<1>2. Base \notin orphans
  BY CollationAssumption DEF Orphans, LayersOf
<1>3. t = IF ~here THEN s
          ELSE IF left = {} THEN [p \in DOMAIN s \ {<<a, b>>} |-> s[p]]
          ELSE [s EXCEPT ![<<a, b>>] = left]
  BY DEF RemoveLink
<1>4. <<w, Base>> \in left <=> <<w, Base>> \in On(s, a, b) /\ lab # <<w, Base>>
  <2> HIDE DEF orphans
  <2>1. QED BY <1>2
<1>5. <<w, Base>> \in On(s, a, b) <=> Has(s, a, b, w)
  BY DEF On, Has
<1>6. lab = <<w, Base>> /\ <<w, Base>> \in On(s, a, b) => here
  OBVIOUS
<1>7. s = [p \in DOMAIN s |-> s[p]]
  BY DEF IsGraph
<1>8. On(s, a, b) # {} => <<a, b>> \in DOMAIN s
  BY DEF On
<1>9. here => <<a, b>> \in DOMAIN s
  BY <1>8
<1> HIDE DEF t, left, here
<1>10. CASE ~here
  BY <1>3, <1>5, <1>6, <1>10
<1>11. CASE here /\ left = {}
  <2>1. t = [p \in DOMAIN s \ {<<a, b>>} |-> s[p]]
    BY <1>3, <1>11
  <2>2. QED BY <1>4, <1>5, <1>11, <2>1 DEF Has
<1>12. CASE here /\ left # {}
  <2>1. t = [s EXCEPT ![<<a, b>>] = left] /\ <<a, b>> \in DOMAIN s
    BY <1>3, <1>9, <1>12
  <2>2. DOMAIN t = DOMAIN s /\ t[<<a, b>>] = left
    BY <1>7, <2>1
  <2>3. \A p \in DOMAIN s : p # <<a, b>> => t[p] = s[p]
    BY <1>7, <2>1
  <2>4. CASE <<x, y>> = <<a, b>>
    BY <1>4, <1>5, <2>1, <2>2, <2>4 DEF Has
  <2>5. CASE <<x, y>> # <<a, b>>
    BY <2>2, <2>3, <2>5 DEF Has
  <2>6. QED BY <2>4, <2>5
<1>13. QED BY <1>10, <1>11, <1>12

\* A witness that ran through r runs through c instead.
LEMMA Reroute ==
  ASSUME NEW s, NEW t, NEW w, NEW N \in SUBSET Reading, Runs(s, N, w),
         NEW p \in N, NEW n \in N, NEW r \in N, NEW c \in N \ {Start, End},
         {Start, End} \subseteq N,
         BaseBefore(s, r, w) = {p}, BaseAfter(s, r, w) = {n},
         BaseBefore(s, c, w) = {}, BaseAfter(s, c, w) = {},
         \A x, y \in Reading :
           Has(t, x, y, w) <=> /\ Has(s, x, y, w) \/ (x = p /\ y = c) \/ (x = c /\ y = n)
                               /\ ~ (x = p /\ y = r) /\ ~ (x = r /\ y = n)
  PROVE  Runs(t, N, w)
<1>1. /\ \A x, y \in Reading : x \in BaseBefore(s, y, w) <=> Has(s, x, y, w)
      /\ \A x, y \in Reading : y \in BaseAfter(s, x, w) <=> Has(s, x, y, w)
      /\ \A x, y \in Reading : x \in BaseBefore(t, y, w) <=> Has(t, x, y, w)
      /\ \A x, y \in Reading : y \in BaseAfter(t, x, w) <=> Has(t, x, y, w)
      /\ \A y : BaseBefore(s, y, w) \subseteq Reading /\ BaseAfter(s, y, w) \subseteq Reading
      /\ \A y : BaseBefore(t, y, w) \subseteq Reading /\ BaseAfter(t, y, w) \subseteq Reading
  BY DEF BaseBefore, BaseAfter, Has
<1>2. c \notin {p, n, r}
  BY <1>1
<1>3. BaseAfter(s, p, w) = {r} /\ BaseBefore(s, n, w) = {r}
  <2>1. r \in BaseAfter(s, p, w) /\ r \in BaseBefore(s, n, w)
    BY <1>1
  <2>2. p # End /\ n # Start
    BY <2>1 DEF Runs
  <2>3. IsOne(BaseAfter(s, p, w)) /\ IsOne(BaseBefore(s, n, w))
    BY <2>1, <2>2 DEF Runs
  <2>4. QED BY <2>1, <2>3 DEF IsOne
<1>4. BaseBefore(t, c, w) = {p} /\ BaseAfter(t, c, w) = {n}
  BY <1>1, <1>2
<1>5. BaseAfter(t, p, w) = {c} /\ BaseBefore(t, n, w) = {c}
  BY <1>1, <1>2, <1>3
<1>6. ASSUME NEW x \in N \ {p, c, r} PROVE BaseAfter(t, x, w) = BaseAfter(s, x, w)
  <2>1. x \in Reading
    OBVIOUS
  <2>2. ASSUME NEW y \in Reading PROVE Has(t, x, y, w) <=> Has(s, x, y, w)
    BY <1>2, <2>1
  <2>3. QED BY ONLY <1>1, <2>1, <2>2
<1>7. ASSUME NEW x \in N \ {n, c, r} PROVE BaseBefore(t, x, w) = BaseBefore(s, x, w)
  <2>1. x \in Reading
    OBVIOUS
  <2>2. ASSUME NEW y \in Reading PROVE Has(t, y, x, w) <=> Has(s, y, x, w)
    BY <1>2, <2>1
  <2>3. QED BY ONLY <1>1, <2>1, <2>2
<1>8. CASE r \in {p, n}
  <2>1. r = p /\ r = n
    BY <1>1, <1>3, <1>8
  <2>2. r \notin {Start, End}
    BY <2>1 DEF Runs
  <2>3. QED BY <1>2, <1>4, <1>5, <1>6, <1>7, <2>1, <2>2 DEF Runs, IsOne
<1>9. CASE r \notin {p, n}
  <2>1. BaseBefore(t, r, w) = {} /\ BaseAfter(t, r, w) = {}
    BY <1>1, <1>2, <1>9
  <2>2. r \notin {Start, End} /\ p # End /\ n # Start
    BY <1>3 DEF Runs
  <2>3. BaseBefore(t, Start, w) = {} /\ BaseAfter(t, End, w) = {}
    BY <1>6, <1>7, <2>2, CollationAssumption DEF Runs
  <2>4. IsOne(BaseAfter(t, Start, w)) /\ IsOne(BaseBefore(t, End, w))
    BY <1>5, <1>6, <1>7, <2>2 DEF Runs, IsOne
  <2>5. ASSUME NEW x \in N \ {Start, End}
        PROVE  \/ BaseBefore(t, x, w) = {} /\ BaseAfter(t, x, w) = {}
               \/ IsOne(BaseBefore(t, x, w)) /\ IsOne(BaseAfter(t, x, w))
    <3>1. CASE x \in {c, r}
      BY <1>4, <2>1, <3>1 DEF IsOne
    <3>2. CASE x \notin {c, r}
      <4>1. \/ BaseBefore(s, x, w) = {} /\ BaseAfter(s, x, w) = {}
            \/ IsOne(BaseBefore(s, x, w)) /\ IsOne(BaseAfter(s, x, w))
        BY DEF Runs
      <4>2. QED BY <1>3, <1>5, <1>6, <1>7, <3>2, <4>1 DEF IsOne
    <3>3. QED BY <3>1, <3>2
  <2>6. QED BY <2>3, <2>4, <2>5 DEF Runs
<1>10. QED BY <1>8, <1>9

\* Nothing changes for a witness whose links stay.
LEMMA SameWay ==
  ASSUME NEW s, NEW t, NEW w, NEW N, Runs(s, N, w),
         \A x, y \in Reading : Has(t, x, y, w) <=> Has(s, x, y, w)
  PROVE  {Start, End} \subseteq Reading /\ N \subseteq Reading => Runs(t, N, w)
<1>1. \A y \in Reading : /\ BaseBefore(t, y, w) = BaseBefore(s, y, w)
                         /\ BaseAfter(t, y, w) = BaseAfter(s, y, w)
  BY DEF BaseBefore, BaseAfter, Has
<1>2. QED BY <1>1 DEF Runs

\* The neighbours for a base label are those of the path.
LEMMA BaseNeighbours ==
  ASSUME NEW s, NEW N \in SUBSET Reading, IsGraph(s, N), NEW r, NEW w
  PROVE  /\ PriorOf(s, r, <<w, Base>>) = BaseBefore(s, r, w)
         /\ NextOf(s, r, <<w, Base>>) = BaseAfter(s, r, w)
<1>1. \A q \in DOMAIN s : q = <<q[1], q[2]>> /\ q[1] \in Reading /\ q[2] \in Reading
  BY DEF IsGraph
<1>2. \A m : m \in Before(s, r) <=> <<m, r>> \in DOMAIN s
  BY <1>1 DEF Before
<1>3. \A m : m \in After(s, r) <=> <<r, m>> \in DOMAIN s
  BY <1>1 DEF After
<1>4. {m \in Before(s, r) : <<w, Base>> \in s[<<m, r>>]} = BaseBefore(s, r, w)
  BY <1>1, <1>2 DEF BaseBefore
<1>5. {m \in After(s, r) : <<w, Base>> \in s[<<r, m>>]} = BaseAfter(s, r, w)
  BY <1>1, <1>3 DEF BaseAfter
<1>6. QED BY <1>4, <1>5 DEF PriorOf, NextOf

\* What one turn of the loop does to the base texts: that of its own witness is
\* led around the reading, those of the others stay.
LEMMA WitnessMoves ==
  ASSUME IInv, NEW lab \in Label, DupWitness(lab)
  PROVE  \E p, n \in DupNode :
           /\ \A w : lab = <<w, Base>> => /\ BaseBefore(dup.seq, dup.cur, w) = {p}
                                          /\ BaseAfter(dup.seq, dup.cur, w) = {n}
           /\ \A x, y, w :
                Has(dup'.seq, x, y, w)
                  <=> IF lab = <<w, Base>>
                      THEN /\ \/ Has(dup.seq, x, y, w)
                              \/ x = p /\ y = dup.copy
                              \/ x = dup.copy /\ y = n
                           /\ ~ (x = p /\ y = dup.cur) /\ ~ (x = dup.cur /\ y = n)
                      ELSE Has(dup.seq, x, y, w)
<1>1. dup # Closed /\ lab \in dup.todo
  BY DEF DupWitness
<1>2. DupOK /\ TransactionOK /\ dup.busy
  BY <1>1 DEF IInv, DupOK
<1>3. PICK p \in Reading, n \in Reading :
        /\ PriorOf(dup.seq, dup.cur, lab) = {p}
        /\ NextOf(dup.seq, dup.cur, lab) = {n}
        /\ dup' = [dup EXCEPT !.todo = dup.todo \ {lab},
                     !.seq = RemoveLink(RemoveLink(
                               AddLink(AddLink(dup.seq, p, dup.copy, lab), dup.copy, n, lab),
                               p, dup.cur, lab, "end"), dup.cur, n, lab, "start")]
  BY DEF DupWitness
<1> DEFINE s1 == AddLink(dup.seq, p, dup.copy, lab)
           s2 == AddLink(s1, dup.copy, n, lab)
           s3 == RemoveLink(s2, p, dup.cur, lab, "end")
           s4 == RemoveLink(s3, dup.cur, n, lab, "start")
<1>4. IsGraph(dup.seq, DupNode) /\ DupNode \subseteq Reading
  BY <1>2 DEF TransactionOK, DupNode, IInv, TypeOK
<1>5. p \in DupNode /\ n \in DupNode /\ dup.copy \in DupNode
  <2>1. p \in Before(dup.seq, dup.cur) /\ n \in After(dup.seq, dup.cur)
    BY <1>3 DEF PriorOf, NextOf
  <2>2. p \in DupNode /\ n \in DupNode
    BY <1>4, <2>1 DEF Before, After, IsGraph
  <2>3. QED BY <1>2, <2>2 DEF DupOK, DupNode
<1>6. IsGraph(s1, DupNode)
  BY <1>4, <1>5, AddLinkGraph
<1>7. IsGraph(s2, DupNode)
  <2> HIDE DEF s1
  <2>1. QED BY <1>5, <1>6, AddLinkGraph
<1>8. IsGraph(s3, DupNode)
  <2> HIDE DEF s2
  <2>1. QED BY <1>7, RemoveLinkGraph
<1>9. dup'.seq = s4
  BY <1>2, <1>3 DEF TransactionOK
<1>10. ASSUME NEW x, NEW y, NEW w
       PROVE  Has(s2, x, y, w) <=> \/ Has(dup.seq, x, y, w)
                                   \/ x = p /\ y = dup.copy /\ lab = <<w, Base>>
                                   \/ x = dup.copy /\ y = n /\ lab = <<w, Base>>
  <2>1. Has(s1, x, y, w) <=> Has(dup.seq, x, y, w) \/ (x = p /\ y = dup.copy /\ lab = <<w, Base>>)
    BY AddLinkHas
  <2>2. Has(s2, x, y, w) <=> Has(s1, x, y, w) \/ (x = dup.copy /\ y = n /\ lab = <<w, Base>>)
    <3> HIDE DEF s1
    <3>1. QED BY AddLinkHas
  <2> HIDE DEF s1, s2
  <2>3. QED BY <2>1, <2>2
<1>11. ASSUME NEW x, NEW y, NEW w
       PROVE  Has(s4, x, y, w) <=> /\ Has(s2, x, y, w)
                                   /\ ~ (x = p /\ y = dup.cur /\ lab = <<w, Base>>)
                                   /\ ~ (x = dup.cur /\ y = n /\ lab = <<w, Base>>)
  <2>1. Has(s3, x, y, w) <=> Has(s2, x, y, w) /\ ~ (x = p /\ y = dup.cur /\ lab = <<w, Base>>)
    <3> HIDE DEF s2
    <3>1. QED BY <1>7, RemoveLinkHas
  <2>2. Has(s4, x, y, w) <=> Has(s3, x, y, w) /\ ~ (x = dup.cur /\ y = n /\ lab = <<w, Base>>)
    <3> HIDE DEF s3
    <3>1. QED BY <1>8, RemoveLinkHas
  <2> HIDE DEF s2, s3, s4
  <2>3. QED BY <2>1, <2>2
<1> HIDE DEF s1, s2, s3, s4
<1>12. ASSUME NEW w, lab = <<w, Base>>
       PROVE  BaseBefore(dup.seq, dup.cur, w) = {p} /\ BaseAfter(dup.seq, dup.cur, w) = {n}
  BY <1>3, <1>4, <1>12, BaseNeighbours
<1>13. ASSUME NEW x, NEW y, NEW w
       PROVE  Has(dup'.seq, x, y, w)
                  <=> IF lab = <<w, Base>>
                      THEN /\ \/ Has(dup.seq, x, y, w)
                              \/ x = p /\ y = dup.copy
                              \/ x = dup.copy /\ y = n
                           /\ ~ (x = p /\ y = dup.cur) /\ ~ (x = dup.cur /\ y = n)
                      ELSE Has(dup.seq, x, y, w)
  <2>1. Has(dup'.seq, x, y, w) <=> Has(s4, x, y, w)
    BY <1>9
  <2>2. QED BY <1>10, <1>11, <2>1
<1>14. QED BY <1>5, <1>12, <1>13

\* The paths as the open transaction sees them; the copy that is being filled
\* is not yet on that of any witness it is still to get.
DupRuns ==
  /\ \A w \in Sigil : Runs(dup.seq, DupNode, w)
  /\ \A w \in Sigil : <<w, Base>> \in dup.todo =>
       BaseBefore(dup.seq, dup.copy, w) = {} /\ BaseAfter(dup.seq, dup.copy, w) = {}

\* What a commit is going to publish is known while the transaction is open.
WInv == IInv /\ (dup # Closed /\ AllRun => DupRuns)

LEMMA DupOpenRuns ==
  ASSUME WInv, NEW wits \in SUBSET Label, DupOpen(wits)
  PROVE  AllRun' => DupRuns'
<1>1. /\ dup'.seq = seq /\ dup'.from = <<>> /\ dup'.todo = {}
      /\ seq' = seq /\ node' = node
  BY DEF DupOpen
<1>2. DupNode' = node
  BY <1>1 DEF DupNode
<1>3. QED BY <1>1, <1>2 DEF AllRun, DupRuns

LEMMA DupReadingRuns ==
  ASSUME WInv, NEW r \in Reading, NEW c \in Reading, DupReading(r, c)
  PROVE  AllRun' => DupRuns'
<1> DEFINE from2 == [n \in DOMAIN dup.from \cup {c} |-> IF n = c THEN r ELSE dup.from[n]]
<1>1. /\ dup # Closed /\ c \notin node \cup DOMAIN dup.from
      /\ UNCHANGED <<node, seq>>
      /\ dup' = [dup EXCEPT !.todo = dup.wits, !.busy = TRUE, !.cur = r, !.copy = c,
                            !.from = from2]
  BY DEF DupReading
<1>2. TransactionOK
  BY <1>1 DEF WInv, IInv, DupOK
<1>3. dup'.seq = dup.seq /\ dup'.from = from2 /\ dup'.copy = c
  BY <1>1, <1>2 DEF TransactionOK
<1>4. DupNode' = DupNode \cup {c}
  BY <1>1, <1>3 DEF DupNode
<1>5. \A w : BaseBefore(dup.seq, c, w) = {} /\ BaseAfter(dup.seq, c, w) = {}
  BY <1>1, <1>2 DEF TransactionOK, IsGraph, BaseBefore, BaseAfter
<1>6. AllRun' => DupRuns
  BY <1>1 DEF WInv, AllRun
<1>7. QED BY <1>3, <1>4, <1>5, <1>6 DEF DupRuns, Runs

LEMMA DupWitnessRuns ==
  ASSUME WInv, NEW lab \in Label, DupWitness(lab)
  PROVE  AllRun' => DupRuns'
<1> SUFFICES ASSUME AllRun' PROVE DupRuns'
  OBVIOUS
<1>1. dup # Closed /\ lab \in dup.todo /\ UNCHANGED <<node, seq>>
  BY DEF DupWitness
<1>2. DupOK /\ TransactionOK /\ dup.busy /\ IInv
  BY <1>1 DEF WInv, IInv, DupOK
<1>3. DupRuns
  BY <1>1 DEF WInv, AllRun
<1>4. /\ dup'.todo = dup.todo \ {lab} /\ dup'.copy = dup.copy /\ dup'.cur = dup.cur
      /\ dup'.from = dup.from
  <2>1. PICK s : dup' = [dup EXCEPT !.todo = dup.todo \ {lab}, !.seq = s]
    BY DEF DupWitness
  <2>2. QED BY <1>2, <2>1 DEF TransactionOK
<1>5. DupNode' = DupNode
  BY <1>1, <1>4 DEF DupNode
<1>6. PICK p \in DupNode, n \in DupNode :
        /\ \A w : lab = <<w, Base>> => /\ BaseBefore(dup.seq, dup.cur, w) = {p}
                                       /\ BaseAfter(dup.seq, dup.cur, w) = {n}
        /\ \A x, y, w :
             Has(dup'.seq, x, y, w)
               <=> IF lab = <<w, Base>>
                   THEN /\ \/ Has(dup.seq, x, y, w)
                           \/ x = p /\ y = dup.copy
                           \/ x = dup.copy /\ y = n
                        /\ ~ (x = p /\ y = dup.cur) /\ ~ (x = dup.cur /\ y = n)
                   ELSE Has(dup.seq, x, y, w)
  BY <1>2, WitnessMoves
<1>7. /\ DupNode \subseteq Reading /\ {Start, End} \subseteq DupNode
      /\ dup.cur \in DupNode /\ dup.copy \in DupNode \ {Start, End}
  BY <1>2 DEF DupOK, TransactionOK, DupNode, IInv, TypeOK
<1>8. ASSUME NEW w \in Sigil PROVE Runs(dup'.seq, DupNode, w)
  <2>1. Runs(dup.seq, DupNode, w)
    BY <1>3 DEF DupRuns
  <2>2. CASE lab # <<w, Base>>
    <3>1. \A x, y \in Reading : Has(dup'.seq, x, y, w) <=> Has(dup.seq, x, y, w)
      BY <1>6, <2>2
    <3>2. QED BY <1>7, <2>1, <3>1, SameWay
  <2>3. CASE lab = <<w, Base>>
    <3>1. BaseBefore(dup.seq, dup.cur, w) = {p} /\ BaseAfter(dup.seq, dup.cur, w) = {n}
      BY <1>6, <2>3
    <3>2. BaseBefore(dup.seq, dup.copy, w) = {} /\ BaseAfter(dup.seq, dup.copy, w) = {}
      BY <1>1, <1>3, <2>3 DEF DupRuns
    <3>3. \A x, y \in Reading :
            Has(dup'.seq, x, y, w)
              <=> /\ Has(dup.seq, x, y, w) \/ (x = p /\ y = dup.copy) \/ (x = dup.copy /\ y = n)
                  /\ ~ (x = p /\ y = dup.cur) /\ ~ (x = dup.cur /\ y = n)
      BY <1>6, <2>3
    <3>4. QED BY <1>7, <2>1, <3>1, <3>2, <3>3, Reroute
  <2>4. QED BY <2>2, <2>3
<1>9. ASSUME NEW w \in Sigil, <<w, Base>> \in dup'.todo
      PROVE  BaseBefore(dup'.seq, dup.copy, w) = {} /\ BaseAfter(dup'.seq, dup.copy, w) = {}
  <2>1. lab # <<w, Base>> /\ <<w, Base>> \in dup.todo
    BY <1>4, <1>9
  <2>2. BaseBefore(dup.seq, dup.copy, w) = {} /\ BaseAfter(dup.seq, dup.copy, w) = {}
    BY <1>3, <2>1 DEF DupRuns
  <2>3. \A x, y : Has(dup'.seq, x, y, w) <=> Has(dup.seq, x, y, w)
    BY <1>6, <2>1
  <2>4. QED BY <2>2, <2>3 DEF BaseBefore, BaseAfter, Has
<1>10. QED BY <1>4, <1>5, <1>8, <1>9 DEF DupRuns

LEMMA DupRelationsRuns ==
  ASSUME WInv, DupRelations
  PROVE  AllRun' => DupRuns'
<1>1. dup # Closed /\ UNCHANGED <<node, seq>>
  BY DEF DupRelations
<1>2. TransactionOK
  BY <1>1 DEF WInv, IInv, DupOK
<1>3. /\ dup'.seq = dup.seq /\ dup'.from = dup.from /\ dup'.copy = dup.copy
      /\ dup'.todo = dup.todo
  BY <1>2 DEF DupRelations, TransactionOK
<1>4. DupNode' = DupNode
  BY <1>1, <1>3 DEF DupNode
<1>5. QED BY <1>1, <1>3, <1>4 DEF WInv, AllRun, DupRuns

LEMMA WitnessesInv == WInv /\ [Next]_vars => WInv'
<1> SUFFICES ASSUME WInv, [Next]_vars PROVE WInv'
  OBVIOUS
<1>1. IInv'
  BY NextInv DEF WInv
<1>2. CASE dup' = Closed
  BY <1>1, <1>2 DEF WInv
<1>3. CASE dup' = dup /\ dup # Closed
  <2>1. UNCHANGED <<node, seq>>
    <3>1. CASE UNCHANGED vars
      BY <3>1 DEF vars
    <3>2. CASE DuplicateStep
      BY <1>3, <3>2 DEF DuplicateStep, DupOpen, DupReading, DupWitness, DupRelations,
                        DupCommit, DupAbort
    <3>3. QED BY <1>3, <3>1, <3>2, OthersWait
  <2>2. QED BY <1>1, <1>3, <2>1 DEF WInv, AllRun, DupRuns, DupNode
<1>4. CASE dup' # dup /\ dup' # Closed
  <2>1. DuplicateStep
    BY <1>4, OthersWait DEF vars
  <2>2. CASE \E wits \in SUBSET Label : DupOpen(wits)
    BY <1>1, <2>2, DupOpenRuns DEF WInv
  <2>3. CASE \E r, c \in Reading : DupReading(r, c)
    BY <1>1, <2>3, DupReadingRuns DEF WInv
  <2>4. CASE \E lab \in Label : DupWitness(lab)
    BY <1>1, <2>4, DupWitnessRuns DEF WInv
  <2>5. CASE DupRelations
    BY <1>1, <2>5, DupRelationsRuns DEF WInv
  <2>6. CASE DupCommit \/ DupAbort
    BY <1>4, <2>6 DEF DupCommit, DupAbort
  <2>7. QED BY <2>1, <2>2, <2>3, <2>4, <2>5, <2>6 DEF DuplicateStep
<1>5. QED BY <1>2, <1>3, <1>4

LEMMA DupCommitRuns ==
  ASSUME WInv, AllRun, DupCommit
  PROVE  AllRun'
BY DEF WInv, DupCommit, DupRuns, DupNode, AllRun

\* Readings without links may be added.
LEMMA MoreReadings ==
  ASSUME NEW s, NEW w, NEW N, NEW M, IsGraph(s, N), N \subseteq M, {Start, End} \subseteq N,
         Runs(s, N, w)
  PROVE  Runs(s, M, w)
<1>1. ASSUME NEW n \in M \ N PROVE BaseBefore(s, n, w) = {} /\ BaseAfter(s, n, w) = {}
  BY <1>1 DEF BaseBefore, BaseAfter, IsGraph
<1>2. QED BY <1>1 DEF Runs

\* The path of w in t is that in s with its reading q[1] drawn out into the
\* readings q.
DrawnOut(s, t, w, q, k) ==
  \A x, y \in Reading :
    Has(t, x, y, w) <=>
      \/ BaseAfter(s, q[1], w) # {} /\ \E i \in 1 .. k - 1 : x = q[i] /\ y = q[i + 1]
      \/ x = q[k] /\ Has(s, q[1], y, w)
      \/ x # q[1] /\ Has(s, x, y, w)

\* The readings of M are those of N and the new ones among q.
Filled(M, N, q, k) == \A n : n \in M <=> n \in N \/ \E i \in 2 .. k : n = q[i]

\* q are k readings, the first of N, the others not.
Drawn(q, k, N) ==
  /\ k \in Nat /\ k >= 2 /\ q \in [1 .. k -> Reading]
  /\ \A i, j \in 1 .. k : q[i] = q[j] => i = j
  /\ q[1] \in N \ {Start, End} /\ \A i \in 2 .. k : q[i] \notin N

LEMMA Stretch ==
  ASSUME NEW s, NEW t, NEW w, NEW N \in SUBSET Reading, {Start, End} \subseteq N,
         IsGraph(s, N), Runs(s, N, w),
         NEW k, NEW q, Drawn(q, k, N), NEW M, Filled(M, N, q, k), DrawnOut(s, t, w, q, k)
  PROVE  Runs(t, M, w)
<1> USE DEF Drawn, DrawnOut, Filled
<1> DEFINE r == q[1]
<1>1. /\ \A x, y \in Reading : x \in BaseBefore(s, y, w) <=> Has(s, x, y, w)
      /\ \A x, y \in Reading : y \in BaseAfter(s, x, w) <=> Has(s, x, y, w)
      /\ \A x, y \in Reading : x \in BaseBefore(t, y, w) <=> Has(t, x, y, w)
      /\ \A x, y \in Reading : y \in BaseAfter(t, x, w) <=> Has(t, x, y, w)
      /\ \A y : BaseBefore(s, y, w) \subseteq Reading /\ BaseAfter(s, y, w) \subseteq Reading
      /\ \A y : BaseBefore(t, y, w) \subseteq Reading /\ BaseAfter(t, y, w) \subseteq Reading
  BY DEF BaseBefore, BaseAfter, Has
<1>2. \A x, y : Has(s, x, y, w) => x \in N /\ y \in N
  BY DEF Has, IsGraph
<1>3. N \subseteq M /\ M \subseteq Reading
  OBVIOUS
<1>4. \/ BaseBefore(s, r, w) = {} /\ BaseAfter(s, r, w) = {}
      \/ IsOne(BaseBefore(s, r, w)) /\ IsOne(BaseAfter(s, r, w))
  BY DEF Runs
<1>5. CASE BaseAfter(s, r, w) = {}
  <2>1. \A x, y \in Reading : Has(t, x, y, w) <=> Has(s, x, y, w)
    BY <1>1, <1>5
  <2>2. Runs(s, M, w)
    BY <1>3, MoreReadings
  <2>3. QED BY <1>3, <2>1, <2>2, SameWay
<1>6. CASE BaseAfter(s, r, w) # {}
  <2>1. PICK a \in Reading, b \in Reading :
          BaseBefore(s, r, w) = {a} /\ BaseAfter(s, r, w) = {b}
    BY <1>1, <1>4, <1>6 DEF IsOne
  <2>2. a \in N /\ b \in N /\ b # Start
    BY <1>1, <1>2, <2>1 DEF Runs
  <2>3. BaseBefore(s, b, w) = {r}
    <3>1. r \in BaseBefore(s, b, w)
      BY <1>1, <2>1
    <3>2. IsOne(BaseBefore(s, b, w))
      BY <2>2, <3>1 DEF Runs
    <3>3. QED BY <3>1, <3>2 DEF IsOne
  <2>4. \A x, y \in Reading : Has(t, x, y, w) <=>
             \/ \E i \in 1 .. k - 1 : x = q[i] /\ y = q[i + 1]
             \/ x = q[k] /\ y = b
             \/ x # r /\ Has(s, x, y, w)
    BY <1>1, <1>6, <2>1
  <2>5. ASSUME NEW i \in 1 .. k - 1 PROVE BaseAfter(t, q[i], w) = {q[i + 1]}
    <3>1. q[i] \in Reading /\ q[i + 1] \in Reading /\ q[i] # q[k]
      OBVIOUS
    <3>2. q[i] = r \/ q[i] \notin N
      OBVIOUS
    <3>3. ASSUME NEW y \in Reading PROVE Has(t, q[i], y, w) <=> y = q[i + 1]
      <4>1. CASE y = q[i + 1]
        BY <2>4, <3>1, <4>1
      <4>2. CASE Has(t, q[i], y, w)
        <5>1. ASSUME NEW j \in 1 .. k - 1, q[i] = q[j] PROVE i = j
          BY <5>1
        <5>2. QED BY <1>2, <2>4, <3>1, <3>2, <4>2, <5>1
      <4>3. QED BY <4>1, <4>2
    <3>4. QED BY <1>1, <3>1, <3>3
  <2>6. BaseAfter(t, q[k], w) = {b}
    <3>1. q[k] \in Reading /\ q[k] \notin N /\ \A i \in 1 .. k - 1 : q[i] # q[k]
      OBVIOUS
    <3>2. ASSUME NEW y \in Reading PROVE Has(t, q[k], y, w) <=> y = b
      BY <1>2, <2>4, <3>1
    <3>3. QED BY <1>1, <2>1, <3>1, <3>2
  <2>7. ASSUME NEW i \in 1 .. k - 1 PROVE BaseBefore(t, q[i + 1], w) = {q[i]}
    <3>1. q[i] \in Reading /\ q[i + 1] \in Reading /\ q[i + 1] \notin N
      OBVIOUS
    <3>2. ASSUME NEW x \in Reading PROVE Has(t, x, q[i + 1], w) <=> x = q[i]
      <4>1. CASE x = q[i]
        BY <2>4, <3>1, <4>1
      <4>2. CASE Has(t, x, q[i + 1], w)
        <5>1. ASSUME NEW j \in 1 .. k - 1, q[i + 1] = q[j + 1] PROVE i = j
          BY <5>1
        <5>2. QED BY <1>2, <2>2, <2>4, <3>1, <4>2, <5>1
      <4>3. QED BY <4>1, <4>2
    <3>3. QED BY <1>1, <3>1, <3>2
  <2>8. \A j \in 1 .. k - 1 : q[j + 1] \notin N
    OBVIOUS
  <2>9. BaseBefore(t, b, w) = {q[k]}
    <3>1. q[k] \in Reading
      OBVIOUS
    <3>2. ASSUME NEW x \in Reading PROVE Has(t, x, b, w) <=> x = q[k]
      <4>1. Has(s, x, b, w) <=> x = r
        BY <1>1, <2>1, <2>3
      <4>2. QED BY <2>1, <2>2, <2>4, <2>8, <3>1, <4>1
    <3>3. QED BY <1>1, <2>1, <3>1, <3>2
  <2>10. ASSUME NEW y \in N \ {b} PROVE BaseBefore(t, y, w) = BaseBefore(s, y, w)
    <3>1. y \in Reading
      OBVIOUS
    <3>2. ~ Has(s, r, y, w)
      BY <1>1, <2>1, <2>10
    <3>3. ASSUME NEW x \in Reading PROVE Has(t, x, y, w) <=> Has(s, x, y, w)
      BY <2>4, <2>8, <2>10, <3>1, <3>2
    <3>4. QED BY ONLY <1>1, <3>1, <3>3
  <2>11. ASSUME NEW x \in N \ {r} PROVE BaseAfter(t, x, w) = BaseAfter(s, x, w)
    <3>1. x \in Reading /\ x # q[k]
      OBVIOUS
    <3>2. \A i \in 1 .. k - 1 : x # q[i]
      OBVIOUS
    <3>3. ASSUME NEW y \in Reading PROVE Has(t, x, y, w) <=> Has(s, x, y, w)
      BY <2>4, <2>11, <3>1, <3>2
    <3>4. QED BY ONLY <1>1, <3>1, <3>3
  <2>12. IsOne(BaseAfter(t, r, w))
    <3>1. 1 \in 1 .. k - 1
      OBVIOUS
    <3>2. QED BY <2>5, <3>1 DEF IsOne
  <2>13. IsOne(BaseBefore(t, b, w))
    BY <2>9 DEF IsOne
  <2>14. ASSUME NEW i \in 2 .. k
         PROVE  IsOne(BaseBefore(t, q[i], w)) /\ IsOne(BaseAfter(t, q[i], w))
    <3>1. IsOne(BaseBefore(t, q[i], w))
      <4>1. i - 1 \in 1 .. k - 1 /\ (i - 1) + 1 = i
        OBVIOUS
      <4>2. BaseBefore(t, q[(i - 1) + 1], w) = {q[i - 1]}
        BY <2>7, <4>1
      <4>3. QED BY <4>1, <4>2 DEF IsOne
    <3>2. IsOne(BaseAfter(t, q[i], w))
      <4>1. CASE i = k
        BY <2>6, <4>1 DEF IsOne
      <4>2. CASE i # k
        <5>1. i \in 1 .. k - 1
          BY <4>2
        <5>2. QED BY <2>5, <5>1 DEF IsOne
      <4>3. QED BY <4>1, <4>2
    <3>3. QED BY <3>1, <3>2
  <2>15. /\ BaseBefore(t, Start, w) = {} /\ IsOne(BaseAfter(t, Start, w))
         /\ IsOne(BaseBefore(t, End, w)) /\ BaseAfter(t, End, w) = {}
    BY <2>2, <2>10, <2>11, <2>13 DEF Runs
  <2>16. ASSUME NEW n \in N \ {Start, End}
         PROVE  \/ BaseBefore(t, n, w) = {} /\ BaseAfter(t, n, w) = {}
                \/ IsOne(BaseBefore(t, n, w)) /\ IsOne(BaseAfter(t, n, w))
    <3>1. \/ BaseBefore(s, n, w) = {} /\ BaseAfter(s, n, w) = {}
          \/ IsOne(BaseBefore(s, n, w)) /\ IsOne(BaseAfter(s, n, w))
      BY DEF Runs
    <3>2. IsOne(BaseBefore(s, r, w)) /\ IsOne(BaseBefore(s, b, w))
      BY <2>1, <2>3 DEF IsOne
    <3>3. \A x : IsOne({x}) /\ ~ IsOne({})
      BY DEF IsOne
    <3>4. CASE n = b \/ n = r
      BY <2>10, <2>11, <2>12, <2>13, <3>1, <3>2, <3>3, <3>4
    <3>5. CASE n # b /\ n # r
      BY <2>10, <2>11, <3>1, <3>5
    <3>6. QED BY <3>4, <3>5
  <2>17. QED BY <2>14, <2>15, <2>16 DEF Runs
<1>7. QED BY <1>5, <1>6

LEMMA SplitDraws ==
  ASSUME IInv, NEW r \in node, NEW parts \in Cuts(text[r]), NEW byPattern,
         NEW fresh, Split(r, parts, fresh, byPattern)
  PROVE  \E q : /\ Drawn(q, Len(parts), node) /\ Filled(node', node, q, Len(parts))
                /\ \A w : DrawnOut(seq, seq', w, q, Len(parts))
                /\ q[1] = r /\ \A i \in 1 .. Len(parts) : text'[q[i]] = parts[i]
                /\ \A n \in node \ {r} : text'[n] = text[n]
<1> DEFINE k     == Len(parts)
           new   == {fresh[i] : i \in DOMAIN fresh}
           part(i)  == IF i = 1 THEN r ELSE fresh[i - 1]
           outs  == {r} \X After(seq, r)
           chain == {<<part(i), part(i + 1)>> : i \in 1 .. (k - 1)}
           moved == {<<part(k), p[2]>> : p \in outs}
           links == (DOMAIN seq \ outs) \cup chain \cup moved
           lab(p) == CASE p \in chain -> Merged(UNION {seq[e] : e \in outs})
                       [] p \in moved -> seq[<<r, p[2]>>]
                       [] OTHER       -> seq[p]
           q     == [i \in 1 .. k |-> part(i)]
<1>1. /\ r \in node \ {Start, End} /\ k >= 2
      /\ fresh \in [1 .. (k - 1) -> Reading \ node]
      /\ \A i, j \in DOMAIN fresh : fresh[i] = fresh[j] => i = j
      /\ node' = node \cup new
      /\ seq' = [p \in links |-> lab(p)]
  BY DEF Split
<1>2. {Start, End} \subseteq node /\ node \subseteq Reading /\ IsGraph(seq, node)
  BY DEF IInv, TypeOK
<1>3. k \in Nat
  BY CutsType, LenProperties DEF IInv, TypeOK
<1>4. /\ q \in [1 .. k -> Reading] /\ q[1] = r
      /\ \A i \in 2 .. k : q[i] = fresh[i - 1] /\ i - 1 \in 1 .. (k - 1)
      /\ \A i \in 2 .. k : q[i] \notin node
  <2>1. \A i \in 2 .. k : i - 1 \in 1 .. (k - 1)
    BY <1>3
  <2>2. \A i \in 1 .. k : part(i) \in Reading
    BY <1>1, <1>2, <1>3, <2>1
  <2>3. 1 \in 1 .. k
    BY <1>1, <1>3
  <2>4. \A i \in 2 .. k : i \in 1 .. k /\ i # 1
    BY <1>3
  <2>5. \A i \in 2 .. k : part(i) = fresh[i - 1]
    BY <2>4
  <2> HIDE DEF k
  <2>6. QED BY <1>1, <2>1, <2>2, <2>3, <2>4, <2>5
<1>5. \A i, j \in 1 .. k : q[i] = q[j] => i = j
  <2>1. ASSUME NEW i \in 1 .. k, NEW j \in 1 .. k, q[i] = q[j] PROVE i = j
    <3> HIDE DEF q, k
    <3>1. CASE i = 1 \/ j = 1
      BY <1>1, <1>3, <1>4, <2>1, <3>1
    <3>2. CASE i # 1 /\ j # 1
      <4>1. i \in 2 .. k /\ j \in 2 .. k
        BY <1>3, <3>2
      <4>2. fresh[i - 1] = fresh[j - 1] /\ i - 1 \in DOMAIN fresh /\ j - 1 \in DOMAIN fresh
        BY <1>1, <1>4, <2>1, <4>1
      <4>3. i - 1 = j - 1
        BY <1>1, <4>2
      <4>4. QED BY <1>3, <4>1, <4>3
    <3>3. QED BY <3>1, <3>2
  <2>2. QED BY <2>1
<1>6. new = {q[i] : i \in 2 .. k}
  <2>1. \A i \in 1 .. (k - 1) : i + 1 \in 2 .. k /\ (i + 1) - 1 = i
    BY <1>3
  <2> HIDE DEF q, k
  <2>2. QED BY <1>1, <1>4, <2>1
<1>7. chain = {<<q[i], q[i + 1]>> : i \in 1 .. k - 1}
  <2>1. \A i \in 1 .. (k - 1) : i \in 1 .. k /\ i + 1 \in 1 .. k
    BY <1>3
  <2>2. \A i \in 1 .. k : part(i) = q[i]
    OBVIOUS
  <2>3. \A i \in 1 .. (k - 1) : part(i) = q[i] /\ part(i + 1) = q[i + 1]
    BY <2>1, <2>2
  <2> HIDE DEF q, part, k
  <2>4. QED BY <2>3
<1>8. part(k) = q[k]
  BY <1>1, <1>3
<1>9. \A e \in DOMAIN seq : e = <<e[1], e[2]>> /\ e[1] \in node /\ e[2] \in node
  BY <1>2 DEF IsGraph
<1>10. \A m : m \in After(seq, r) <=> <<r, m>> \in DOMAIN seq
  BY <1>9 DEF After
<1>11. \A x, y : <<x, y>> \in outs <=> x = r /\ <<r, y>> \in DOMAIN seq
  BY <1>10
<1>12. \A x, y : <<x, y>> \in moved <=> x = q[k] /\ <<r, y>> \in DOMAIN seq
  BY <1>8, <1>10
<1>13. \A x, y : <<x, y>> \in chain <=> \E i \in 1 .. k - 1 : x = q[i] /\ y = q[i + 1]
  BY <1>7
<1>14. \A x, y : <<x, y>> \in chain => y \notin node
  <2>1. \A i \in 1 .. k - 1 : i + 1 \in 2 .. k
    BY <1>3
  <2> HIDE DEF q, k, chain
  <2>2. QED BY <1>4, <1>13, <2>1
<1>15. q[k] \notin node
  BY <1>1, <1>3, <1>4
<1>16. ASSUME NEW w
       PROVE  <<w, Base>> \in Merged(UNION {seq[e] : e \in outs}) <=> BaseAfter(seq, r, w) # {}
  <2>1. <<w, Base>> \in Merged(UNION {seq[e] : e \in outs})
          <=> \E e \in outs : <<w, Base>> \in seq[e]
    BY DEF Merged
  <2>2. (\E e \in outs : <<w, Base>> \in seq[e]) <=> \E m : Has(seq, r, m, w)
    <3>1. \A e \in outs : e = <<r, e[2]>> /\ e \in DOMAIN seq
      BY <1>10
    <3>2. \A m : <<r, m>> \in DOMAIN seq => <<r, m>> \in outs
      BY <1>11
    <3> HIDE DEF outs
    <3>3. QED BY <3>1, <3>2 DEF Has
  <2>3. (\E m : Has(seq, r, m, w)) <=> BaseAfter(seq, r, w) # {}
    BY <1>2, <1>9 DEF Has, BaseAfter
  <2>4. QED BY <2>1, <2>2, <2>3
<1>17. \A x, y, w : Has(seq, x, y, w) => x \in node /\ y \in node /\ <<x, y>> \in DOMAIN seq
  BY <1>9 DEF Has
<1>18. ASSUME NEW x, NEW y, NEW w
       PROVE  Has(seq', x, y, w) <=>
                \/ BaseAfter(seq, r, w) # {} /\ \E i \in 1 .. k - 1 : x = q[i] /\ y = q[i + 1]
                \/ x = q[k] /\ Has(seq, r, y, w)
                \/ x # r /\ Has(seq, x, y, w)
  <2>1. Has(seq', x, y, w) <=> <<x, y>> \in links /\ <<w, Base>> \in lab(<<x, y>>)
    <3> HIDE DEF links, lab
    <3>1. QED BY <1>1 DEF Has
  <2>2. CASE <<x, y>> \in chain
    <3>1. y \notin node
      BY <1>14, <2>2
    <3>2. <<x, y>> \notin moved
      <4> HIDE DEF chain, moved, outs
      <4>1. QED BY <1>9, <1>12, <3>1
    <3>3. lab(<<x, y>>) = Merged(UNION {seq[e] : e \in outs})
      <4> HIDE DEF chain, moved, outs, links
      <4>1. QED BY <2>2, <3>2
    <3>4. <<x, y>> \in links
      <4> HIDE DEF chain, moved, outs
      <4>1. QED BY <2>2
    <3> HIDE DEF links, lab, chain, outs, moved, q, k
    <3>5. Has(seq', x, y, w) <=> BaseAfter(seq, r, w) # {}
      BY <1>16, <2>1, <3>3, <3>4
    <3>6. \E i \in 1 .. k - 1 : x = q[i] /\ y = q[i + 1]
      BY <1>13, <2>2
    <3>7. ~ Has(seq, r, y, w) /\ ~ Has(seq, x, y, w)
      BY <1>17, <3>1
    <3>8. QED BY <3>5, <3>6, <3>7
  <2>3. CASE <<x, y>> \in moved
    <3>1. x = q[k] /\ <<r, y>> \in DOMAIN seq
      BY <1>12, <2>3
    <3>2. y \in node
      BY <1>9, <3>1
    <3>3. <<x, y>> \notin chain
      BY <1>14, <3>2
    <3>4. lab(<<x, y>>) = seq[<<r, y>>] /\ <<x, y>> \in links
      <4> HIDE DEF chain, moved, outs
      <4>1. QED BY <2>3, <3>3
    <3>5. Has(seq, r, y, w) <=> <<w, Base>> \in seq[<<r, y>>]
      BY <3>1 DEF Has
    <3> HIDE DEF links, lab, chain, outs, moved, q, k
    <3>6. QED BY <1>13, <1>15, <1>17, <2>1, <3>1, <3>3, <3>4, <3>5
  <2>4. CASE <<x, y>> \notin chain /\ <<x, y>> \notin moved
    <3>1. lab(<<x, y>>) = seq[<<x, y>>]
      <4> HIDE DEF chain, moved, outs, links
      <4>1. QED BY <2>4
    <3>2. <<x, y>> \in links <=> <<x, y>> \in DOMAIN seq /\ <<x, y>> \notin outs
      <4> HIDE DEF chain, moved, outs
      <4>1. QED BY <2>4
    <3> HIDE DEF links, lab, chain, outs, moved, q, k
    <3>3. <<x, y>> \in links /\ <<w, Base>> \in seq[<<x, y>>] <=> x # r /\ Has(seq, x, y, w)
      BY <1>11, <3>2 DEF Has
    <3>4. ~ (x = q[k] /\ Has(seq, r, y, w))
      BY <1>12, <1>17, <2>4
    <3>5. QED BY <1>13, <2>1, <2>4, <3>1, <3>3, <3>4
  <2>5. QED BY <2>2, <2>3, <2>4
<1> HIDE DEF k, new, part, outs, chain, moved, links, lab, q
<1>19. Drawn(q, k, node) /\ Filled(node', node, q, k)
  BY <1>1, <1>3, <1>4, <1>5, <1>6 DEF Drawn, Filled
<1>20. \A w : DrawnOut(seq, seq', w, q, k)
  BY <1>4, <1>18 DEF DrawnOut
<1>21. /\ \A i \in 1 .. k : text'[q[i]] = parts[i]
       /\ \A n \in node \ {r} : text'[n] = text[n]
  <2> DEFINE index(n) == CHOOSE i \in DOMAIN fresh : fresh[i] = n
  <2>1. text' = [n \in node' |-> IF n = r THEN parts[1]
                                 ELSE IF n \in node THEN text[n] ELSE parts[index(n) + 1]]
    BY DEF Split
  <2>2. \A i \in DOMAIN fresh : index(fresh[i]) = i
    BY <1>1
  <2> HIDE DEF index
  <2>3. \A n \in node \ {r} : text'[n] = text[n]
    BY <1>1, <2>1
  <2>4. ASSUME NEW i \in 1 .. k PROVE text'[q[i]] = parts[i]
    <3>1. CASE i = 1
      BY <1>1, <1>4, <2>1, <3>1
    <3>2. CASE i # 1
      <4>1. i \in 2 .. k /\ i - 1 + 1 = i
        BY <1>3, <3>2
      <4>2. /\ q[i] = fresh[i - 1] /\ i - 1 \in DOMAIN fresh
            /\ q[i] \notin node /\ q[i] \in node' /\ q[i] # r
        BY <1>1, <1>4, <1>6, <4>1
      <4>3. index(q[i]) = i - 1
        BY <2>2, <4>2
      <4>4. text'[q[i]] = parts[index(q[i]) + 1]
        BY <2>1, <4>2
      <4>5. QED BY <4>1, <4>3, <4>4
    <3>3. QED BY <3>1, <3>2
  <2>5. QED BY <2>3, <2>4
<1>22. QED BY <1>4, <1>19, <1>20, <1>21 DEF k

LEMMA SplitRuns ==
  ASSUME IInv, AllRun, NEW r \in node, NEW parts \in Cuts(text[r]), NEW byPattern,
         NEW fresh, Split(r, parts, fresh, byPattern)
  PROVE  AllRun'
<1> DEFINE k == Len(parts)
<1>1. PICK q : /\ Drawn(q, k, node) /\ Filled(node', node, q, k)
               /\ \A w : DrawnOut(seq, seq', w, q, k)
  BY SplitDraws
<1> HIDE DEF k
<1>2. {Start, End} \subseteq node /\ node \in SUBSET Reading /\ IsGraph(seq, node)
  BY DEF IInv, TypeOK
<1>3. ASSUME NEW w \in Sigil PROVE Runs(seq', node', w)
  <2>1. Runs(seq, node, w) /\ DrawnOut(seq, seq', w, q, k)
    BY <1>1 DEF AllRun
  <2>2. QED BY <1>1, <1>2, <2>1, Stretch
<1>4. QED BY <1>3 DEF AllRun

\* The path of w in t is that in s without its reading r2, which only r1 leads to.
DrawnIn(s, t, w, r1, r2) ==
  \A x, y \in Reading :
    Has(t, x, y, w) <=>
      /\ x # r2 /\ y # r2
      /\ \/ x = r1 /\ y # r1 /\ Has(s, r2, y, w)
         \/ x # r1 /\ Has(s, x, y, w)

LEMMA Contract ==
  ASSUME NEW s, NEW t, NEW w, NEW N \in SUBSET Reading, {Start, End} \subseteq N,
         IsGraph(s, N), Runs(s, N, w),
         NEW r1 \in N \ {Start, End}, NEW r2 \in N \ {Start, End}, r1 # r2,
         \A y \in Reading : Has(s, r1, y, w) => y = r2,
         \A x \in Reading : Has(s, x, r2, w) => x = r1,
         DrawnIn(s, t, w, r1, r2)
  PROVE  Runs(t, N \ {r2}, w)
<1>1. /\ \A x, y \in Reading : x \in BaseBefore(s, y, w) <=> Has(s, x, y, w)
      /\ \A x, y \in Reading : y \in BaseAfter(s, x, w) <=> Has(s, x, y, w)
      /\ \A x, y \in Reading : x \in BaseBefore(t, y, w) <=> Has(t, x, y, w)
      /\ \A x, y \in Reading : y \in BaseAfter(t, x, w) <=> Has(t, x, y, w)
      /\ \A y : BaseBefore(s, y, w) \subseteq Reading /\ BaseAfter(s, y, w) \subseteq Reading
      /\ \A y : BaseBefore(t, y, w) \subseteq Reading /\ BaseAfter(t, y, w) \subseteq Reading
  BY DEF BaseBefore, BaseAfter, Has
<1>2. \A n \in {r1, r2} :
        \/ BaseBefore(s, n, w) = {} /\ BaseAfter(s, n, w) = {}
        \/ IsOne(BaseBefore(s, n, w)) /\ IsOne(BaseAfter(s, n, w))
  BY DEF Runs
<1>3. BaseAfter(s, r1, w) \subseteq {r2} /\ BaseBefore(s, r2, w) \subseteq {r1}
  BY <1>1
<1>4. \A x, y \in Reading :
        Has(t, x, y, w) <=> /\ x # r2 /\ y # r2
                            /\ \/ x = r1 /\ y # r1 /\ Has(s, r2, y, w)
                               \/ x # r1 /\ Has(s, x, y, w)
  BY DEF DrawnIn
<1>5. CASE BaseAfter(s, r1, w) = {}
  <2>1. /\ BaseBefore(s, r1, w) = {} /\ BaseBefore(s, r2, w) = {} /\ BaseAfter(s, r2, w) = {}
    <3>1. r2 \notin BaseAfter(s, r1, w)
      BY <1>5
    <3>2. r1 \notin BaseBefore(s, r2, w)
      BY <1>1, <3>1
    <3>3. QED BY <1>2, <1>3, <1>5, <3>2 DEF IsOne
  <2>2. \A x, y \in Reading : Has(t, x, y, w) <=> Has(s, x, y, w)
    BY <1>1, <1>4, <1>5, <2>1
  <2>3. Runs(t, N, w)
    BY <2>2, SameWay
  <2>4. QED BY <2>3 DEF Runs
<1>6. CASE BaseAfter(s, r1, w) # {}
  <2>1. BaseAfter(s, r1, w) = {r2} /\ BaseBefore(s, r2, w) = {r1}
    <3>1. BaseAfter(s, r1, w) = {r2}
      BY <1>3, <1>6
    <3>2. r1 \in BaseBefore(s, r2, w)
      BY <1>1, <3>1
    <3>3. QED BY <1>3, <3>1, <3>2
  <2>2. PICK a \in Reading, b \in Reading :
          BaseBefore(s, r1, w) = {a} /\ BaseAfter(s, r2, w) = {b}
    BY <1>1, <1>2, <2>1 DEF IsOne
  <2>3. b # r2 /\ b # Start /\ a # r1
    <3>1. Has(s, r2, b, w) /\ Has(s, a, r1, w)
      BY <1>1, <2>2
    <3>2. b # Start
      BY <1>1, <3>1 DEF Runs
    <3>3. QED BY <3>1, <3>2
  <2>4. ASSUME NEW x \in N \ {r1, r2} PROVE BaseAfter(t, x, w) = BaseAfter(s, x, w)
    <3>1. x \in Reading /\ ~ Has(s, x, r2, w)
      BY <1>3
    <3>2. ASSUME NEW y \in Reading PROVE Has(t, x, y, w) <=> Has(s, x, y, w)
      BY <1>4, <3>1
    <3>3. QED BY ONLY <1>1, <3>1, <3>2
  <2>5. ASSUME NEW y \in N \ {r1, r2, b} PROVE BaseBefore(t, y, w) = BaseBefore(s, y, w)
    <3>1. y \in Reading /\ ~ Has(s, r2, y, w) /\ ~ Has(s, r1, y, w)
      BY <1>1, <2>1, <2>2, <2>5
    <3>2. ASSUME NEW x \in Reading PROVE Has(t, x, y, w) <=> Has(s, x, y, w)
      BY <1>4, <2>5, <3>1
    <3>3. QED BY ONLY <1>1, <3>1, <3>2
  <2>6. CASE b = r1
    <3>1. a = r2
      BY <1>1, <2>2, <2>6
    <3>2. BaseBefore(t, r1, w) = {} /\ BaseAfter(t, r1, w) = {}
      BY <1>1, <1>4, <2>2, <2>6, <3>1
    <3>3. QED BY <2>4, <2>5, <2>6, <3>2 DEF Runs
  <2>7. CASE b # r1
    <3>1. a # r2
      BY <1>1, <2>2, <2>7
    <3>2. BaseAfter(t, r1, w) = {b} /\ BaseBefore(t, r1, w) = {a}
      <4>1. ASSUME NEW y \in Reading PROVE Has(t, r1, y, w) <=> y = b
        BY <1>1, <1>4, <2>2, <2>3, <2>7
      <4>2. ASSUME NEW x \in Reading PROVE Has(t, x, r1, w) <=> x = a
        BY <1>1, <1>4, <2>2, <2>3, <3>1
      <4>3. QED BY ONLY <1>1, <2>2, <4>1, <4>2, r1 \in Reading, a \in Reading, b \in Reading
    <3>3. BaseBefore(s, b, w) = {r2}
      <4>1. r2 \in BaseBefore(s, b, w)
        BY <1>1, <2>2
      <4>2. b \in N
        BY <4>1 DEF BaseBefore, IsGraph
      <4>3. IsOne(BaseBefore(s, b, w))
        BY <2>3, <4>1, <4>2 DEF Runs
      <4>4. QED BY <4>1, <4>3 DEF IsOne
    <3>4. BaseBefore(t, b, w) = {r1}
      <4>1. ASSUME NEW x \in Reading PROVE Has(t, x, b, w) <=> x = r1
        BY <1>1, <1>4, <2>2, <2>3, <2>7, <3>3
      <4>2. QED BY ONLY <1>1, <4>1, r1 \in Reading, b \in Reading
    <3>5. \A x : IsOne({x}) /\ ~ IsOne({})
      BY DEF IsOne
    <3>6. /\ BaseBefore(t, Start, w) = {} /\ IsOne(BaseAfter(t, Start, w))
          /\ IsOne(BaseBefore(t, End, w)) /\ BaseAfter(t, End, w) = {}
      BY <2>3, <2>4, <2>5, <3>4, <3>5 DEF Runs
    <3>7. ASSUME NEW n \in (N \ {r2}) \ {Start, End}
          PROVE  \/ BaseBefore(t, n, w) = {} /\ BaseAfter(t, n, w) = {}
                 \/ IsOne(BaseBefore(t, n, w)) /\ IsOne(BaseAfter(t, n, w))
      <4>1. \/ BaseBefore(s, n, w) = {} /\ BaseAfter(s, n, w) = {}
            \/ IsOne(BaseBefore(s, n, w)) /\ IsOne(BaseAfter(s, n, w))
        BY DEF Runs
      <4>2. CASE n = r1
        BY <3>2, <3>5, <4>2
      <4>3. CASE n = b /\ n # r1
        BY <2>4, <3>3, <3>4, <3>5, <4>1, <4>3
      <4>4. CASE n # b /\ n # r1
        BY <2>4, <2>5, <4>1, <4>4
      <4>5. QED BY <4>2, <4>3, <4>4
    <3>8. QED BY <3>6, <3>7 DEF Runs
  <2>8. QED BY <2>6, <2>7
<1>7. QED BY <1>5, <1>6

LEMMA CompressDraws ==
  ASSUME IInv, NEW r1 \in node, NEW r2 \in node, Compress(r1, r2)
  PROVE  /\ {r1, r2} \subseteq node \ {Start, End} /\ r1 # r2 /\ node' = node \ {r2}
         /\ \A y, w : Has(seq, r1, y, w) => y = r2
         /\ \A x, w : Has(seq, x, r2, w) => x = r1
         /\ \A w : DrawnIn(seq, seq', w, r1, r2)
<1> DEFINE links == DOMAIN seq \cup lemmaLink
           behind(S) == {p \in S : p[1] = r2 /\ p[2] # r1}
           kept(S)   == {p \in S : r2 \notin {p[1], p[2]}}
           onto(S)   == {<<r1, p[2]>> : p \in behind(S)}
           D == kept(DOMAIN seq) \cup onto(DOMAIN seq)
<1>1. /\ {r1, r2} \subseteq node \ {Start, End} /\ r1 # r2
      /\ {p[1] : p \in {q \in links : q[2] = r2}} = {r1}
      /\ {p[2] : p \in {q \in links : q[1] = r1}} = {r2}
      /\ node' = node \ {r2}
      /\ seq' = [p \in D |-> IF p[1] = r1 THEN seq[<<r2, p[2]>>] ELSE seq[p]]
  BY DEF Compress
<1>2. {Start, End} \subseteq node /\ node \in SUBSET Reading /\ IsGraph(seq, node)
  BY DEF IInv, TypeOK
<1>3. /\ \A y : <<r1, y>> \in DOMAIN seq => y = r2
      /\ \A x : <<x, r2>> \in DOMAIN seq => x = r1
  <2>1. ASSUME NEW y, <<r1, y>> \in DOMAIN seq PROVE y = r2
    <3>1. y \in {p[2] : p \in {q \in links : q[1] = r1}}
      BY <2>1
    <3>2. QED BY <1>1, <3>1
  <2>2. ASSUME NEW x, <<x, r2>> \in DOMAIN seq PROVE x = r1
    <3>1. x \in {p[1] : p \in {q \in links : q[2] = r2}}
      BY <2>2
    <3>2. QED BY <1>1, <3>1
  <2>3. QED BY <2>1, <2>2
<1>4. \A e \in DOMAIN seq : e = <<e[1], e[2]>>
  BY <1>2 DEF IsGraph
<1>5. \A x, y : <<x, y>> \in D <=>
        \/ x = r1 /\ y # r1 /\ <<r2, y>> \in DOMAIN seq
        \/ x # r1 /\ x # r2 /\ y # r2 /\ <<x, y>> \in DOMAIN seq
  <2>1. \A x, y : <<x, y>> \in kept(DOMAIN seq) <=> <<x, y>> \in DOMAIN seq /\ x # r2 /\ y # r2
    OBVIOUS
  <2>2. \A x, y : <<x, y>> \in onto(DOMAIN seq) <=> x = r1 /\ y # r1 /\ <<r2, y>> \in DOMAIN seq
    BY <1>4
  <2> HIDE DEF kept, onto
  <2>3. QED BY <1>1, <1>3, <2>1, <2>2
<1> HIDE DEF D
<1>6. ASSUME NEW x, NEW y, NEW w
      PROVE  Has(seq', x, y, w) <=>
               /\ x # r2 /\ y # r2
               /\ \/ x = r1 /\ y # r1 /\ Has(seq, r2, y, w)
                  \/ x # r1 /\ Has(seq, x, y, w)
  <2>1. Has(seq', x, y, w)
          <=> <<x, y>> \in D /\ <<w, Base>> \in (IF x = r1 THEN seq[<<r2, y>>] ELSE seq[<<x, y>>])
    BY <1>1 DEF Has
  <2>2. y = r2 => <<r2, y>> \notin DOMAIN seq
    BY <1>1, <1>3
  <2>3. QED BY <1>1, <1>5, <2>1, <2>2 DEF Has
<1>7. \A w : DrawnIn(seq, seq', w, r1, r2)
  BY <1>6 DEF DrawnIn
<1>8. QED BY <1>1, <1>3, <1>7 DEF Has

LEMMA CompressRuns ==
  ASSUME IInv, AllRun, NEW r1 \in node, NEW r2 \in node, Compress(r1, r2)
  PROVE  AllRun'
<1>1. /\ {r1, r2} \subseteq node \ {Start, End} /\ r1 # r2 /\ node' = node \ {r2}
      /\ \A y, w : Has(seq, r1, y, w) => y = r2
      /\ \A x, w : Has(seq, x, r2, w) => x = r1
      /\ \A w : DrawnIn(seq, seq', w, r1, r2)
  BY CompressDraws
<1>2. {Start, End} \subseteq node /\ node \in SUBSET Reading /\ IsGraph(seq, node)
  BY DEF IInv, TypeOK
<1>3. ASSUME NEW w \in Sigil PROVE Runs(seq', node', w)
  <2>1. Runs(seq, node, w) /\ DrawnIn(seq, seq', w, r1, r2)
    BY <1>1 DEF AllRun
  <2>2. Runs(seq', node \ {r2}, w)
    BY <1>1, <1>2, <2>1, Contract
  <2>3. QED BY <1>1, <2>2
<1>4. QED BY <1>3 DEF AllRun

\* A set of numbers has a least one.
LEMMA Least ==
  ASSUME NEW S \in SUBSET Nat, S # {}
  PROVE  \E m \in S : \A n \in S : m <= n
<1>1. PICK m \in S : \A n \in S : <<n, m>> \notin OpToRel(<, Nat)
  BY NatLessThanWellFounded, WFMin
<1>2. \A n \in S : ~ (n < m)
  BY <1>1 DEF OpToRel
<1>3. QED BY <1>2

\* Where ranks rise along the links, no two links of one path span a rank both.
LEMMA OneAtATime ==
  ASSUME NEW s, NEW N \in SUBSET Reading, IsGraph(s, N), {Start, End} \subseteq N,
         NEW r \in [N -> Nat], RanksIncrease(s, r), \A n \in N \ {Start} : r[Start] < r[n],
         NEW w, Runs(s, N, w),
         NEW a \in N, NEW b \in N, NEW c \in N, NEW d \in N,
         Has(s, a, b, w), Has(s, c, d, w), r[a] < r[d], r[c] < r[b]
  PROVE  a = c /\ b = d
<1> DEFINE bad(m) == \E e, f, g, h \in N : /\ Has(s, e, f, w) /\ Has(s, g, h, w)
                                           /\ ~ (e = g /\ f = h)
                                           /\ r[e] <= r[g] /\ r[g] < r[f] /\ m = r[g]
           S == {m \in Nat : bad(m)}
<1> SUFFICES ASSUME ~ (a = c /\ b = d) PROVE FALSE
  OBVIOUS
<1>1. \A e, f \in N : Has(s, e, f, w) => r[e] < r[f]
  BY DEF Has, RanksIncrease
<1>2. \A n \in N : r[n] \in Nat
  OBVIOUS
<1>3. S # {}
  <2>1. CASE r[a] <= r[c]
    <3>1. bad(r[c])
      BY <2>1
    <3>2. QED BY <1>2, <3>1
  <2>2. CASE r[c] <= r[a]
    <3>1. bad(r[a])
      BY <2>2
    <3>2. QED BY <1>2, <3>1
  <2>3. QED BY <1>2, <2>1, <2>2
<1>4. PICK m \in S : \A k \in S : m <= k
  <2> HIDE DEF S
  <2>1. S \in SUBSET Nat
    BY DEF S
  <2>2. QED BY <1>3, <2>1, Least
<1>5. PICK e \in N, f \in N, g \in N, h \in N :
        /\ Has(s, e, f, w) /\ Has(s, g, h, w) /\ ~ (e = g /\ f = h)
        /\ r[e] <= r[g] /\ r[g] < r[f] /\ m = r[g]
  OBVIOUS
<1>6. ASSUME NEW e2 \in N, NEW f2 \in N, NEW g2 \in N, NEW h2 \in N,
             Has(s, e2, f2, w), Has(s, g2, h2, w), ~ (e2 = g2 /\ f2 = h2),
             r[e2] <= r[g2], r[g2] < r[f2], r[g2] < m
      PROVE  FALSE
  <2>1. bad(r[g2])
    BY <1>6
  <2>2. r[g2] \in S
    BY <1>2, <2>1
  <2>3. m <= r[g2]
    BY <1>4, <2>2
  <2>4. QED BY <1>2, <1>5, <1>6, <2>3
<1> HIDE DEF bad, S
<1>7. ASSUME NEW n \in N \ {Start}, NEW x \in N, Has(s, n, x, w)
      PROVE  (\E y \in N : Has(s, y, n, w)) /\ \A y \in N : Has(s, n, y, w) => y = x
  <2>1. x \in BaseAfter(s, n, w)
    BY <1>7 DEF BaseAfter, Has
  <2>2. n # End
    BY <2>1 DEF Runs
  <2>3. IsOne(BaseBefore(s, n, w)) /\ IsOne(BaseAfter(s, n, w))
    BY <2>1, <2>2 DEF Runs
  <2>4. PICK y \in BaseBefore(s, n, w) : TRUE
    BY <2>3 DEF IsOne
  <2>5. Has(s, y, n, w) /\ y \in N
    BY <2>4 DEF BaseBefore, Has, IsGraph
  <2>6. \A z \in N : Has(s, n, z, w) => z \in BaseAfter(s, n, w)
    BY DEF BaseAfter, Has
  <2>7. QED BY <2>1, <2>3, <2>5, <2>6 DEF IsOne
<1>8. g # Start
  <2>1. SUFFICES ASSUME g = Start PROVE FALSE
    OBVIOUS
  <2>2. e = Start
    BY <1>2, <1>5, <2>1
  <2>3. f \in BaseAfter(s, Start, w) /\ h \in BaseAfter(s, Start, w)
    BY <1>5, <2>1, <2>2 DEF BaseAfter, Has
  <2>4. f = h
    BY <2>3 DEF Runs, IsOne
  <2>5. QED BY <1>5, <2>1, <2>2, <2>4
<1>9. PICK y \in N : Has(s, y, g, w)
  BY <1>5, <1>7, <1>8
<1>10. r[y] < r[g]
  BY <1>1, <1>9
<1>11. CASE r[e] < r[g]
  <2>1. CASE r[y] <= r[e]
    BY <1>2, <1>5, <1>6, <1>9, <1>10, <1>11, <2>1
  <2>2. CASE r[e] <= r[y]
    <3>1. ~ (e = y /\ f = g) /\ r[y] < r[f] /\ r[y] < m
      BY <1>2, <1>5, <1>10
    <3>2. QED BY <1>5, <1>6, <1>9, <2>2, <3>1
  <2>3. QED BY <1>2, <2>1, <2>2
<1>12. CASE r[e] = r[g]
  <2>1. e # Start
    BY <1>2, <1>8, <1>12
  <2>2. e # g
    BY <1>5, <1>7, <1>8
  <2>3. PICK z \in N : Has(s, z, e, w)
    BY <1>5, <1>7, <2>1
  <2>4. r[z] < r[e]
    BY <1>1, <2>3
  <2>5. CASE r[z] <= r[y]
    BY <1>2, <1>5, <1>6, <1>9, <1>10, <1>12, <2>2, <2>3, <2>5
  <2>6. CASE r[y] <= r[z]
    BY <1>2, <1>5, <1>6, <1>9, <1>12, <2>2, <2>3, <2>4, <2>6
  <2>7. QED BY <1>2, <2>5, <2>6
<1>13. QED BY <1>2, <1>5, <1>11, <1>12

\* A witness reads one of two readings of the same rank.
LEMMA OnePlace ==
  ASSUME IInv, Ranked, NEW w, Runs(seq, node, w), NEW x \in node, NEW y \in node,
         BaseBefore(seq, x, w) # {}, BaseBefore(seq, y, w) # {}, rank[x] = rank[y]
  PROVE  x = y
<1>1. /\ node \in SUBSET Reading /\ IsGraph(seq, node) /\ {Start, End} \subseteq node
      /\ rank \in [node -> Nat] /\ RanksIncrease(seq, rank)
      /\ \A n \in node \ {Start} : rank[Start] < rank[n]
  BY DEF IInv, TypeOK, Ranked, StartComesFirst
<1>2. PICK a \in node, c \in node : Has(seq, a, x, w) /\ Has(seq, c, y, w)
  BY <1>1 DEF BaseBefore, Has, IsGraph
<1>3. rank[a] < rank[y] /\ rank[c] < rank[x]
  BY <1>1, <1>2 DEF Has, RanksIncrease
<1>4. QED BY <1>1, <1>2, <1>3, OneAtATime

\* A merge leads what ran through s through t.
Merges(s, t, p, n) ==
  /\ s \notin {Start, End, p} /\ rank[s] = rank[t] /\ node' = node \ {s}
  /\ \A x : <<x, s>> \in DOMAIN seq <=> x = p
  /\ \A y : <<s, y>> \in DOMAIN seq <=> y = n
  /\ \A x, y, w :
       Has(seq', x, y, w) <=>
         /\ \/ Has(seq, x, y, w)
            \/ x = p /\ y = t /\ Has(seq, p, s, w)
            \/ x = t /\ y = n /\ Has(seq, s, n, w)
         /\ ~ (x = p /\ y = s) /\ ~ (x = s /\ y = n)

LEMMA MergeLinks ==
  ASSUME IInv, NEW s \in node, NEW t \in node, MergeNodes(s, t)
  PROVE  \E p, n \in node : Merges(s, t, p, n)
<1>1. PICK p \in node, n \in node :
        /\ s \notin {Start, End, p}
        /\ Before(seq, s) = {p} /\ After(seq, s) = {n}
        /\ rank[s] = rank[t]
        /\ node' = node \ {s}
        /\ seq' = [a \in (DOMAIN seq \cup {<<p, t>>, <<t, n>>}) \ {<<p, s>>, <<s, n>>} |->
                     On(seq, a[1], a[2])
                       \cup (IF a = <<p, t>> THEN BaseOf(seq[<<p, s>>]) ELSE {})
                       \cup (IF a = <<t, n>> THEN BaseOf(seq[<<s, n>>]) ELSE {})]
  BY DEF MergeNodes
<1>2. /\ {Start, End} \subseteq node /\ node \in SUBSET Reading /\ IsGraph(seq, node)
      /\ rank \in [node -> Nat]
  BY DEF IInv, TypeOK
<1>3. \A e \in DOMAIN seq : e = <<e[1], e[2]>> /\ e[1] \in node /\ e[2] \in node
  BY <1>2 DEF IsGraph
<1>4. <<p, s>> \in DOMAIN seq /\ <<s, n>> \in DOMAIN seq
  <2>1. p \in Before(seq, s) /\ n \in After(seq, s)
    BY <1>1
  <2>2. QED BY <1>3, <2>1 DEF Before, After
<1>7. /\ \A x : <<x, s>> \in DOMAIN seq <=> x = p
      /\ \A y : <<s, y>> \in DOMAIN seq <=> y = n
  <2>1. \A x : <<x, s>> \in DOMAIN seq => x \in Before(seq, s)
    BY DEF Before
  <2>2. \A y : <<s, y>> \in DOMAIN seq => y \in After(seq, s)
    BY DEF After
  <2>3. QED BY <1>1, <1>4, <2>1, <2>2
<1>8. ASSUME NEW x, NEW y, NEW w
      PROVE  Has(seq', x, y, w) <=>
               /\ \/ Has(seq, x, y, w)
                  \/ x = p /\ y = t /\ Has(seq, p, s, w)
                  \/ x = t /\ y = n /\ Has(seq, s, n, w)
               /\ ~ (x = p /\ y = s) /\ ~ (x = s /\ y = n)
  <2> DEFINE D == (DOMAIN seq \cup {<<p, t>>, <<t, n>>}) \ {<<p, s>>, <<s, n>>}
             lab(a) == On(seq, a[1], a[2])
                         \cup (IF a = <<p, t>> THEN BaseOf(seq[<<p, s>>]) ELSE {})
                         \cup (IF a = <<t, n>> THEN BaseOf(seq[<<s, n>>]) ELSE {})
  <2>1. Has(seq', x, y, w) <=> <<x, y>> \in D /\ <<w, Base>> \in lab(<<x, y>>)
    <3>1. seq' = [a \in D |-> lab(a)]
      BY <1>1
    <3> HIDE DEF D, lab
    <3>2. QED BY <3>1 DEF Has
  <2>2. <<w, Base>> \in lab(<<x, y>>) <=>
          \/ Has(seq, x, y, w)
          \/ x = p /\ y = t /\ Has(seq, p, s, w)
          \/ x = t /\ y = n /\ Has(seq, s, n, w)
    <3>1. <<w, Base>> \in On(seq, x, y) <=> Has(seq, x, y, w)
      BY DEF On, Has
    <3>2. /\ <<w, Base>> \in BaseOf(seq[<<p, s>>]) <=> Has(seq, p, s, w)
          /\ <<w, Base>> \in BaseOf(seq[<<s, n>>]) <=> Has(seq, s, n, w)
      BY <1>4 DEF BaseOf, Has
    <3>3. <<w, Base>> \in lab(<<x, y>>) <=>
            \/ <<w, Base>> \in On(seq, x, y)
            \/ x = p /\ y = t /\ <<w, Base>> \in BaseOf(seq[<<p, s>>])
            \/ x = t /\ y = n /\ <<w, Base>> \in BaseOf(seq[<<s, n>>])
      OBVIOUS
    <3> HIDE DEF lab
    <3>4. QED BY <3>1, <3>2, <3>3
  <2>3. <<x, y>> \in D <=> /\ \/ <<x, y>> \in DOMAIN seq
                              \/ x = p /\ y = t
                              \/ x = t /\ y = n
                           /\ ~ (x = p /\ y = s) /\ ~ (x = s /\ y = n)
    OBVIOUS
  <2>4. Has(seq, x, y, w) => <<x, y>> \in DOMAIN seq
    BY DEF Has
  <2> HIDE DEF D, lab
  <2>5. QED BY <2>1, <2>2, <2>3, <2>4
<1>9. Merges(s, t, p, n)
  BY <1>1, <1>7, <1>8 DEF Merges
<1>10. QED BY <1>9

LEMMA MergeRuns ==
  ASSUME IInv, Ranked, AllRun, NEW s \in node, NEW t \in node, s # t, MergeNodes(s, t)
  PROVE  AllRun'
<1>0. PICK p \in node, n \in node : Merges(s, t, p, n)
  BY MergeLinks
<1>1. s \notin {Start, End, p} /\ rank[s] = rank[t] /\ node' = node \ {s}
  BY <1>0 DEF Merges
<1>2. /\ {Start, End} \subseteq node /\ node \in SUBSET Reading /\ IsGraph(seq, node)
      /\ rank \in [node -> Nat]
  BY DEF IInv, TypeOK
<1>4. <<p, s>> \in DOMAIN seq /\ <<s, n>> \in DOMAIN seq
  BY <1>0 DEF Merges
<1>5. rank[p] < rank[s] /\ rank[s] < rank[n]
  BY <1>4 DEF Ranked, RanksIncrease
<1>6. p # s /\ n # s /\ p # t /\ n # t
  BY <1>1, <1>2, <1>5
<1>7. /\ \A x : <<x, s>> \in DOMAIN seq <=> x = p
      /\ \A y : <<s, y>> \in DOMAIN seq <=> y = n
  BY <1>0 DEF Merges
<1>8. ASSUME NEW x, NEW y, NEW w
      PROVE  Has(seq', x, y, w) <=>
               /\ \/ Has(seq, x, y, w)
                  \/ x = p /\ y = t /\ Has(seq, p, s, w)
                  \/ x = t /\ y = n /\ Has(seq, s, n, w)
               /\ ~ (x = p /\ y = s) /\ ~ (x = s /\ y = n)
  BY <1>0 DEF Merges
<1>9. ASSUME NEW w \in Sigil PROVE Runs(seq', node', w)
  <2>1. Runs(seq, node, w)
    BY DEF AllRun
  <2>2. \/ BaseBefore(seq, s, w) = {} /\ BaseAfter(seq, s, w) = {}
        \/ IsOne(BaseBefore(seq, s, w)) /\ IsOne(BaseAfter(seq, s, w))
    BY <1>1, <2>1 DEF Runs
  <2>3. CASE BaseBefore(seq, s, w) = {} /\ BaseAfter(seq, s, w) = {}
    <3>1. ~ Has(seq, p, s, w) /\ ~ Has(seq, s, n, w)
      BY <1>2, <2>3 DEF BaseBefore, BaseAfter, Has
    <3>2. \A x, y \in Reading : Has(seq', x, y, w) <=> Has(seq, x, y, w)
      BY <1>8, <3>1
    <3>3. Runs(seq', node, w)
      BY <1>2, <2>1, <3>2, SameWay
    <3>4. QED BY <1>1, <3>3 DEF Runs
  <2>4. CASE IsOne(BaseBefore(seq, s, w)) /\ IsOne(BaseAfter(seq, s, w))
    <3>1. BaseBefore(seq, s, w) = {p} /\ BaseAfter(seq, s, w) = {n}
      <4>1. BaseBefore(seq, s, w) \subseteq {p} /\ BaseAfter(seq, s, w) \subseteq {n}
        BY <1>7 DEF BaseBefore, BaseAfter
      <4>2. QED BY <2>4, <4>1 DEF IsOne
    <3>2. Has(seq, p, s, w) /\ Has(seq, s, n, w)
      BY <3>1 DEF BaseBefore, BaseAfter, Has
    <3>3. BaseBefore(seq, t, w) = {}
      BY <1>1, <2>1, <3>1, OnePlace
    <3>4. t \notin {Start, End}
      <4>1. t # End
        BY <2>1, <3>3 DEF Runs, IsOne
      <4>2. t # Start
        BY <1>1, <1>2 DEF IInv, StartComesFirst
      <4>3. QED BY <4>1, <4>2
    <3>5. BaseAfter(seq, t, w) = {}
      BY <2>1, <3>3, <3>4 DEF Runs, IsOne
    <3>6. \A x, y \in Reading :
            Has(seq', x, y, w) <=>
              /\ Has(seq, x, y, w) \/ (x = p /\ y = t) \/ (x = t /\ y = n)
              /\ ~ (x = p /\ y = s) /\ ~ (x = s /\ y = n)
      BY <1>8, <3>2
    <3>7. Runs(seq', node, w)
      BY <1>2, <2>1, <3>1, <3>3, <3>4, <3>5, <3>6, Reroute
    <3>8. QED BY <1>1, <3>7 DEF Runs
  <2>5. QED BY <2>2, <2>3, <2>4
<1>10. QED BY <1>9 DEF AllRun

LEMMA WitnessesStep ==
  WInv /\ [Next]_vars => [(Ranked /\ AllRun => AllRun') \/ \E s \in node : MergeNodes(s, s)]_vars
<1> SUFFICES ASSUME WInv, Next, Ranked, AllRun, ~ \E s \in node : MergeNodes(s, s)
             PROVE  AllRun'
  BY DEF WInv
<1>1. IInv
  BY DEF WInv
<1>2. CASE DupCommit
  BY <1>2, DupCommitRuns
<1>3. CASE SplitStep
  <2>1. PICK r \in node : \E parts \in Cuts(text[r]) : \E byPattern, fresh :
                              Split(r, parts, fresh, byPattern)
    BY <1>3 DEF SplitStep
  <2>2. PICK parts \in Cuts(text[r]) : \E byPattern, fresh : Split(r, parts, fresh, byPattern)
    BY <2>1
  <2>3. QED BY <1>1, <2>2, SplitRuns
<1>4. CASE CompressStep
  BY <1>1, <1>4, CompressRuns DEF CompressStep
<1>5. CASE MergeStep
  BY <1>1, <1>5, MergeRuns DEF MergeStep
<1>6. CASE ~DupCommit /\ ~SplitStep /\ ~CompressStep /\ ~MergeStep
  <2>1. UNCHANGED <<seq, node>>
    <3>1. CASE PutBackStep \/ LookUpStep \/ Crash
      BY <3>1 DEF PutBackStep, PutBack, LookUpStep, LookUp, Crash
    <3>2. CASE ~PutBackStep /\ ~LookUpStep /\ ~Crash
      BY <1>6, <3>2 DEF Next, DuplicateStep, DupOpen, DupReading, DupWitness, DupRelations,
                DupAbort, RankStep, ChangeRank, LemmaStep, SetLemma, SetLemmaText,
                RelationStep, RelateStep, Relate, Unrelate, UnrelateAlike, UnrelateAll, CreateType
    <3>3. QED BY <3>1, <3>2
  <2>2. QED BY <2>1 DEF AllRun
<1>7. QED BY <1>2, <1>3, <1>4, <1>5, <1>6

\* In a ranked collation every witness keeps its one path from start to end:
\* no duplicate, split, compression or merge leaves a gap, a fork or a stray
\* link of its base text, except a reading that is merged with itself.
THEOREM WitnessesStay == Spec => WitnessesKept
<1>1. Init => WInv
  BY InitInv DEF Init, WInv
<1>2. QED BY <1>1, WitnessesInv, WitnessesStep, PTL DEF Spec, WitnessesKept

-----------------------------------------------------------------------------
(* What a duplicate commits.                                               *)

\* No base text leads from a reading to itself.
Loopless == \A x \in Reading, w \in Sigil : ~ Has(seq, x, x, w)

\* A reading is on the path of w.
Reads(s, x, w) == \E y \in Reading : Has(s, x, y, w) \/ Has(s, y, x, w)

\* The open transaction: each copy is read by the witnesses that have been
\* moved to it, and by none that its original has kept; the other readings
\* keep theirs.
Parted ==
  /\ \A x \in Reading, w \in Sigil : ~ Has(dup.seq, x, x, w)
  /\ \A c \in DOMAIN dup.from, w \in Sigil :
       Reads(dup.seq, c, w) <=> /\ <<w, Base>> \in dup.wits
                                /\ c = dup.copy => <<w, Base>> \notin dup.todo
  /\ \A x \in node, w \in Sigil :
       /\ Reads(dup.seq, x, w) => Reads(seq, x, w)
       /\ Reads(seq, x, w) /\ <<w, Base>> \notin dup.wits => Reads(dup.seq, x, w)
  /\ \A c \in DOMAIN dup.from, w \in Sigil :
       ~ (Reads(dup.seq, c, w) /\ Reads(dup.seq, dup.from[c], w))

PInv == IInv /\ Loopless /\ (dup # Closed => Parted)

LEMMA RankedLoopless == IInv /\ Ranked => Loopless
<1> SUFFICES ASSUME IInv, Ranked PROVE Loopless
  OBVIOUS
<1>1. ASSUME NEW x, NEW w, Has(seq, x, x, w) PROVE FALSE
  <2>1. x \in node /\ rank[x] < rank[x]
    BY <1>1 DEF Has, Ranked, RanksIncrease, IInv, TypeOK, IsGraph
  <2>2. QED BY <2>1 DEF IInv, TypeOK
<1>2. QED BY <1>1 DEF Loopless

LEMMA DupOpenParts ==
  ASSUME PInv, NEW wits \in SUBSET Label, DupOpen(wits)
  PROVE  Parted'
<1>1. /\ dup'.seq = seq /\ dup'.from = <<>> /\ seq' = seq /\ node' = node
  BY DEF DupOpen
<1>2. DOMAIN dup'.from = {}
  BY <1>1
<1>3. QED BY <1>1, <1>2 DEF PInv, Loopless, Parted, Reads

LEMMA DupReadingParts ==
  ASSUME PInv, NEW r \in Reading, NEW c \in Reading, DupReading(r, c)
  PROVE  Parted'
<1> DEFINE from2 == [n \in DOMAIN dup.from \cup {c} |-> IF n = c THEN r ELSE dup.from[n]]
<1>1. /\ dup # Closed /\ ~dup.busy /\ c \notin node \cup DOMAIN dup.from
      /\ UNCHANGED <<node, seq>>
      /\ dup' = [dup EXCEPT !.todo = dup.wits, !.busy = TRUE, !.cur = r, !.copy = c,
                            !.from = from2]
  BY DEF DupReading
<1>2. TransactionOK /\ DupOK /\ Parted
  BY <1>1 DEF PInv, IInv, DupOK
<1>3. /\ dup'.seq = dup.seq /\ dup'.from = from2 /\ dup'.copy = c /\ dup'.todo = dup.wits
      /\ dup'.wits = dup.wits /\ dup.todo = {}
  BY <1>1, <1>2 DEF TransactionOK, DupOK
<1>4. \A w : ~ Reads(dup.seq, c, w)
  BY <1>1, <1>2 DEF TransactionOK, IsGraph, Has, Reads
<1> HIDE DEF from2
<1>5. /\ DOMAIN from2 = DOMAIN dup.from \cup {c}
      /\ \A n \in DOMAIN dup.from : from2[n] = dup.from[n]
  BY <1>1 DEF from2
<1>6. ASSUME NEW d \in DOMAIN from2, NEW w \in Sigil
      PROVE  /\ Reads(dup.seq, d, w) <=> /\ <<w, Base>> \in dup.wits
                                         /\ d = c => <<w, Base>> \notin dup.wits
             /\ ~ (Reads(dup.seq, d, w) /\ Reads(dup.seq, from2[d], w))
  <2>1. CASE d = c
    BY <1>4, <2>1
  <2>2. CASE d # c
    BY <1>2, <1>3, <1>5, <2>2 DEF Parted
  <2>3. QED BY <2>1, <2>2
<1>7. QED BY <1>1, <1>2, <1>3, <1>6 DEF Parted, Reads

LEMMA DupWitnessParts ==
  ASSUME PInv, NEW lab \in Label, DupWitness(lab)
  PROVE  Parted'
<1>1. dup # Closed /\ lab \in dup.todo /\ UNCHANGED <<node, seq>>
  BY DEF DupWitness
<1>2. DupOK /\ TransactionOK /\ dup.busy /\ IInv /\ Parted
  BY <1>1 DEF PInv, IInv, DupOK
<1>3. /\ dup'.todo = dup.todo \ {lab} /\ dup'.copy = dup.copy /\ dup'.cur = dup.cur
      /\ dup'.from = dup.from /\ dup'.wits = dup.wits
  <2>1. PICK s : dup' = [dup EXCEPT !.todo = dup.todo \ {lab}, !.seq = s]
    BY DEF DupWitness
  <2>2. QED BY <1>2, <2>1 DEF TransactionOK
<1>4. PICK p \in DupNode, n \in DupNode :
        /\ \A w : lab = <<w, Base>> => /\ BaseBefore(dup.seq, dup.cur, w) = {p}
                                       /\ BaseAfter(dup.seq, dup.cur, w) = {n}
        /\ \A x, y, w :
             Has(dup'.seq, x, y, w)
               <=> IF lab = <<w, Base>>
                   THEN /\ \/ Has(dup.seq, x, y, w)
                           \/ x = p /\ y = dup.copy
                           \/ x = dup.copy /\ y = n
                        /\ ~ (x = p /\ y = dup.cur) /\ ~ (x = dup.cur /\ y = n)
                   ELSE Has(dup.seq, x, y, w)
  BY <1>2, WitnessMoves
<1>5. /\ DupNode \subseteq Reading /\ dup.cur \in node /\ dup.copy \in DOMAIN dup.from
      /\ dup.cur = dup.from[dup.copy] /\ dup.cur # dup.copy
      /\ DOMAIN dup.from \subseteq DupNode /\ node \subseteq DupNode
      /\ \A c \in DOMAIN dup.from : dup.from[c] \in node
      /\ DOMAIN dup.from \cap node = {}
  BY <1>2 DEF DupOK, TransactionOK, DupNode, IInv, TypeOK
<1>6. lab \in dup.wits
  BY <1>1, <1>2 DEF TransactionOK
<1>7. ASSUME NEW w \in Sigil, lab # <<w, Base>>
      PROVE  \A x, y : Has(dup'.seq, x, y, w) <=> Has(dup.seq, x, y, w)
  BY <1>4, <1>7
<1>8. ASSUME NEW w \in Sigil, lab = <<w, Base>>
      PROVE  /\ Has(dup.seq, p, dup.cur, w) /\ Has(dup.seq, dup.cur, n, w)
             /\ \A x \in Reading : Has(dup.seq, x, dup.cur, w) => x = p
             /\ \A x \in Reading : Has(dup.seq, dup.cur, x, w) => x = n
             /\ p \notin {dup.cur, dup.copy} /\ n \notin {dup.cur, dup.copy}
             /\ ~ Reads(dup.seq, dup.copy, w)
             /\ p \in Reading /\ n \in Reading
             /\ \A x, y : Has(dup'.seq, x, y, w)
                  <=> /\ \/ Has(dup.seq, x, y, w)
                         \/ x = p /\ y = dup.copy
                         \/ x = dup.copy /\ y = n
                      /\ ~ (x = p /\ y = dup.cur) /\ ~ (x = dup.cur /\ y = n)
  <2>1. BaseBefore(dup.seq, dup.cur, w) = {p} /\ BaseAfter(dup.seq, dup.cur, w) = {n}
    BY <1>4, <1>8
  <2>2. /\ Has(dup.seq, p, dup.cur, w) /\ Has(dup.seq, dup.cur, n, w)
        /\ \A x \in Reading : Has(dup.seq, x, dup.cur, w) => x = p
        /\ \A x \in Reading : Has(dup.seq, dup.cur, x, w) => x = n
    BY <2>1 DEF BaseBefore, BaseAfter, Has
  <2>3. p \in Reading /\ n \in Reading /\ dup.cur \in Reading
    BY <1>5
  <2>4. p # dup.cur /\ n # dup.cur
    BY <1>2, <2>2, <2>3 DEF Parted
  <2>5. ~ Reads(dup.seq, dup.copy, w)
    BY <1>1, <1>2, <1>5, <1>8 DEF Parted
  <2>6. p # dup.copy /\ n # dup.copy
    BY <2>2, <2>3, <2>5 DEF Reads
  <2>7. QED BY <1>4, <1>8, <2>2, <2>3, <2>4, <2>5, <2>6
<1>9. ASSUME NEW w \in Sigil, NEW x \in Reading
      PROVE  Reads(dup'.seq, x, w) <=>
               IF lab = <<w, Base>> /\ x \in {dup.cur, dup.copy} THEN x = dup.copy
               ELSE Reads(dup.seq, x, w)
  <2>1. CASE lab # <<w, Base>>
    BY <1>7, <2>1 DEF Reads
  <2>2. CASE lab = <<w, Base>> /\ x = dup.copy
    BY <1>5, <1>8, <2>2 DEF Reads
  <2>3. CASE lab = <<w, Base>> /\ x = dup.cur
    BY <1>5, <1>8, <2>3 DEF Reads
  <2>4. CASE lab = <<w, Base>> /\ x \notin {dup.cur, dup.copy} /\ x \in {p, n}
    <3>1. Reads(dup.seq, x, w)
      BY <1>5, <1>8, <2>4 DEF Reads
    <3>2. Has(dup'.seq, p, dup.copy, w) /\ Has(dup'.seq, dup.copy, n, w)
      BY <1>5, <1>8, <2>4
    <3>3. dup.copy \in Reading
      BY <1>5
    <3>4. Reads(dup'.seq, x, w)
      BY <2>4, <3>2, <3>3 DEF Reads
    <3>5. QED BY <2>4, <3>1, <3>4
  <2>5. CASE lab = <<w, Base>> /\ x \notin {dup.cur, dup.copy, p, n}
    <3>1. \A y : /\ Has(dup'.seq, x, y, w) <=> Has(dup.seq, x, y, w)
                 /\ Has(dup'.seq, y, x, w) <=> Has(dup.seq, y, x, w)
      BY <1>8, <2>5
    <3>2. QED BY <2>5, <3>1 DEF Reads
  <2>6. QED BY <2>1, <2>2, <2>3, <2>4, <2>5
<1>10. \A x \in Reading, w \in Sigil : ~ Has(dup'.seq, x, x, w)
  <2>1. ASSUME NEW x \in Reading, NEW w \in Sigil PROVE ~ Has(dup'.seq, x, x, w)
    <3>1. ~ Has(dup.seq, x, x, w)
      BY <1>2 DEF Parted
    <3>2. CASE lab = <<w, Base>>
      BY <1>8, <3>1, <3>2
    <3>3. CASE lab # <<w, Base>>
      BY <1>7, <3>1, <3>3
    <3>4. QED BY <3>2, <3>3
  <2>2. QED BY <2>1
<1>11. ASSUME NEW c \in DOMAIN dup.from, NEW w \in Sigil
       PROVE  /\ Reads(dup'.seq, c, w) <=> /\ <<w, Base>> \in dup.wits
                                           /\ c = dup.copy => <<w, Base>> \notin dup.todo \ {lab}
              /\ ~ (Reads(dup'.seq, c, w) /\ Reads(dup'.seq, dup.from[c], w))
  <2>1. /\ Reads(dup.seq, c, w) <=> /\ <<w, Base>> \in dup.wits
                                    /\ c = dup.copy => <<w, Base>> \notin dup.todo
        /\ ~ (Reads(dup.seq, c, w) /\ Reads(dup.seq, dup.from[c], w))
    BY <1>2 DEF Parted
  <2>2. c \in Reading /\ c # dup.cur /\ dup.from[c] \in Reading /\ dup.from[c] # dup.copy
    BY <1>5
  <2>3. /\ Reads(dup'.seq, c, w) <=> (IF lab = <<w, Base>> /\ c = dup.copy THEN TRUE
                                      ELSE Reads(dup.seq, c, w))
        /\ Reads(dup'.seq, dup.from[c], w)
             <=> (IF lab = <<w, Base>> /\ dup.from[c] = dup.cur THEN FALSE
                  ELSE Reads(dup.seq, dup.from[c], w))
    BY <1>9, <2>2
  <2>4. QED BY <1>5, <1>6, <2>1, <2>3
<1>12. ASSUME NEW x \in node, NEW w \in Sigil
       PROVE  /\ Reads(dup'.seq, x, w) => Reads(seq, x, w)
              /\ Reads(seq, x, w) /\ <<w, Base>> \notin dup.wits => Reads(dup'.seq, x, w)
  <2>1. /\ Reads(dup.seq, x, w) => Reads(seq, x, w)
        /\ Reads(seq, x, w) /\ <<w, Base>> \notin dup.wits => Reads(dup.seq, x, w)
    BY <1>2 DEF Parted
  <2>2. x \in Reading /\ x # dup.copy
    BY <1>5
  <2>3. Reads(dup'.seq, x, w) <=> (IF lab = <<w, Base>> /\ x = dup.cur THEN FALSE
                                   ELSE Reads(dup.seq, x, w))
    BY <1>9, <2>2
  <2>4. QED BY <1>6, <2>1, <2>3
<1>13. QED BY <1>1, <1>3, <1>10, <1>11, <1>12 DEF Parted

LEMMA DupRelationsParts ==
  ASSUME PInv, DupRelations
  PROVE  Parted'
<1>1. dup # Closed /\ UNCHANGED <<node, seq>>
  BY DEF DupRelations
<1>2. TransactionOK
  BY <1>1 DEF PInv, IInv, DupOK
<1>3. /\ dup'.seq = dup.seq /\ dup'.from = dup.from /\ dup'.copy = dup.copy
      /\ dup'.todo = dup.todo /\ dup'.wits = dup.wits
  BY <1>2 DEF DupRelations, TransactionOK
<1>4. QED BY <1>1, <1>3 DEF PInv, Parted, Reads


SInv == IInv /\ (Loopless /\ dup # Closed => Parted)

LEMMA PartsInv == SInv /\ [Next]_vars => SInv'
<1> SUFFICES ASSUME SInv, [Next]_vars PROVE SInv'
  OBVIOUS
<1>1. IInv'
  BY NextInv DEF SInv
<1>2. CASE dup' = Closed
  BY <1>1, <1>2 DEF SInv
<1>3. CASE dup' = dup /\ dup # Closed
  <2>1. UNCHANGED <<node, seq>>
    <3>1. CASE UNCHANGED vars
      BY <3>1 DEF vars
    <3>2. CASE DuplicateStep
      BY <1>3, <3>2 DEF DuplicateStep, DupOpen, DupReading, DupWitness, DupRelations,
                        DupCommit, DupAbort
    <3>3. QED BY <1>3, <3>1, <3>2, OthersWait
  <2>2. QED BY <1>1, <1>3, <2>1 DEF SInv, Loopless, Parted, Reads
<1>4. CASE dup' # dup /\ dup' # Closed
  <2>1. DuplicateStep
    BY <1>4, OthersWait DEF vars
  <2>2. UNCHANGED seq
    BY <1>4, <2>1 DEF DuplicateStep, DupOpen, DupReading, DupWitness, DupRelations, DupCommit,
                      DupAbort
  <2>3. SUFFICES ASSUME Loopless PROVE Parted'
    BY <1>1, <2>2 DEF SInv, Loopless
  <2>4. PInv
    BY <2>3 DEF SInv, PInv
  <2>5. CASE \E wits \in SUBSET Label : DupOpen(wits)
    BY <2>4, <2>5, DupOpenParts
  <2>6. CASE \E r, c \in Reading : DupReading(r, c)
    BY <2>4, <2>6, DupReadingParts
  <2>7. CASE \E lab \in Label : DupWitness(lab)
    BY <2>4, <2>7, DupWitnessParts
  <2>8. CASE DupRelations
    BY <2>4, <2>8, DupRelationsParts
  <2>9. CASE DupCommit \/ DupAbort
    BY <1>4, <2>9 DEF DupCommit, DupAbort
  <2>10. QED BY <2>1, <2>5, <2>6, <2>7, <2>8, <2>9 DEF DuplicateStep
<1>5. QED BY <1>2, <1>3, <1>4

LEMMA BaseReaders ==
  ASSUME NEW s, NEW x
  PROVE  BaseWitnesses(s, x) = {w \in Sigil : Reads(s, x, w)}
BY DEF BaseWitnesses, BaseBefore, BaseAfter, Reads, Has

LEMMA DupCommitParts ==
  ASSUME PInv, DupCommit
  PROVE  Separates
<1>1. /\ dup # Closed /\ ~dup.busy /\ seq' = dup.seq
  BY DEF DupCommit
<1>2. TransactionOK /\ DupOK /\ Parted
  BY <1>1 DEF PInv, IInv, DupOK
<1>3. /\ dup.todo = {} /\ dup.wits \subseteq Label
      /\ \A c \in DOMAIN dup.from : dup.from[c] \in node
  BY <1>1, <1>2 DEF TransactionOK, DupOK
<1>4. \A w : w \in {l[1] : l \in BaseOf(dup.wits)} <=> w \in Sigil /\ <<w, Base>> \in dup.wits
  BY <1>3 DEF BaseOf, Label
<1>5. ASSUME NEW c \in DOMAIN dup.from
      PROVE  /\ BaseWitnesses(seq', c) = {l[1] : l \in BaseOf(dup.wits)}
             /\ BaseWitnesses(seq', dup.from[c])
                  = BaseWitnesses(seq, dup.from[c]) \ {l[1] : l \in BaseOf(dup.wits)}
  <2>1. ASSUME NEW w \in Sigil
        PROVE  /\ Reads(dup.seq, c, w) <=> <<w, Base>> \in dup.wits
               /\ Reads(dup.seq, dup.from[c], w)
                    <=> Reads(seq, dup.from[c], w) /\ <<w, Base>> \notin dup.wits
    BY <1>2, <1>3 DEF Parted
  <2>2. QED BY <1>1, <1>4, <2>1, BaseReaders
<1>6. QED BY <1>5 DEF Separates

\* What a duplicate commits separates each copy from its original: the copy is
\* read by the witnesses asked for, the original by all the others it had.
\* No more is needed of the graph than that no base text leads from a reading
\* to itself.
THEOREM CopiesSeparate == Spec /\ []Loopless => DuplicateSeparates
<1>1. Init => SInv
  BY InitInv DEF Init, SInv
<1>2. SInv /\ Loopless /\ [Next]_vars => [DupCommit => Separates]_vars
  BY DupCommitParts DEF SInv, PInv, DupCommit
<1>3. QED BY <1>1, <1>2, PartsInv, PTL DEF Spec, DuplicateSeparates

LEMMA LooplessStep ==
  IInv /\ [Next]_vars => [(Loopless => Loopless') \/ (MergeStep /\ ~Ranked) \/ DupCommit]_vars
<1> SUFFICES ASSUME IInv, Next, Loopless, ~DupCommit, ~(MergeStep /\ ~Ranked)
             PROVE  Loopless'
  OBVIOUS
<1>1. CASE SplitStep
  <2>1. PICK r \in node : \E parts \in Cuts(text[r]) : \E byPattern, fresh :
                              Split(r, parts, fresh, byPattern)
    BY <1>1 DEF SplitStep
  <2>2. PICK parts \in Cuts(text[r]) : \E byPattern, fresh : Split(r, parts, fresh, byPattern)
    BY <2>1
  <2>3. PICK k, q : Drawn(q, k, node) /\ \A w : DrawnOut(seq, seq', w, q, k)
    BY <2>2, SplitDraws
  <2>4. ASSUME NEW x \in Reading, NEW w \in Sigil PROVE ~ Has(seq', x, x, w)
    <3>1. ~ Has(seq, x, x, w) /\ ~ Has(seq, q[1], q[k], w)
      BY <2>3 DEF Loopless, Drawn, Has, IInv, TypeOK, IsGraph
    <3>2. ~ \E i \in 1 .. k - 1 : x = q[i] /\ x = q[i + 1]
      BY <2>3 DEF Drawn
    <3>3. DrawnOut(seq, seq', w, q, k)
      BY <2>3
    <3>4. QED BY <3>1, <3>2, <3>3 DEF DrawnOut
  <2>5. QED BY <2>4 DEF Loopless
<1>2. CASE CompressStep
  <2>1. PICK r1 \in node, r2 \in node : Compress(r1, r2)
    BY <1>2 DEF CompressStep
  <2>2. \A w : DrawnIn(seq, seq', w, r1, r2)
    BY <2>1, CompressDraws
  <2>3. QED BY <2>2 DEF DrawnIn, Loopless
<1>3. CASE MergeStep
  <2>1. Ranked
    BY <1>3
  <2>2. Ranked'
    BY <1>3, <2>1, MergeOrder DEF MergeStep
  <2>3. IInv'
    BY NextInv
  <2>4. QED BY <2>2, <2>3, RankedLoopless, PTL
<1>4. CASE ~SplitStep /\ ~CompressStep /\ ~MergeStep
  <2>1. UNCHANGED seq
    <3>1. CASE PutBackStep \/ LookUpStep \/ Crash
      BY <3>1 DEF PutBackStep, PutBack, LookUpStep, LookUp, Crash
    <3>2. CASE ~PutBackStep /\ ~LookUpStep /\ ~Crash
      BY <1>4, <3>2 DEF Next, DuplicateStep, DupOpen, DupReading, DupWitness, DupRelations,
                DupAbort, RankStep, ChangeRank, LemmaStep, SetLemma, SetLemmaText,
                RelationStep, RelateStep, Relate, Unrelate, UnrelateAlike, UnrelateAll, CreateType
    <3>3. QED BY <3>1, <3>2
  <2>2. QED BY <2>1 DEF Loopless
<1>5. QED BY <1>1, <1>2, <1>3, <1>4

\* Only a merge in a graph whose ranks are out of order can lead a base text
\* from a reading to itself, the case that CopiesSeparate sets aside.
THEOREM LoopsByMerging ==
  Spec => [][(Loopless => Loopless') \/ (MergeStep /\ ~Ranked)]_vars
<1>1. Init => SInv
  BY InitInv DEF Init, SInv
<1>2. SInv /\ DupCommit => (Loopless => Loopless')
  BY DEF SInv, DupCommit, Parted, Loopless
<1>3. SInv /\ [Next]_vars => [(Loopless => Loopless') \/ (MergeStep /\ ~Ranked)]_vars
  BY <1>2, LooplessStep DEF SInv
<1>4. QED BY <1>1, <1>3, PartsInv, PTL DEF Spec

-----------------------------------------------------------------------------
(* The lemma text.                                                         *)

\* The lemma links are read up to the end, wherever those of the end lead.
PathOf(L) == LemmaPath({l \in L : l[1] # End})

\* One link leaves n, that to m.
Follows(L, n, m) == \A y : <<n, y>> \in L <=> y = m

\* LemmaTextReadable of any links.
Linear(L) ==
  L # {} => End \in PathOf(L) /\ \A n \in PathOf(L) \ {End} : \E m : Follows(L, n, m)

\* No link leads out of S, but those of the end.
Held(L, S) == \A x, y : <<x, y>> \in L /\ x \in S /\ x # End => y \in S

LEMMA PathClosed ==
  ASSUME NEW N, NEW L \in SUBSET (N \X N)
  PROVE  Start \in PathOf(L) /\ Held(L, PathOf(L))
<1> DEFINE led    == {l \in L : l[1] # End}
           ends   == {Start} \cup {l[2] : l \in led}
           closed == {S \in SUBSET ends : Start \in S /\ \A l \in led : l[1] \in S => l[2] \in S}
<1>1. PathOf(L) = {n \in ends : \A S \in closed : n \in S}
  BY DEF PathOf, LemmaPath
<1>2. Start \in PathOf(L)
  BY <1>1
<1>3. ASSUME NEW x, NEW y, <<x, y>> \in L, x \in PathOf(L), x # End PROVE y \in PathOf(L)
  <2>1. /\ <<x, y>> \in led /\ <<x, y>>[1] = x /\ <<x, y>>[2] = y
    BY <1>3
  <2>2. y \in ends
    BY <2>1
  <2>3. ASSUME NEW S \in closed PROVE y \in S
    <3>1. x \in S
      BY <1>1, <1>3
    <3>2. QED BY <2>1, <3>1
  <2>4. QED BY <1>1, <2>2, <2>3
<1>4. QED BY <1>2, <1>3 DEF Held

LEMMA PathLeast ==
  ASSUME NEW N, NEW L \in SUBSET (N \X N), NEW S, Start \in S, Held(L, S)
  PROVE  PathOf(L) \subseteq S
<1> DEFINE led    == {l \in L : l[1] # End}
           ends   == {Start} \cup {l[2] : l \in led}
           closed == {T \in SUBSET ends : Start \in T /\ \A l \in led : l[1] \in T => l[2] \in T}
           T0     == S \cap ends
<1>1. PathOf(L) = {n \in ends : \A T \in closed : n \in T}
  BY DEF PathOf, LemmaPath
<1>2. ASSUME NEW l \in led, l[1] \in T0 PROVE l[2] \in T0
  <2>1. l = <<l[1], l[2]>> /\ l \in L /\ l[1] # End
    OBVIOUS
  <2>2. <<l[1], l[2]>> \in L /\ l[1] \in S
    BY <1>2, <2>1
  <2>3. l[2] \in S
    BY <2>1, <2>2 DEF Held
  <2>4. QED BY <2>3
<1>3. T0 \in closed
  BY <1>2
<1>4. QED BY <1>1, <1>3

\* Every reading on the way to the end has the end ahead of it.
LEMMA EndAhead ==
  ASSUME NEW N, NEW L \in SUBSET (N \X N), L # {}, Linear(L),
         NEW C \in SUBSET N, Held(L, C), End \notin C
  PROVE  PathOf(L) \cap C = {}
<1> DEFINE E == {n \in PathOf(L) : \A S \in SUBSET N : n \in S /\ Held(L, S) => End \in S}
<1>1. /\ End \in PathOf(L)
      /\ \A n \in PathOf(L) \ {End} : \E m : Follows(L, n, m)
  BY DEF Linear
<1>2. Start \in PathOf(L) /\ Held(L, PathOf(L))
  BY PathClosed
<1>3. Start \in E
  <2>1. ASSUME NEW S \in SUBSET N, Start \in S, Held(L, S) PROVE End \in S
    BY <1>1, <2>1, PathLeast
  <2>2. QED BY <1>2, <2>1
<1>4. ASSUME NEW x, NEW y, <<x, y>> \in L, x \in E, x # End PROVE y \in E
  <2>1. x \in PathOf(L) /\ y \in PathOf(L) /\ x \in N
    BY <1>2, <1>4 DEF Held
  <2>2. \A z : <<x, z>> \in L <=> z = y
    BY <1>1, <1>4, <2>1 DEF Follows
  <2>3. ASSUME NEW S \in SUBSET N, y \in S, Held(L, S) PROVE End \in S
    <3>1. Held(L, S \cup {x})
      BY <2>2, <2>3 DEF Held
    <3>2. S \cup {x} \in SUBSET N
      BY <2>1
    <3>3. End \in S \cup {x}
      BY <1>4, <3>1, <3>2
    <3>4. QED BY <1>4, <3>3
  <2>4. QED BY <2>1, <2>3
<1> HIDE DEF E
<1>5. PathOf(L) \subseteq E
  BY <1>3, <1>4, PathLeast DEF Held
<1>6. ASSUME NEW n \in PathOf(L), n \in C PROVE FALSE
  BY <1>5, <1>6 DEF E
<1>7. QED BY <1>6

\* The links M are those of L without r2, which only r1 leads to.
Skips(L, M, r1, r2) ==
  \A x, y : <<x, y>> \in M <=> /\ x # r2 /\ y # r2
                               /\ \/ <<x, y>> \in L
                                  \/ x = r1 /\ y # r1 /\ <<r2, y>> \in L

LEMMA SkipLinear ==
  ASSUME NEW N, NEW L \in SUBSET (N \X N), NEW M \in SUBSET (N \X N), L # {}, Linear(L),
         NEW r1 \in N \ {Start, End}, NEW r2 \in N \ {Start, End}, r1 # r2,
         \A y : <<r1, y>> \in L => y = r2,
         \A x : <<x, r2>> \in L => x = r1,
         Skips(L, M, r1, r2)
  PROVE  Linear(M)
<1> DEFINE R == PathOf(L)
           Q == PathOf(M)
           K == {n \in R : n \in Q \/ (n = r2 /\ r1 \in Q)}
<1>1. End \in R /\ \A n \in R \ {End} : \E m : Follows(L, n, m)
  BY DEF Linear
<1>2. Start \in R /\ Held(L, R) /\ Start \in Q /\ Held(M, Q)
  BY PathClosed
<1>3. <<r2, r1>> \in L => r1 \notin R
  <2>1. SUFFICES ASSUME <<r2, r1>> \in L, r1 \in R PROVE FALSE
    OBVIOUS
  <2>2. r2 \in R
    BY <1>1, <1>2, <2>1 DEF Follows, Held
  <2>3. \A y : <<r2, y>> \in L => y = r1
    BY <1>1, <2>1, <2>2 DEF Follows
  <2>4. Held(L, {r1, r2})
    BY <2>3 DEF Held
  <2>5. {r1, r2} \in SUBSET N /\ End \notin {r1, r2}
    OBVIOUS
  <2>6. R \cap {r1, r2} = {}
    BY <2>4, <2>5, EndAhead
  <2>7. QED BY <2>1, <2>6
<1>4. r1 \in R <=> r2 \in R
  <2>1. r1 \in R => r2 \in R
    BY <1>1, <1>2 DEF Follows, Held
  <2>2. ASSUME r2 \in R, r1 \notin R PROVE FALSE
    <3>1. Held(L, R \ {r2})
      BY <1>2, <2>2 DEF Held
    <3>2. R \subseteq R \ {r2}
      BY <1>2, <3>1, PathLeast
    <3>3. QED BY <2>2, <3>2
  <2>3. QED BY <2>1, <2>2
<1> HIDE DEF R, Q
<1>5. Q \subseteq R \ {r2}
  <2>1. Held(M, R \ {r2})
    BY <1>2, <1>4 DEF Held, Skips
  <2>2. QED BY <1>2, <2>1, PathLeast DEF Q
<1>6. End \in Q
  <2>1. Start \in K
    BY <1>2
  <2>2. ASSUME NEW x, NEW y, <<x, y>> \in L, x \in K, x # End PROVE y \in K
    <3>1. y \in R
      BY <1>2, <2>2 DEF Held
    <3>2. CASE x = r2
      <4>1. r1 \in Q /\ r1 \in R
        BY <1>4, <1>5, <2>2, <3>2
      <4>2. y # r1 /\ y # r2
        BY <1>3, <2>2, <3>2, <4>1
      <4>3. <<r1, y>> \in M
        BY <2>2, <3>2, <4>2 DEF Skips
      <4>4. QED BY <1>2, <3>1, <4>1, <4>3 DEF Held
    <3>3. CASE x # r2 /\ y = r2
      BY <1>5, <2>2, <3>1, <3>3
    <3>4. CASE x # r2 /\ y # r2
      <4>1. <<x, y>> \in M /\ x \in Q
        BY <2>2, <3>4 DEF Skips
      <4>2. QED BY <1>2, <2>2, <3>1, <4>1 DEF Held
    <3>5. QED BY <3>2, <3>3, <3>4
  <2> HIDE DEF K
  <2>3. R \subseteq K
    BY <2>1, <2>2, PathLeast DEF Held, R
  <2>4. QED BY <1>1, <2>3 DEF K
<1>7. ASSUME NEW n \in Q \ {End} PROVE \E m : Follows(M, n, m)
  <2>1. n \in R /\ n # r2
    BY <1>5
  <2>2. PICK m : \A y : <<n, y>> \in L <=> y = m
    BY <1>1, <1>7, <2>1 DEF Follows
  <2>3. CASE n # r1
    <3>1. m # r2
      BY <2>2, <2>3
    <3>2. \A y : <<n, y>> \in M <=> y = m
      BY <2>1, <2>2, <2>3, <3>1 DEF Skips
    <3>3. Follows(M, n, m)
      BY <3>2 DEF Follows
    <3>4. QED BY <3>3
  <2>4. CASE n = r1
    <3>1. r1 \in R /\ r2 \in R /\ <<r2, r1>> \notin L
      BY <1>3, <1>4, <2>1, <2>4
    <3>2. PICK k : \A y : <<r2, y>> \in L <=> y = k
      BY <1>1, <3>1 DEF Follows
    <3>3. k # r1 /\ k # r2
      BY <3>1, <3>2
    <3>4. ASSUME NEW y PROVE <<r1, y>> \in M <=> y = k
      <4>1. <<r1, y>> \in M <=> y # r2 /\ (<<r1, y>> \in L \/ (y # r1 /\ <<r2, y>> \in L))
        BY DEF Skips
      <4>2. QED BY <3>2, <3>3, <4>1
    <3>5. Follows(M, n, k)
      BY <2>4, <3>4 DEF Follows
    <3>6. QED BY <3>5
  <2>5. QED BY <2>3, <2>4
<1>8. QED BY <1>6, <1>7 DEF Linear, Q

\* The bound of the model on ranks.
RanksBounded == \A n \in node : rank[n] <= MaxRank

LInv == IInv /\ RanksBounded /\ Linear(lemmaLink)

\* The lemmata of different ranks make one chain, with the end behind it.
LEMMA ChainLinear ==
  ASSUME LInv, SetLemmaText
  PROVE  Linear(lemmaLink')
<1> DEFINE S == {Start} \cup lemma
           L == lemmaLink'
           ahead(x, y) == /\ y \in S /\ rank[x] < rank[y]
                          /\ \A c \in S : rank[c] <= rank[x] \/ rank[y] <= rank[c]
           last(x) == \A c \in S : rank[c] <= rank[x]
<1>1. /\ S \subseteq node /\ rank \in [node -> Nat] /\ lemmaLink \in SUBSET (node \X node)
      /\ \A n \in node : rank[n] <= MaxRank
      /\ End \in node
  BY DEF LInv, IInv, TypeOK, RanksBounded
<1>2. /\ \A a, b \in S : a # b => rank[a] # rank[b]
      /\ \A x, y : <<x, y>> \in L /\ x \in S <=> <<x, y>> \in LemmaChain(S)
      /\ L \in SUBSET (node \X node)
  <2>1. PICK stale : /\ \A a, b \in S : a # b => rank[a] # rank[b]
                     /\ \A l \in lemmaLink \ stale : l[1] \notin S
                     /\ lemmaLink' = (lemmaLink \ stale) \cup LemmaChain(S)
    BY DEF SetLemmaText
  <2>2. LemmaChain(S) \subseteq S \X node
    BY <1>1 DEF LemmaChain, Successive
  <2>3. ASSUME NEW x, NEW y PROVE <<x, y>> \in L /\ x \in S <=> <<x, y>> \in LemmaChain(S)
    <3>1. <<x, y>> \in lemmaLink \ stale => x \notin S
      BY <2>1
    <3>2. <<x, y>> \in LemmaChain(S) => x \in S
      BY <2>2
    <3>3. QED BY <2>1, <3>1, <3>2
  <2>4. QED BY <1>1, <2>1, <2>2, <2>3
<1>3. ASSUME NEW x \in S, NEW y
      PROVE  <<x, y>> \in L <=> ahead(x, y) \/ (y = End /\ last(x))
  <2>1. <<x, y>> \in LemmaChain(S) <=> ahead(x, y) \/ (y = End /\ last(x))
    BY DEF LemmaChain, Successive
  <2>2. QED BY <1>2, <2>1
<1>4. Start \in S
  OBVIOUS
<1> HIDE DEF S, L
<1>5. ASSUME NEW n \in S
      PROVE  \E m : Follows(L, n, m) /\ (m = End \/ (m \in S /\ rank[n] < rank[m]))
  <2>1. CASE last(n)
    <3>1. \A y : ~ ahead(n, y)
      BY <1>1, <2>1
    <3>2. Follows(L, n, End)
      BY <1>3, <2>1, <3>1 DEF Follows
    <3>3. QED BY <3>2
  <2>2. CASE ~last(n)
    <3> DEFINE U == {rank[c] : c \in {d \in S : rank[n] < rank[d]}}
    <3>1. U \in SUBSET Nat /\ U # {}
      BY <1>1, <2>2
    <3>2. PICK k \in U : \A j \in U : k <= j
      BY <3>1, Least
    <3>3. PICK m \in S : rank[n] < rank[m] /\ k = rank[m]
      BY <3>2
    <3>4. \A c \in S : rank[n] < rank[c] => rank[m] <= rank[c]
      BY <3>2, <3>3
    <3>5. ahead(n, m)
      BY <1>1, <3>3, <3>4
    <3>6. ASSUME NEW y, ahead(n, y) PROVE y = m
      <4>1. rank[y] <= rank[m] /\ rank[m] <= rank[y]
        BY <1>1, <3>3, <3>4, <3>6
      <4>2. QED BY <1>1, <1>2, <3>3, <3>6, <4>1
    <3>7. Follows(L, n, m)
      BY <1>3, <2>2, <3>5, <3>6 DEF Follows
    <3>8. QED BY <3>3, <3>7
  <2>3. QED BY <2>1, <2>2
<1>6. Start \in PathOf(L) /\ Held(L, PathOf(L))
  BY <1>2, PathClosed
<1>7. PathOf(L) \subseteq S \cup {End}
  <2>1. Held(L, S \cup {End})
    BY <1>3 DEF Held
  <2>2. QED BY <1>2, <1>4, <2>1, PathLeast
<1>8. End \in PathOf(L)
  <2> SUFFICES ASSUME End \notin PathOf(L) PROVE FALSE
    OBVIOUS
  <2> DEFINE V == {MaxRank - rank[n] : n \in PathOf(L)}
  <2>1. PathOf(L) \subseteq S
    BY <1>7
  <2>2. V \in SUBSET Nat /\ V # {}
    BY <1>1, <1>6, <2>1, CollationAssumption
  <2>3. PICK k \in V : \A j \in V : k <= j
    BY <2>2, Least
  <2>4. PICK n \in PathOf(L) : k = MaxRank - rank[n]
    BY <2>3
  <2>5. PICK m : Follows(L, n, m) /\ (m = End \/ (m \in S /\ rank[n] < rank[m]))
    BY <1>5, <2>1, <2>4
  <2>6. m \in PathOf(L)
    BY <1>6, <2>4, <2>5 DEF Follows, Held
  <2>7. m \in S /\ rank[n] < rank[m] /\ k <= MaxRank - rank[m]
    BY <2>3, <2>5, <2>6
  <2>8. QED BY <1>1, <2>1, <2>4, <2>7, CollationAssumption
<1>9. QED BY <1>5, <1>7, <1>8 DEF Linear, L

LEMMA RelatingBounded ==
  ASSUME IInv, RanksBounded, NEW a, NEW b, NEW t, CanRelate(a, b), Relating(a, b, t),
         UNCHANGED node
  PROVE  RanksBounded'
<1>1. a \in node /\ b \in node
  BY DEF CanRelate
<1>2. rank' = IF rank[a] < rank[b] THEN [rank EXCEPT ![a] = rank[b]]
                                   ELSE [rank EXCEPT ![b] = rank[a]]
  BY DEF Relating
<1>3. rank \in [node -> Nat]
  BY DEF IInv, TypeOK
<1>4. QED BY <1>1, <1>2, <1>3 DEF RanksBounded

LEMMA SplitBounded ==
  ASSUME IInv, RanksBounded, NEW r \in node, NEW parts \in Cuts(text[r]), NEW byPattern,
         NEW fresh, Split(r, parts, fresh, byPattern)
  PROVE  RanksBounded'
<1> DEFINE k        == Len(parts)
           new      == {fresh[i] : i \in DOMAIN fresh}
           index(n) == CHOOSE i \in DOMAIN fresh : fresh[i] = n
<1>1. /\ fresh \in [1 .. (k - 1) -> Reading \ node]
      /\ rank[r] + k - 1 <= MaxRank
      /\ node' = node \cup new
      /\ rank' = [n \in node' |-> IF n \in node THEN rank[n] ELSE rank[r] + index(n)]
  BY DEF Split
<1>2. rank \in [node -> Nat] /\ k \in Nat
  BY CutsType, LenProperties DEF IInv, TypeOK
<1>3. ASSUME NEW n \in new PROVE index(n) \in 1 .. (k - 1)
  BY <1>1
<1> HIDE DEF k, index, new
<1>4. ASSUME NEW n \in node' PROVE rank'[n] <= MaxRank
  <2>1. CASE n \in node
    BY <1>1, <2>1 DEF RanksBounded
  <2>2. CASE n \notin node
    <3>1. index(n) \in 1 .. (k - 1) /\ rank'[n] = rank[r] + index(n)
      BY <1>1, <1>3, <1>4, <2>2
    <3>2. QED BY <1>1, <1>2, <3>1, CollationAssumption
  <2>3. QED BY <2>1, <2>2
<1>5. QED BY <1>4 DEF RanksBounded

LEMMA BoundedStep ==
  ASSUME IInv, RanksBounded, [Next]_vars
  PROVE  RanksBounded'
<1>1. rank \in [node -> Nat]
  BY DEF IInv, TypeOK
<1>2. CASE DupCommit
  <2>1. dup.from \in [DOMAIN dup.from -> node]
    BY <1>2 DEF DupCommit, IInv, TypeOK, TransactionOK
  <2>2. /\ node' = node \cup DOMAIN dup.from
        /\ rank' = [n \in node' |-> IF n \in node THEN rank[n] ELSE rank[dup.from[n]]]
    BY <1>2 DEF DupCommit
  <2>3. QED BY <2>1, <2>2 DEF RanksBounded
<1>3. CASE PutBackStep
  <2>1. PICK q \in pending : \E p \in q.left : PutBack(q, p)
    BY <1>3 DEF PutBackStep
  <2>2. PICK p \in q.left : PutBack(q, p)
    BY <2>1
  <2>3. CASE CanRelate(p.src, p.tgt) /\ Relating(p.src, p.tgt, p.type)
    BY <2>2, <2>3, RelatingBounded DEF PutBack
  <2>4. CASE UNCHANGED rank
    BY <2>2, <2>4 DEF PutBack, RanksBounded
  <2>5. QED BY <2>2, <2>3, <2>4 DEF PutBack
<1>4. CASE RelateStep
  BY <1>4, RelatingBounded DEF RelateStep, Relate
<1>5. CASE SplitStep
  <2>1. PICK r \in node : \E parts \in Cuts(text[r]) : \E byPattern, fresh :
                              Split(r, parts, fresh, byPattern)
    BY <1>5 DEF SplitStep
  <2>2. QED BY <2>1, SplitBounded
<1>6. CASE CompressStep \/ MergeStep
  <2>1. \E s : node' = node \ {s} /\ rank' = Without(rank, {s})
    <3>1. CASE CompressStep
      <4>1. PICK r1 \in node, r2 \in node : Compress(r1, r2)
        BY <3>1 DEF CompressStep
      <4>2. node' = node \ {r2} /\ rank' = Without(rank, {r2})
        BY <4>1 DEF Compress
      <4>3. QED BY <4>2
    <3>2. CASE MergeStep
      <4>1. PICK s \in node, t \in node : MergeNodes(s, t)
        BY <3>2 DEF MergeStep
      <4>2. node' = node \ {s} /\ rank' = Without(rank, {s})
        BY <4>1 DEF MergeNodes
      <4>3. QED BY <4>2
    <3>3. QED BY <1>6, <3>1, <3>2
  <2>2. QED BY <1>1, <2>1 DEF Without, RanksBounded
<1>7. CASE RankStep
  BY <1>1, <1>7, CollationAssumption DEF RankStep, ChangeRank, RanksBounded
<1>8. CASE /\ ~DupCommit /\ ~PutBackStep /\ ~RelateStep /\ ~SplitStep
           /\ ~CompressStep /\ ~MergeStep /\ ~RankStep
  <2>1. UNCHANGED <<node, rank>>
    <3>1. CASE LookUpStep \/ Crash \/ UNCHANGED vars
      BY <3>1 DEF LookUpStep, LookUp, Crash, vars
    <3>2. CASE ~LookUpStep /\ ~Crash /\ ~UNCHANGED vars
      BY <1>8, <3>2 DEF Next, DuplicateStep, DupOpen, DupReading, DupWitness, DupRelations,
                DupAbort, LemmaStep, SetLemma, SetLemmaText,
                RelationStep, Unrelate, UnrelateAlike, UnrelateAll, CreateType
    <3>3. QED BY <3>1, <3>2
  <2>2. QED BY <2>1 DEF RanksBounded
<1>9. QED BY <1>2, <1>3, <1>4, <1>5, <1>6, <1>7, <1>8

LEMMA CompressLinear ==
  ASSUME LInv, NEW r1 \in node, NEW r2 \in node, Compress(r1, r2)
  PROVE  Linear(lemmaLink')
<1> DEFINE L == lemmaLink
           behind == {p \in L : p[1] = r2 /\ p[2] # r1}
           kept   == {p \in L : r2 \notin {p[1], p[2]}}
           onto   == {<<r1, p[2]>> : p \in behind}
           links  == DOMAIN seq \cup lemmaLink
<1>1. /\ {r1, r2} \subseteq node \ {Start, End} /\ r1 # r2
      /\ {p[2] : p \in {q \in links : q[1] = r1}} = {r2}
      /\ {p[1] : p \in {q \in links : q[2] = r2}} = {r1}
      /\ lemmaLink' = kept \cup onto
  BY DEF Compress
<1>2. L \in SUBSET (node \X node) /\ \A p \in L : p = <<p[1], p[2]>>
  BY DEF LInv, IInv, TypeOK
<1>3. /\ \A y : <<r1, y>> \in L => y = r2
      /\ \A x : <<x, r2>> \in L => x = r1
  <2>1. ASSUME NEW y, <<r1, y>> \in L PROVE y = r2
    <3>1. y \in {p[2] : p \in {q \in links : q[1] = r1}}
      BY <2>1
    <3>2. QED BY <1>1, <3>1
  <2>2. ASSUME NEW x, <<x, r2>> \in L PROVE x = r1
    <3>1. x \in {p[1] : p \in {q \in links : q[2] = r2}}
      BY <2>2
    <3>2. QED BY <1>1, <3>1
  <2>3. QED BY <2>1, <2>2
<1>4. Skips(L, lemmaLink', r1, r2)
  <2>1. ASSUME NEW x, NEW y
        PROVE  <<x, y>> \in lemmaLink' <=>
                 /\ x # r2 /\ y # r2
                 /\ <<x, y>> \in L \/ (x = r1 /\ y # r1 /\ <<r2, y>> \in L)
    <3>1. <<x, y>> \in kept <=> <<x, y>> \in L /\ x # r2 /\ y # r2
      OBVIOUS
    <3>2. <<x, y>> \in onto <=> x = r1 /\ y # r1 /\ <<r2, y>> \in L
      BY <1>2
    <3>3. <<r2, y>> \in L => y # r2
      BY <1>1, <1>3
    <3>4. QED BY <1>1, <3>1, <3>2, <3>3
  <2>2. QED BY <2>1 DEF Skips
<1>5. lemmaLink' \in SUBSET (node \X node)
  BY <1>1, <1>2
<1>6. CASE L = {}
  BY <1>1, <1>6 DEF Linear
<1>7. CASE L # {}
  BY <1>1, <1>2, <1>3, <1>4, <1>5, <1>7, SkipLinear DEF LInv
<1>8. QED BY <1>6, <1>7

LEMMA LemmaTextInv == LInv /\ [Next]_vars => LInv'
<1> SUFFICES ASSUME LInv, [Next]_vars PROVE LInv'
  OBVIOUS
<1>1. IInv' /\ RanksBounded'
  BY NextInv, BoundedStep DEF LInv
<1>2. CASE CompressStep
  BY <1>1, <1>2, CompressLinear DEF CompressStep, LInv
<1>3. CASE SetLemmaText
  BY <1>1, <1>3, ChainLinear DEF LInv
<1>4. CASE ~CompressStep /\ ~SetLemmaText
  <2>1. UNCHANGED lemmaLink
    <3>1. CASE PutBackStep \/ LookUpStep \/ Crash \/ UNCHANGED vars
      BY <3>1 DEF PutBackStep, PutBack, LookUpStep, LookUp, Crash, vars
    <3>2. CASE SplitStep \/ MergeStep
      <4>1. CASE SplitStep
        BY <4>1 DEF SplitStep, Split
      <4>2. CASE MergeStep
        BY <4>2 DEF MergeStep, MergeNodes
      <4>3. QED BY <3>2, <4>1, <4>2
    <3>3. CASE ~(PutBackStep \/ LookUpStep \/ Crash \/ UNCHANGED vars) /\ ~(SplitStep \/ MergeStep)
      BY <1>4, <3>3 DEF Next, DuplicateStep, DupOpen, DupReading, DupWitness, DupRelations,
                DupCommit, DupAbort, RankStep, ChangeRank, LemmaStep, SetLemma,
                RelationStep, RelateStep, Relate, Unrelate, UnrelateAlike, UnrelateAll, CreateType
    <3>4. QED BY <3>1, <3>2, <3>3
  <2>2. Linear(lemmaLink')
    BY <2>1 DEF LInv
  <2>3. QED BY <1>1, <2>2 DEF LInv
<1>5. QED BY <1>2, <1>3, <1>4

LEMMA LinearReadable == LInv => LemmaTextReadable
<1> SUFFICES ASSUME LInv PROVE LemmaTextReadable
  OBVIOUS
<1>1. lemmaLink \subseteq node \X node
  BY DEF LInv, IInv, TypeOK
<1>2. ASSUME NEW n, NEW m, Follows(lemmaLink, n, m) PROVE IsOne({k \in node : <<n, k>> \in lemmaLink})
  <2>1. {k \in node : <<n, k>> \in lemmaLink} = {m}
    BY <1>1, <1>2 DEF Follows
  <2>2. QED BY <2>1 DEF IsOne
<1>3. QED BY <1>2 DEF LInv, Linear, PathOf, LemmaTextReadable

\* Once the lemmata are chained, the lemma text leads from the start to the end
\* of the section without a fork or a gap, whatever is edited afterwards.
THEOREM LemmaTextStays == Spec => []LemmaTextReadable
<1>1. Init => LInv
  <2> SUFFICES ASSUME Init PROVE LInv
    OBVIOUS
  <2>1. PICK g \in Initial : node = g.node /\ rank = g.rank /\ lemmaLink = {}
    BY DEF Init
  <2>2. WellFormed(g)
    BY CollationAssumption
  <2>3. RanksBounded
    BY <2>1, <2>2, CollationAssumption DEF WellFormed, RanksBounded
  <2>4. QED BY <2>1, <2>3, InitInv DEF LInv, Linear
<1>2. QED BY <1>1, LemmaTextInv, LinearReadable, PTL DEF Spec

=============================================================================
