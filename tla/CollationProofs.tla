--------------------------- MODULE CollationProofs ---------------------------
(***************************************************************************)
(* The graph of a section stays a graph whatever is edited: proofs for     *)
(* every number of readings, witnesses, layers and relation types.         *)
(***************************************************************************)
EXTENDS CollationProps, SequenceTheorems, TLAPS

-----------------------------------------------------------------------------
(* The operators that write SEQUENCE links.                                *)

LEMMA AddLinkGraph ==
  ASSUME NEW s, NEW N, IsGraph(s, N), NEW a \in N, NEW b \in N, NEW lab \in Label
  PROVE  IsGraph(AddLink(s, a, b, lab), N)
<1>1. DOMAIN AddLink(s, a, b, lab) = DOMAIN s \cup {<<a, b>>}
  BY DEF AddLink
<1>2. On(s, a, b) \subseteq Label
  BY DEF On, IsGraph
<1>3. ASSUME NEW p \in DOMAIN s \cup {<<a, b>>}
      PROVE  AddLink(s, a, b, lab)[p] \subseteq Label
  <2>1. CASE p = <<a, b>>
    BY <1>2, <2>1 DEF AddLink
  <2>2. CASE p # <<a, b>>
    BY <2>2, <1>3 DEF AddLink, IsGraph
  <2>3. QED BY <2>1, <2>2
<1>4. AddLink(s, a, b, lab) \in [DOMAIN s \cup {<<a, b>>} -> SUBSET Label]
  <2> DEFINE D == DOMAIN s \cup {<<a, b>>}
             e(p) == IF p = <<a, b>>
                     THEN IF lab[2] = Base
                          THEN {l \in On(s, a, b) : l[1] # lab[1]} \cup {lab}
                          ELSE IF <<lab[1], Base>> \in On(s, a, b) THEN On(s, a, b)
                               ELSE On(s, a, b) \cup {lab}
                     ELSE s[p]
  <2>1. AddLink(s, a, b, lab) = [p \in D |-> e(p)]
    BY DEF AddLink
  <2>2. \A p \in D : e(p) \subseteq Label
    BY <1>3, <2>1
  <2> HIDE DEF D, e
  <2>3. AddLink(s, a, b, lab) \in [D -> SUBSET Label]
    BY <2>1, <2>2
  <2>4. QED BY <2>3 DEF D
<1>5. DOMAIN s \cup {<<a, b>>} \subseteq N \X N
  BY DEF IsGraph
<1>6. QED
  BY <1>1, <1>4, <1>5 DEF IsGraph

LEMMA RemoveLinkGraph ==
  ASSUME NEW s, NEW N, IsGraph(s, N), NEW a, NEW b, NEW lab \in Label, NEW check
  PROVE  /\ IsGraph(RemoveLink(s, a, b, lab, check), N)
         /\ DOMAIN RemoveLink(s, a, b, lab, check) \subseteq DOMAIN s
<1> DEFINE orphans == IF lab[2] = Base THEN Orphans(s, a, b, lab[1], check) ELSE {}
           left    == ({l \in On(s, a, b) : l[2] \notin orphans}
                         \cup ({lab[1]} \X orphans)) \ {lab}
<1>1. orphans \subseteq Layer
  BY DEF Orphans, LayersOf
<1>2. left \subseteq Label
  <2>1. On(s, a, b) \subseteq Label
    BY DEF On, IsGraph
  <2>2. {lab[1]} \X orphans \subseteq Label
    BY <1>1 DEF Label
  <2>3. QED BY <2>1, <2>2
<1>3. CASE ~ \E l \in On(s, a, b) : l[2] = lab[2]
  <2>1. RemoveLink(s, a, b, lab, check) = s
    BY <1>3 DEF RemoveLink
  <2>2. QED BY <2>1
<1>4. CASE (\E l \in On(s, a, b) : l[2] = lab[2]) /\ left = {}
  <2>1. RemoveLink(s, a, b, lab, check) = [p \in DOMAIN s \ {<<a, b>>} |-> s[p]]
    BY <1>4 DEF RemoveLink
  <2>2. QED BY <2>1 DEF IsGraph
<1>5. CASE (\E l \in On(s, a, b) : l[2] = lab[2]) /\ left # {}
  <2>1. RemoveLink(s, a, b, lab, check) = [s EXCEPT ![<<a, b>>] = left]
    BY <1>5 DEF RemoveLink
  <2>2. QED BY <2>1, <1>2 DEF IsGraph
<1>6. QED BY <1>3, <1>4, <1>5

-----------------------------------------------------------------------------
(* The inductive invariant.                                                *)

Attached(rels, N) == \A p \in rels : {p.src, p.tgt} \subseteq N \ {Start, End}

\* The readings that the open transaction sees.
DupNode == node \cup DOMAIN dup.from

\* The copies of an open transaction: one at a time is being filled, and the
\* start, which no witness enters, is never copied to the end.
DupOK ==
  /\ TransactionOK
  /\ dup.wits # {}
  /\ dup.todo # {} => dup.busy
  /\ dup.busy => dup.copy \in DOMAIN dup.from /\ dup.cur = dup.from[dup.copy]
  /\ \A c \in DOMAIN dup.from :
       dup.from[c] = Start => dup.busy /\ c = dup.copy /\ dup.todo = dup.wits
  /\ \A n \in DupNode : <<n, Start>> \notin DOMAIN dup.seq
  /\ Attached(dup.related, DupNode)

IInv ==
  /\ TypeOK
  /\ StartComesFirst
  /\ RelationsAttached
  /\ dup = Closed \/ DupOK

LEMMA InitInv == Init => IInv
<1> SUFFICES ASSUME Init PROVE IInv
  OBVIOUS
<1>1. PICK g \in Initial :
        /\ node = g.node /\ seq = g.seq /\ rank = g.rank /\ text = g.text
        /\ lemma = {} /\ lemmaLink = {} /\ related = g.related
  BY DEF Init
<1>2. WellFormed(g)
  BY CollationAssumption
<1>3. rank \in [node -> Nat] /\ seq \in [DOMAIN seq -> SUBSET Label]
  BY <1>1, <1>2, CollationAssumption DEF WellFormed, IsGraph
<1>4. TypeOK
  BY <1>1, <1>2, <1>3, CollationAssumption DEF Init, WellFormed, TypeOK, IsGraph, Setting
<1>5. StartComesFirst
  <2>1. \A n \in node \ {Start} : rank[Start] < rank[n]
    BY <1>1, <1>2 DEF WellFormed
  <2>2. ASSUME NEW n \in node, <<n, Start>> \in DOMAIN seq PROVE FALSE
    <3>1. rank[n] < rank[Start]
      BY <1>1, <1>2, <2>2 DEF WellFormed, RanksIncrease
    <3>2. rank[n] \in Nat /\ rank[Start] = 0
      BY <1>1, <1>2, <1>3 DEF WellFormed
    <3>3. QED BY <3>1, <3>2
  <2>3. QED BY <2>1, <2>2 DEF StartComesFirst
<1>6. RelationsAttached
  BY <1>1, <1>2 DEF WellFormed, RelationsAttached
<1>7. QED BY <1>4, <1>5, <1>6 DEF IInv, Init

-----------------------------------------------------------------------------
(* The steps of a duplicate request.                                       *)

LEMMA DupOpenInv ==
  ASSUME IInv, NEW wits \in SUBSET Label, DupOpen(wits)
  PROVE  IInv'
<1>1. /\ dup' = [wits |-> wits, todo |-> {}, busy |-> FALSE, cur |-> Start, copy |-> Start,
                 seq |-> seq, from |-> <<>>, related |-> related]
      /\ UNCHANGED <<node, seq, rank, text, lemma, lemmaLink, related, rtype, pending>>
      /\ wits # {}
  BY DEF DupOpen
<1>2. DOMAIN dup'.from = {}
  BY <1>1
<1>3. TransactionOK'
  BY <1>1, <1>2 DEF TransactionOK, IInv, TypeOK
<1>4. (Attached(dup.related, DupNode))'
  BY <1>1, <1>2 DEF Attached, DupNode, IInv, RelationsAttached
<1>5. (\A n \in DupNode : <<n, Start>> \notin DOMAIN dup.seq)'
  BY <1>1, <1>2 DEF DupNode, IInv, StartComesFirst
<1>6. DupOK'
  BY <1>1, <1>2, <1>3, <1>4, <1>5 DEF DupOK
<1>7. (TypeOK /\ StartComesFirst /\ RelationsAttached)'
  BY <1>1, <1>3 DEF IInv, TypeOK, StartComesFirst, RelationsAttached
<1>8. QED BY <1>6, <1>7 DEF IInv

LEMMA DupReadingInv ==
  ASSUME IInv, NEW r \in Reading, NEW c \in Reading, DupReading(r, c)
  PROVE  IInv'
<1> DEFINE from2 == [n \in DOMAIN dup.from \cup {c} |-> IF n = c THEN r ELSE dup.from[n]]
<1>1. /\ dup # Closed /\ ~dup.busy
      /\ r \in node /\ c \in Reading \ (node \cup DOMAIN dup.from)
      /\ dup' = [dup EXCEPT !.todo = dup.wits, !.busy = TRUE, !.cur = r, !.copy = c,
                            !.from = from2]
      /\ UNCHANGED <<node, seq, rank, text, lemma, lemmaLink, related, rtype, pending>>
  BY DEF DupReading
<1>2. DupOK /\ TransactionOK
  BY <1>1 DEF IInv, DupOK
<1>3. /\ dup'.wits = dup.wits /\ dup'.todo = dup.wits /\ dup'.busy = TRUE
      /\ dup'.cur = r /\ dup'.copy = c /\ dup'.seq = dup.seq
      /\ dup'.from = from2 /\ dup'.related = dup.related
      /\ DOMAIN dup' = DOMAIN dup
  BY <1>1, <1>2 DEF TransactionOK
<1>4. DOMAIN from2 = DOMAIN dup.from \cup {c} /\ from2 \in [DOMAIN from2 -> node]
  BY <1>1, <1>2 DEF TransactionOK
<1>5. DupNode' = DupNode \cup {c}
  BY <1>1, <1>3, <1>4 DEF DupNode
<1>6. TransactionOK'
  <2>1. IsGraph(dup.seq, DupNode \cup {c})
    BY <1>2 DEF TransactionOK, DupNode, IsGraph
  <2>2. IsGraph(dup'.seq, node' \cup DOMAIN dup'.from)
    BY <1>1, <1>3, <1>4, <2>1 DEF DupNode
  <2>3. QED BY <1>1, <1>2, <1>3, <1>4, <2>2 DEF TransactionOK
<1>7. (Attached(dup.related, DupNode))'
  BY <1>2, <1>3, <1>5 DEF Attached, DupOK
<1>8. (\A n \in DupNode : <<n, Start>> \notin DOMAIN dup.seq)'
  <2>1. <<c, Start>> \notin DOMAIN dup.seq
    BY <1>1, <1>2 DEF TransactionOK, IsGraph
  <2>2. QED BY <2>1, <1>2, <1>3, <1>5 DEF DupOK
<1>9. DupOK'
  BY <1>1, <1>2, <1>3, <1>4, <1>6, <1>7, <1>8 DEF DupOK
<1>10. (TypeOK /\ StartComesFirst /\ RelationsAttached)'
  BY <1>1, <1>6 DEF IInv, TypeOK, StartComesFirst, RelationsAttached
<1>11. QED BY <1>9, <1>10 DEF IInv

LEMMA DupWitnessInv ==
  ASSUME IInv, NEW lab \in Label, DupWitness(lab)
  PROVE  IInv'
<1>1. /\ dup # Closed /\ lab \in dup.todo
      /\ UNCHANGED <<node, seq, rank, text, lemma, lemmaLink, related, rtype, pending>>
  BY DEF DupWitness
<1>2. DupOK /\ TransactionOK /\ dup.busy
  BY <1>1 DEF IInv, DupOK
<1>3. PICK p \in Reading, n \in Reading :
        /\ PriorOf(dup.seq, dup.cur, lab) = {p}
        /\ NextOf(dup.seq, dup.cur, lab) = {n}
        /\ dup' = [dup EXCEPT !.todo = dup.todo \ {lab},
                     !.seq = RemoveLink(RemoveLink(
                               AddLink(AddLink(dup.seq, p, dup.copy, lab), dup.copy, n, lab),
                               p, dup.cur, lab, "end"), dup.cur, n, lab, "start")]
  BY DEF DupWitness
<1> DEFINE s1 == AddLink(dup.seq, p, dup.copy, lab)
           s2 == AddLink(s1, dup.copy, n, lab)
           s3 == RemoveLink(s2, p, dup.cur, lab, "end")
           s4 == RemoveLink(s3, dup.cur, n, lab, "start")
<1>4. <<p, dup.cur>> \in DOMAIN dup.seq /\ <<dup.cur, n>> \in DOMAIN dup.seq
  <2>1. p \in Before(dup.seq, dup.cur)
    BY <1>3 DEF PriorOf
  <2>2. n \in After(dup.seq, dup.cur)
    BY <1>3 DEF NextOf
  <2>3. DOMAIN dup.seq \subseteq DupNode \X DupNode
    BY <1>2 DEF TransactionOK, IsGraph, DupNode
  <2>4. QED BY <2>1, <2>2, <2>3 DEF Before, After
<1>5. /\ p \in DupNode /\ n \in DupNode /\ dup.copy \in DupNode /\ n # Start
      /\ dup.copy # Start /\ dup.cur # Start
  <2>1. p \in DupNode /\ n \in DupNode
    BY <1>2, <1>4 DEF TransactionOK, IsGraph, DupNode
  <2>2. dup.cur \in DupNode /\ dup.copy \in DOMAIN dup.from
    BY <1>2 DEF DupOK, TransactionOK, DupNode
  <2>3. n # Start /\ dup.cur # Start
    BY <1>2, <1>4, <2>1, <2>2 DEF DupOK
  <2>4. dup.copy # Start
    BY <1>2, <2>2 DEF TransactionOK, IInv, TypeOK
  <2>5. QED BY <2>1, <2>2, <2>3, <2>4 DEF DupNode
<1>6. IsGraph(s1, DupNode) /\ DOMAIN s1 = DOMAIN dup.seq \cup {<<p, dup.copy>>}
  <2>1. IsGraph(dup.seq, DupNode)
    BY <1>2 DEF TransactionOK, DupNode
  <2>2. IsGraph(s1, DupNode)
    BY <1>5, <2>1, AddLinkGraph
  <2>3. DOMAIN s1 = DOMAIN dup.seq \cup {<<p, dup.copy>>}
    BY DEF AddLink
  <2>4. QED BY <2>2, <2>3
<1>7. IsGraph(s2, DupNode) /\ DOMAIN s2 = DOMAIN s1 \cup {<<dup.copy, n>>}
  <2> HIDE DEF s1
  <2>1. IsGraph(s2, DupNode)
    BY <1>5, <1>6, AddLinkGraph
  <2>2. DOMAIN s2 = DOMAIN s1 \cup {<<dup.copy, n>>}
    BY DEF AddLink
  <2>3. QED BY <2>1, <2>2
<1>8. IsGraph(s3, DupNode) /\ DOMAIN s3 \subseteq DOMAIN s2
  BY <1>7, RemoveLinkGraph
<1>9. IsGraph(s4, DupNode) /\ DOMAIN s4 \subseteq DOMAIN s3
  BY <1>8, RemoveLinkGraph
<1>10. /\ dup'.wits = dup.wits /\ dup'.todo = dup.todo \ {lab} /\ dup'.busy = dup.busy
       /\ dup'.cur = dup.cur /\ dup'.copy = dup.copy /\ dup'.seq = s4
       /\ dup'.from = dup.from /\ dup'.related = dup.related
       /\ DOMAIN dup' = DOMAIN dup
  BY <1>2, <1>3 DEF TransactionOK
<1> HIDE DEF s1, s2, s3, s4
<1>11. DupNode' = DupNode
  BY <1>1, <1>10 DEF DupNode
<1>12. TransactionOK'
  <2>1. IsGraph(dup'.seq, node' \cup DOMAIN dup'.from)
    BY <1>1, <1>9, <1>10 DEF DupNode
  <2>2. QED BY <1>1, <1>2, <1>10, <2>1 DEF TransactionOK
<1>13. \A m \in DupNode : <<m, Start>> \notin DOMAIN s4
  BY <1>2, <1>5, <1>6, <1>7, <1>8, <1>9 DEF DupOK
<1>14. \A c \in DOMAIN dup.from : dup.from[c] # Start
  BY <1>2, <1>5 DEF DupOK
<1>15. DupOK'
  BY <1>2, <1>10, <1>11, <1>12, <1>13, <1>14 DEF DupOK, Attached
<1>16. (TypeOK /\ StartComesFirst /\ RelationsAttached)'
  BY <1>1, <1>12 DEF IInv, TypeOK, StartComesFirst, RelationsAttached
<1>17. QED BY <1>15, <1>16 DEF IInv

LEMMA DupRelationsInv ==
  ASSUME IInv, DupRelations
  PROVE  IInv'
<1> DEFINE r == dup.cur
           repeated == {[p EXCEPT !.src = dup.copy, !.tgt = IF p.src = r THEN p.tgt ELSE p.src] :
                          p \in {q \in Touching(related, r) : q.coloc}}
           crossing == {p \in related : /\ ~p.coloc
                                        /\ \/ rank[p.src] < rank[r] /\ rank[p.tgt] > rank[r]
                                           \/ rank[p.src] > rank[r] /\ rank[p.tgt] < rank[r]}
<1>1. /\ dup # Closed /\ dup.busy /\ dup.todo = {}
      /\ dup' = [dup EXCEPT !.busy = FALSE, !.related = (dup.related \ crossing) \cup repeated]
      /\ UNCHANGED <<node, seq, rank, text, lemma, lemmaLink, related, rtype, pending>>
  BY DEF DupRelations
<1>2. DupOK /\ TransactionOK
  BY <1>1 DEF IInv, DupOK
<1>3. /\ dup'.wits = dup.wits /\ dup'.todo = {} /\ dup'.busy = FALSE
      /\ dup'.cur = dup.cur /\ dup'.copy = dup.copy /\ dup'.seq = dup.seq
      /\ dup'.from = dup.from /\ dup'.related = (dup.related \ crossing) \cup repeated
      /\ DOMAIN dup' = DOMAIN dup
  BY <1>1, <1>2 DEF TransactionOK
<1>4. dup.copy \in DOMAIN dup.from /\ dup.copy \in Reading \ {Start, End}
  BY <1>1, <1>2 DEF DupOK, TransactionOK, IInv, TypeOK
<1>5. ASSUME NEW q \in repeated
      PROVE  q \in Relation /\ {q.src, q.tgt} \subseteq DupNode \ {Start, End}
  <2>1. PICK p \in related :
          q = [p EXCEPT !.src = dup.copy, !.tgt = IF p.src = r THEN p.tgt ELSE p.src]
    BY <1>5 DEF Touching
  <2>2. p \in Relation /\ {p.src, p.tgt} \subseteq node \ {Start, End}
    BY DEF IInv, TypeOK, RelationsAttached
  <2>3. q \in Relation /\ q.src = dup.copy /\ q.tgt \in {p.src, p.tgt}
    BY <1>4, <2>1, <2>2 DEF Relation
  <2>4. QED BY <1>4, <2>2, <2>3 DEF DupNode
<1> HIDE DEF r, repeated, crossing
<1>6. DupNode' = DupNode
  BY <1>1, <1>3 DEF DupNode
<1>7. TransactionOK'
  BY <1>1, <1>2, <1>3, <1>5 DEF TransactionOK
<1>8. (Attached(dup.related, DupNode))'
  BY <1>2, <1>3, <1>5, <1>6 DEF Attached, DupOK
<1>9. \A c \in DOMAIN dup.from : dup.from[c] # Start
  BY <1>1, <1>2 DEF DupOK
<1>10. DupOK'
  BY <1>2, <1>3, <1>6, <1>7, <1>8, <1>9 DEF DupOK
<1>11. (TypeOK /\ StartComesFirst /\ RelationsAttached)'
  BY <1>1, <1>7 DEF IInv, TypeOK, StartComesFirst, RelationsAttached
<1>12. QED BY <1>10, <1>11 DEF IInv

LEMMA DupCommitInv ==
  ASSUME IInv, DupCommit
  PROVE  IInv'
<1>1. /\ dup # Closed /\ ~dup.busy
      /\ node' = node \cup DOMAIN dup.from
      /\ seq' = dup.seq
      /\ rank' = [n \in node' |-> IF n \in node THEN rank[n] ELSE rank[dup.from[n]]]
      /\ text' = [n \in node' |-> IF n \in node THEN text[n] ELSE text[dup.from[n]]]
      /\ related' = dup.related
      /\ dup' = Closed
      /\ UNCHANGED <<lemma, lemmaLink, rtype>>
  BY DEF DupCommit
<1>2. DupOK /\ TransactionOK
  BY <1>1 DEF IInv, DupOK
<1>3. \A c \in node' \ node : dup.from[c] \in node \ {Start}
  BY <1>1, <1>2 DEF DupOK, TransactionOK
<1>4. TypeOK'
  <2>1. PICK u \in node : pending' = pending \cup
          {[url |-> u, left |-> deleted, found |-> FALSE] : deleted \in {related \ dup.related} \ {{}}}
    BY DEF DupCommit
  <2>2. pending \subseteq Returning /\ u \in Reading /\ related \ dup.related \in SUBSET Relation
    BY DEF IInv, TypeOK
  <2>3. [url |-> u, left |-> related \ dup.related, found |-> FALSE] \in Returning
    BY <2>2 DEF Returning
  <2>4. pending' \subseteq Returning
    BY <2>1, <2>2, <2>3
  <2>5. QED BY <1>1, <1>2, <1>3, <2>4 DEF IInv, TypeOK, TransactionOK, IsGraph
<1>5. StartComesFirst'
  <2>1. \A n \in node' : <<n, Start>> \notin DOMAIN seq'
    BY <1>1, <1>2 DEF DupOK, DupNode
  <2>2. rank'[Start] = rank[Start] /\ Start \in node
    BY <1>1 DEF IInv, TypeOK
  <2>3. \A n \in node' \ {Start} : rank[Start] < rank'[n]
    BY <1>1, <1>3 DEF IInv, StartComesFirst
  <2>4. QED BY <2>1, <2>2, <2>3 DEF StartComesFirst
<1>6. RelationsAttached'
  BY <1>1, <1>2 DEF DupOK, Attached, DupNode, RelationsAttached
<1>7. QED BY <1>1, <1>4, <1>5, <1>6 DEF IInv

\* A step that only closes the transaction or goes on with what is pending.
LEMMA ClosingInv ==
  ASSUME IInv, dup' = Closed, pending' \subseteq Returning,
         UNCHANGED <<node, seq, rank, text, lemma, lemmaLink, related, rtype>>
  PROVE  IInv'
BY DEF IInv, TypeOK, StartComesFirst, RelationsAttached

-----------------------------------------------------------------------------
(* Relations.                                                              *)

\* The rank of a reading is only ever raised by a relation.
LEMMA RelatingInv ==
  ASSUME IInv, dup = Closed, NEW a, NEW b, NEW t \in Type,
         CanRelate(a, b), Relating(a, b, t), pending' \subseteq Returning,
         UNCHANGED <<node, seq, text, lemma, lemmaLink, dup>>
  PROVE  IInv'
<1>1. {a, b} \subseteq node \ {Start, End}
  BY DEF CanRelate
<1>2. /\ related' = related \cup {[src |-> a, tgt |-> b, type |-> t, coloc |-> TRUE]}
      /\ \A u \in Type : rtype'[u] \in {"default", rtype[u]}
      /\ rtype' \in [Type -> Setting]
      /\ rank' = IF rank[a] < rank[b] THEN [rank EXCEPT ![a] = rank[b]]
                                      ELSE [rank EXCEPT ![b] = rank[a]]
  BY DEF Relating, IInv, TypeOK, Setting
<1>3. rank \in [node -> Nat]
  BY DEF IInv, TypeOK
<1>4. rank' \in [node -> Nat]
  BY <1>1, <1>2, <1>3
<1>5. TypeOK'
  <2>1. [src |-> a, tgt |-> b, type |-> t, coloc |-> TRUE] \in Relation
    BY <1>1 DEF IInv, TypeOK, Relation
  <2>2. related' \subseteq Relation /\ pending' \subseteq Returning
    BY <1>2, <2>1 DEF IInv, TypeOK
  <2>3. QED BY <1>2, <1>4, <2>2 DEF IInv, TypeOK
<1>6. rank'[Start] = rank[Start] /\ \A n \in node : rank[n] <= rank'[n]
  BY <1>1, <1>2, <1>3 DEF IInv, TypeOK
<1>7. StartComesFirst'
  BY <1>3, <1>4, <1>6 DEF IInv, TypeOK, StartComesFirst
<1>8. RelationsAttached'
  BY <1>1, <1>2 DEF IInv, RelationsAttached
<1>9. QED BY <1>5, <1>7, <1>8 DEF IInv

LEMMA LookUpInv ==
  ASSUME IInv, NEW q \in pending, LookUp(q)
  PROVE  IInv'
<1>1. /\ dup = Closed
      /\ pending' = (pending \ {q}) \cup {[q EXCEPT !.found = TRUE] : u \in {q.url} \cap node}
      /\ UNCHANGED <<node, seq, rank, text, lemma, lemmaLink, related, rtype, dup>>
  BY DEF LookUp
<1>2. pending \subseteq Returning
  BY DEF IInv, TypeOK
<1>3. pending' \subseteq Returning
  BY <1>1, <1>2 DEF Returning
<1>4. QED BY <1>1, <1>3, ClosingInv

LEMMA PutBackInv ==
  ASSUME IInv, NEW q \in pending, NEW p \in q.left, PutBack(q, p)
  PROVE  IInv'
<1>1. /\ dup = Closed
      /\ pending' = (pending \ {q}) \cup {[q EXCEPT !.left = left] : left \in {q.left \ {p}} \ {{}}}
      /\ UNCHANGED <<node, seq, text, lemma, lemmaLink, dup>>
  BY DEF PutBack
<1>2. pending \subseteq Returning /\ q \in Returning /\ p \in Relation
  BY DEF IInv, TypeOK, Returning
<1>3. pending' \subseteq Returning
  BY <1>1, <1>2 DEF Returning
<1>4. CASE CanRelate(p.src, p.tgt) /\ Relating(p.src, p.tgt, p.type)
  <2>1. p.type \in Type
    BY <1>2 DEF Relation
  <2>2. QED BY <1>1, <1>3, <1>4, <2>1, RelatingInv
<1>5. CASE UNCHANGED <<related, rtype, rank>>
  BY <1>1, <1>3, <1>5, ClosingInv
<1>6. QED BY <1>4, <1>5 DEF PutBack

LEMMA RelationInv ==
  ASSUME IInv, RelationStep
  PROVE  IInv'
<1>1. CASE RelateStep
  <2>1. PICK a \in node, b \in node, t \in Type : Relate(a, b, t)
    BY <1>1 DEF RelateStep
  <2>2. pending' = pending /\ pending \subseteq Returning
    BY <2>1 DEF Relate, IInv, TypeOK
  <2>3. QED BY <2>1, <2>2, RelatingInv DEF Relate
<1>2. CASE \E p \in related : Unrelate(p)
  BY <1>2 DEF Unrelate, IInv, TypeOK, StartComesFirst, RelationsAttached
<1>3. CASE \E r \in node : UnrelateAll(r)
  BY <1>3 DEF UnrelateAll, IInv, TypeOK, StartComesFirst, RelationsAttached
<1>4. CASE \E a, b \in node : UnrelateAlike(a, b)
  <2>1. related' \subseteq related
    BY <1>4 DEF UnrelateAlike
  <2>2. QED BY <1>4, <2>1 DEF UnrelateAlike, IInv, TypeOK, StartComesFirst, RelationsAttached
<1>5. CASE \E t \in Type : CreateType(t)
  <2>1. PICK t \in Type : CreateType(t)
    BY <1>5
  <2>2. rtype' \in [Type -> Setting]
    BY <2>1 DEF CreateType, IInv, TypeOK, Setting
  <2>3. QED BY <2>1, <2>2 DEF CreateType, IInv, TypeOK, StartComesFirst, RelationsAttached
<1>6. QED BY <1>1, <1>2, <1>3, <1>4, <1>5 DEF RelationStep

-----------------------------------------------------------------------------
(* Splitting, compressing, merging.                                        *)

\* The parts a text is cut into are texts.
LEMMA CutsType ==
  ASSUME NEW t \in Seq(Word), NEW parts \in Cuts(t)
  PROVE  parts \in Seq(Seq(Word))
<1>1. CASE parts \in {<<SubSeq(t, 1, i), SubSeq(t, i + 1, Len(t))>> : i \in 1 .. Len(t)}
  <2>1. PICK i \in 1 .. Len(t) : parts = <<SubSeq(t, 1, i), SubSeq(t, i + 1, Len(t))>>
    BY <1>1
  <2>2. SubSeq(t, 1, i) \in Seq(Word) /\ SubSeq(t, i + 1, Len(t)) \in Seq(Word)
    BY SubSeqProperties
  <2>3. QED BY <2>1, <2>2
<1>2. CASE parts = [i \in 1 .. Len(t) |-> <<t[i]>>]
  <2>1. \A i \in 1 .. Len(t) : <<t[i]>> \in Seq(Word)
    BY ElementOfSeq
  <2>2. Len(t) \in Nat
    BY LenProperties
  <2>3. QED BY <1>2, <2>1, <2>2, SeqDef
<1>3. CASE parts \in Shortened(t)
  <2>1. PICK i \in 1 .. Len(t) : \E j \in i + 2 .. Len(t) + 1 :
               parts = <<SubSeq(t, 1, i), SubSeq(t, j, Len(t))>>
    BY <1>3 DEF Shortened
  <2>2. PICK j \in i + 2 .. Len(t) + 1 : parts = <<SubSeq(t, 1, i), SubSeq(t, j, Len(t))>>
    BY <2>1
  <2>3. i \in Nat \ {0} /\ j \in Nat \ {0} /\ i <= Len(t) /\ Len(t) \in Nat
    BY LenProperties
  <2>4. SubSeq(t, 1, i) \in Seq(Word) /\ SubSeq(t, j, Len(t)) \in Seq(Word)
    BY <2>3, SubSeqProperties
  <2>5. QED BY <2>2, <2>4
<1>4. QED BY <1>1, <1>2, <1>3 DEF Cuts, Divided

LEMMA SplitInv ==
  ASSUME IInv, NEW r \in node, NEW parts \in Cuts(text[r]), NEW byPattern,
         NEW fresh, Split(r, parts, fresh, byPattern)
  PROVE  IInv'
<1> DEFINE k     == Len(parts)
           new   == {fresh[i] : i \in DOMAIN fresh}
           part(i)  == IF i = 1 THEN r ELSE fresh[i - 1]
           index(n) == CHOOSE i \in DOMAIN fresh : fresh[i] = n
           outs  == {r} \X After(seq, r)
           chain == {<<part(i), part(i + 1)>> : i \in 1 .. (k - 1)}
           moved == {<<part(k), p[2]>> : p \in outs}
           links == (DOMAIN seq \ outs) \cup chain \cup moved
           lab(p) == CASE p \in chain -> Merged(UNION {seq[q] : q \in outs})
                       [] p \in moved -> seq[<<r, p[2]>>]
                       [] OTHER       -> seq[p]
<1>1. /\ dup = Closed
      /\ r \in node \ {Start, End} /\ parts \in Cuts(text[r]) /\ k >= 2
      /\ fresh \in [1 .. (k - 1) -> Reading \ node]
      /\ node' = node \cup new
      /\ seq' = [p \in links |-> lab(p)]
      /\ rank' = [n \in node' |-> IF n \in node THEN rank[n] ELSE rank[r] + index(n)]
      /\ text' = [n \in node' |-> IF n = r THEN parts[1]
                                  ELSE IF n \in node THEN text[n] ELSE parts[index(n) + 1]]
      /\ UNCHANGED <<lemma, lemmaLink, related, rtype, dup, pending>>
  BY DEF Split
<1>2. /\ {Start, End} \subseteq node /\ node \subseteq Reading
      /\ rank \in [node -> Nat] /\ text \in [node -> Seq(Word)]
      /\ IsGraph(seq, node)
  BY DEF IInv, TypeOK
<1>3. parts \in Seq(Seq(Word)) /\ k \in Nat
  BY <1>1, <1>2, CutsType, LenProperties
<1>4. new \subseteq Reading \ node
  BY <1>1
<1>5. ASSUME NEW n \in new PROVE index(n) \in 1 .. (k - 1)
  BY <1>1
<1>6. \A i \in 1 .. k : part(i) \in {r} \cup new
  BY <1>1, <1>3
<1>7. outs \subseteq DOMAIN seq
  <2>1. ASSUME NEW m \in After(seq, r) PROVE <<r, m>> \in DOMAIN seq
    <3>1. PICK q \in DOMAIN seq : q[1] = r /\ q[2] = m
      BY DEF After
    <3>2. q = <<r, m>>
      BY <1>2, <3>1 DEF IsGraph
    <3>3. QED BY <3>1, <3>2
  <2>2. QED BY <2>1
<1>8. links \subseteq node' \X node' /\ \A n \in node' : <<n, Start>> \notin links
  <2>1. \A p \in outs : p[2] \in node \ {Start}
    BY <1>1, <1>2, <1>7 DEF IsGraph, IInv, StartComesFirst
  <2>2. \A p \in chain : p \in node' \X node' /\ p[2] # Start
    <3>1. ASSUME NEW i \in 1 .. (k - 1)
          PROVE  part(i) \in node' /\ part(i + 1) \in new
      <4>1. i \in 1 .. k /\ i + 1 # 1 /\ (i + 1) - 1 = i
        BY <1>3
      <4>2. part(i + 1) \in new
        BY <1>1, <4>1
      <4>3. QED BY <1>1, <1>6, <4>1, <4>2
    <3>2. QED BY <1>2, <1>4, <1>1, <3>1
  <2>3. part(k) \in node'
    <3>1. k \in 1 .. k
      BY <1>1, <1>3
    <3>2. part(k) \in {r} \cup new
      BY <1>6, <3>1
    <3>3. QED BY <1>1, <3>2
  <2>4. \A p \in moved : p \in node' \X node' /\ p[2] # Start
    BY <1>1, <2>1, <2>3
  <2>5. \A p \in DOMAIN seq : p \in node' \X node' /\ p[2] # Start
    BY <1>1, <1>2 DEF IsGraph, IInv, StartComesFirst
  <2>6. QED BY <2>2, <2>4, <2>5
<1>9. ASSUME NEW p \in links PROVE lab(p) \subseteq Label
  <2>1. \A q \in DOMAIN seq : seq[q] \subseteq Label
    BY <1>2 DEF IsGraph
  <2>2. Merged(UNION {seq[q] : q \in outs}) \subseteq Label
    BY <1>7, <2>1 DEF Merged
  <2>3. ASSUME p \in moved PROVE seq[<<r, p[2]>>] \subseteq Label
    <3>1. <<r, p[2]>> \in outs
      BY <2>3
    <3>2. QED BY <1>7, <2>1, <3>1
  <2>4. QED BY <2>1, <2>2, <2>3
<1> HIDE DEF links, lab, outs, chain, moved, part, index, new, k
<1>10. seq' \in [links -> SUBSET Label] /\ IsGraph(seq', node')
  BY <1>1, <1>8, <1>9 DEF IsGraph
<1>11. \A n \in node' \ node : index(n) \in Nat /\ index(n) > 0
                                 /\ index(n) + 1 \in 1 .. k
  BY <1>1, <1>3, <1>5
<1>12. rank' \in [node' -> Nat]
  BY <1>1, <1>2, <1>11
<1>13. text' \in [node' -> Seq(Word)]
  <2>1. \A i \in 1 .. k : parts[i] \in Seq(Word)
    BY <1>3, ElementOfSeq DEF k
  <2>2. 1 \in 1 .. k
    BY <1>1, <1>3
  <2>3. QED BY <1>1, <1>2, <1>11, <2>1, <2>2
<1>14. TypeOK'
  BY <1>1, <1>2, <1>4, <1>10, <1>12, <1>13 DEF IInv, TypeOK
<1>15. StartComesFirst'
  <2>1. \A n \in node \ {Start} : rank[Start] < rank[n]
    BY DEF IInv, StartComesFirst
  <2>2. \A n \in node' \ {Start} : rank'[Start] < rank'[n]
    BY <1>1, <1>2, <1>11, <2>1
  <2>3. QED BY <1>1, <1>8, <2>2 DEF StartComesFirst
<1>16. RelationsAttached'
  BY <1>1 DEF IInv, RelationsAttached
<1>17. QED BY <1>1, <1>14, <1>15, <1>16 DEF IInv

LEMMA CompressInv ==
  ASSUME IInv, NEW r1 \in node, NEW r2 \in node, Compress(r1, r2)
  PROVE  IInv'
<1> DEFINE links == DOMAIN seq \cup lemmaLink
           behind(S) == {p \in S : p[1] = r2 /\ p[2] # r1}
           kept(S)   == {p \in S : r2 \notin {p[1], p[2]}}
           onto(S)   == {<<r1, p[2]>> : p \in behind(S)}
           D == kept(DOMAIN seq) \cup onto(DOMAIN seq)
<1>1. /\ dup = Closed
      /\ {r1, r2} \subseteq node \ {Start, End} /\ r1 # r2
      /\ Touching(related, r1) \cup Touching(related, r2) = {}
      /\ {p[1] : p \in {q \in links : q[2] = r2}} = {r1}
      /\ node' = node \ {r2}
      /\ seq' = [p \in D |-> IF p[1] = r1 THEN seq[<<r2, p[2]>>] ELSE seq[p]]
      /\ {p[2] : p \in {q \in links : q[1] = r1}} = {r2}
      /\ lemmaLink' = kept(lemmaLink) \cup onto(lemmaLink)
      /\ text' = Without([text EXCEPT ![r1] = @ \o text[r2]], {r2})
      /\ rank' = Without(rank, {r2})
      /\ lemma' = lemma \ {r2}
      /\ UNCHANGED <<related, rtype, dup, pending>>
  BY DEF Compress
<1>2. /\ {Start, End} \subseteq node /\ node \subseteq Reading
      /\ rank \in [node -> Nat] /\ text \in [node -> Seq(Word)]
      /\ IsGraph(seq, node) /\ lemma \subseteq node /\ lemmaLink \subseteq node \X node
  BY DEF IInv, TypeOK
<1>3. \A p \in D : p \in node' \X node' /\ p[2] # Start
  <2>1. \A p \in DOMAIN seq : p[2] # Start /\ p \in node \X node
    BY <1>2 DEF IsGraph, IInv, StartComesFirst
  <2>2. ASSUME NEW p \in behind(DOMAIN seq) PROVE p[2] # r2
    <3>1. p \in links /\ p[1] = r2
      BY <2>2
    <3>2. p[2] = r2 => r2 \in {q[1] : q \in {e \in links : e[2] = r2}}
      BY <3>1
    <3>3. QED BY <1>1, <3>2
  <2>3. QED BY <1>1, <2>1, <2>2
<1>4. \A p \in D : (IF p[1] = r1 THEN seq[<<r2, p[2]>>] ELSE seq[p]) \subseteq Label
  <2>1. \A q \in DOMAIN seq : seq[q] \subseteq Label /\ q = <<q[1], q[2]>>
    BY <1>2 DEF IsGraph
  <2>2. ASSUME NEW p \in D, p[1] = r1 PROVE <<r2, p[2]>> \in DOMAIN seq
    <3>1. CASE p \in kept(DOMAIN seq)
      <4>1. p[2] \in {q[2] : q \in {e \in links : e[1] = r1}}
        BY <2>2, <3>1
      <4>2. p[2] = r2
        BY <1>1, <4>1
      <4>3. QED BY <3>1, <4>2
    <3>2. CASE p \in onto(DOMAIN seq)
      <4>1. PICK q \in DOMAIN seq : q[1] = r2 /\ p = <<r1, q[2]>>
        BY <3>2
      <4>2. QED BY <2>1, <4>1
    <3>3. QED BY <3>1, <3>2
  <2>3. ASSUME NEW p \in D, p[1] # r1 PROVE p \in DOMAIN seq
    BY <2>3
  <2>4. QED BY <2>1, <2>2, <2>3
<1>5. lemmaLink' \subseteq node' \X node'
  <2>1. ASSUME NEW p \in behind(lemmaLink) PROVE p[2] # r2
    <3>1. p \in links /\ p[1] = r2
      BY <2>1
    <3>2. p[2] = r2 => r2 \in {q[1] : q \in {e \in links : e[2] = r2}}
      BY <3>1
    <3>3. QED BY <1>1, <3>2
  <2>2. QED BY <1>1, <1>2, <2>1
<1> HIDE DEF D
<1>6. IsGraph(seq', node')
  BY <1>1, <1>3, <1>4 DEF IsGraph
<1>7. rank' \in [node' -> Nat]
  BY <1>1, <1>2 DEF Without
<1>8. text' \in [node' -> Seq(Word)]
  <2>1. text[r1] \o text[r2] \in Seq(Word)
    BY <1>2, ConcatProperties
  <2>2. [text EXCEPT ![r1] = @ \o text[r2]] \in [node -> Seq(Word)]
    BY <1>2, <2>1
  <2>3. QED BY <1>1, <2>2 DEF Without
<1>9. TypeOK'
  BY <1>1, <1>2, <1>5, <1>6, <1>7, <1>8 DEF IInv, TypeOK
<1>10. StartComesFirst'
  <2>1. \A n \in node' : rank'[n] = rank[n]
    BY <1>1, <1>2 DEF Without
  <2>2. DOMAIN seq' = D
    BY <1>1
  <2>3. QED BY <1>1, <1>2, <1>3, <2>1, <2>2 DEF IInv, StartComesFirst
<1>11. RelationsAttached'
  BY <1>1 DEF IInv, RelationsAttached, Touching
<1>12. QED BY <1>1, <1>9, <1>10, <1>11 DEF IInv

LEMMA MergeInv ==
  ASSUME IInv, NEW s \in node, NEW t \in node, MergeNodes(s, t)
  PROVE  IInv'
<1>1. PICK p \in node, n \in node :
        /\ dup = Closed
        /\ s \notin {Start, End, p}
        /\ Before(seq, s) = {p} /\ After(seq, s) = {n}
        /\ rank[s] = rank[t]
        /\ Touching(related, s) = {}
        /\ \A a \in lemmaLink : s \notin {a[1], a[2]}
        /\ node' = node \ {s}
        /\ seq' = [a \in (DOMAIN seq \cup {<<p, t>>, <<t, n>>}) \ {<<p, s>>, <<s, n>>} |->
                     On(seq, a[1], a[2])
                       \cup (IF a = <<p, t>> THEN BaseOf(seq[<<p, s>>]) ELSE {})
                       \cup (IF a = <<t, n>> THEN BaseOf(seq[<<s, n>>]) ELSE {})]
        /\ text' = Without([text EXCEPT ![t] = Joined(text[s], @)], {s})
        /\ rank' = Without(rank, {s})
        /\ lemma' = lemma \ {s}
        /\ UNCHANGED <<lemmaLink, related, rtype, dup, pending>>
  BY DEF MergeNodes
<1>2. /\ {Start, End} \subseteq node /\ node \subseteq Reading
      /\ rank \in [node -> Nat] /\ text \in [node -> Seq(Word)]
      /\ IsGraph(seq, node) /\ lemma \subseteq node /\ lemmaLink \subseteq node \X node
  BY DEF IInv, TypeOK
<1> DEFINE D == (DOMAIN seq \cup {<<p, t>>, <<t, n>>}) \ {<<p, s>>, <<s, n>>}
           lab(a) == On(seq, a[1], a[2])
                       \cup (IF a = <<p, t>> THEN BaseOf(seq[<<p, s>>]) ELSE {})
                       \cup (IF a = <<t, n>> THEN BaseOf(seq[<<s, n>>]) ELSE {})
<1>3. \A a \in DOMAIN seq : a = <<a[1], a[2]>> /\ a[2] # Start
                             /\ a[1] \in node /\ a[2] \in node
  BY <1>2 DEF IsGraph, IInv, StartComesFirst
<1>4. \A a \in DOMAIN seq : (a[1] = s => a[2] = n) /\ (a[2] = s => a[1] = p)
  BY <1>1 DEF Before, After
<1>5. <<p, s>> \in DOMAIN seq /\ <<s, n>> \in DOMAIN seq
  <2>1. PICK a \in DOMAIN seq : a[2] = s /\ a[1] = p
    BY <1>1 DEF Before
  <2>2. PICK b \in DOMAIN seq : b[1] = s /\ b[2] = n
    BY <1>1 DEF After
  <2>3. QED BY <1>3, <2>1, <2>2
<1>6. n # s /\ n # Start /\ p # s
  BY <1>1, <1>3, <1>4, <1>5
<1>7. t # Start
  <2>1. rank[Start] < rank[s] /\ rank[Start] \in Nat
    BY <1>1, <1>2 DEF IInv, StartComesFirst
  <2>2. QED BY <1>1, <2>1
<1>8. \A a \in D : a \in node' \X node' /\ a[2] # Start
  <2>1. ASSUME NEW a \in DOMAIN seq, a \notin {<<p, s>>, <<s, n>>}
        PROVE  a \in node' \X node' /\ a[2] # Start
    <3>1. a[1] # s /\ a[2] # s
      BY <1>3, <1>4, <2>1
    <3>2. QED BY <1>1, <1>3, <3>1
  <2>2. ASSUME NEW a \in {<<p, t>>, <<t, n>>}, a \notin {<<p, s>>, <<s, n>>}
        PROVE  a \in node' \X node' /\ a[2] # Start
    <3>1. t # s
      BY <2>2
    <3>2. QED BY <1>1, <1>6, <1>7, <2>2, <3>1
  <2>3. QED BY <2>1, <2>2
<1>9. \A a \in D : lab(a) \subseteq Label
  <2>1. \A a \in DOMAIN seq : seq[a] \subseteq Label
    BY <1>2 DEF IsGraph
  <2>2. \A a \in D : On(seq, a[1], a[2]) \subseteq Label
    BY <2>1 DEF On
  <2>3. BaseOf(seq[<<p, s>>]) \subseteq Label /\ BaseOf(seq[<<s, n>>]) \subseteq Label
    BY <1>5, <2>1 DEF BaseOf
  <2>4. QED BY <2>2, <2>3
<1>10. seq' = [a \in D |-> lab(a)]
  BY <1>1
<1> HIDE DEF D, lab
<1>11. IsGraph(seq', node')
  BY <1>8, <1>9, <1>10 DEF IsGraph
<1>12. rank' \in [node' -> Nat]
  BY <1>1, <1>2 DEF Without
<1>13. text' \in [node' -> Seq(Word)]
  <2>1. Joined(text[s], text[t]) \in Seq(Word)
    <3>1. text[s] \o text[t] \in Seq(Word) /\ text[t] \in Seq(Word)
      BY <1>2, ConcatProperties
    <3>2. QED BY <3>1 DEF Joined
  <2>2. [text EXCEPT ![t] = Joined(text[s], @)] \in [node -> Seq(Word)]
    BY <1>2, <2>1
  <2>3. QED BY <1>1, <2>2 DEF Without
<1>14. TypeOK'
  BY <1>1, <1>2, <1>11, <1>12, <1>13 DEF IInv, TypeOK
<1>15. StartComesFirst'
  <2>1. \A m \in node' : rank'[m] = rank[m]
    BY <1>1, <1>2 DEF Without
  <2>2. DOMAIN seq' = D
    BY <1>10
  <2>3. QED BY <1>1, <1>2, <1>8, <2>1, <2>2 DEF IInv, StartComesFirst
<1>16. RelationsAttached'
  BY <1>1 DEF IInv, RelationsAttached, Touching
<1>17. QED BY <1>1, <1>14, <1>15, <1>16 DEF IInv

-----------------------------------------------------------------------------
(* Ranks and lemmata.                                                      *)

\* The start has nothing before it, so it is never moved; a reading that is
\* moved stays behind the one before it.
LEMMA RankInv ==
  ASSUME IInv, NEW r \in node, NEW k \in Nat, ChangeRank(r, k)
  PROVE  IInv'
<1>1. /\ dup = Closed
      /\ rank' = [rank EXCEPT ![r] = k]
      /\ UNCHANGED <<node, seq, text, lemma, lemmaLink, related, rtype, dup, pending>>
  BY DEF ChangeRank
<1>2. PICK p \in node, n \in node :
        /\ Before(seq, r) = {p} /\ After(seq, r) = {n}
        /\ (rank[r] < k /\ k < rank[n]) \/ (rank[p] < k /\ k < rank[r])
  BY DEF ChangeRank, CheckNodeRank
<1>3. rank \in [node -> Nat] /\ IsGraph(seq, node) /\ Start \in node
  BY DEF IInv, TypeOK
<1>4. r # Start
  <2>1. PICK a \in DOMAIN seq : a[1] = p /\ a[2] = r
    BY <1>2 DEF Before
  <2>2. <<p, r>> \in DOMAIN seq
    BY <1>3, <2>1 DEF IsGraph
  <2>3. QED BY <2>2 DEF IInv, StartComesFirst
<1>5. rank[Start] < k
  BY <1>2, <1>3, <1>4 DEF IInv, StartComesFirst
<1>6. TypeOK'
  BY <1>1, <1>3 DEF IInv, TypeOK
<1>7. StartComesFirst' /\ RelationsAttached'
  BY <1>1, <1>3, <1>4, <1>5 DEF IInv, StartComesFirst, RelationsAttached
<1>8. QED BY <1>1, <1>6, <1>7 DEF IInv

LEMMA LemmaInv ==
  ASSUME IInv, LemmaStep
  PROVE  IInv'
<1>1. CASE \E r \in node, value \in BOOLEAN : SetLemma(r, value)
  <2>1. PICK r \in node, value \in BOOLEAN : SetLemma(r, value)
    BY <1>1
  <2>2. lemma' \subseteq node
    BY <2>1 DEF SetLemma, LemmataWith, IInv, TypeOK
  <2>3. QED BY <2>1, <2>2 DEF SetLemma, IInv, TypeOK, StartComesFirst, RelationsAttached
<1>2. CASE SetLemmaText
  <2>1. {Start} \cup lemma \subseteq node /\ End \in node
    BY DEF IInv, TypeOK
  <2>2. LemmaChain({Start} \cup lemma) \subseteq node \X node
    BY <2>1 DEF LemmaChain, Successive
  <2>3. lemmaLink' \subseteq node \X node
    BY <1>2, <2>2 DEF SetLemmaText, IInv, TypeOK
  <2>4. QED BY <1>2, <2>3 DEF SetLemmaText, IInv, TypeOK, StartComesFirst, RelationsAttached
<1>3. QED BY <1>1, <1>2 DEF LemmaStep

-----------------------------------------------------------------------------
(* The theorems.                                                           *)

LEMMA NextInv == IInv /\ [Next]_vars => IInv'
<1> SUFFICES ASSUME IInv, [Next]_vars PROVE IInv'
  OBVIOUS
<1>1. CASE DuplicateStep
  <2>1. CASE \E wits \in SUBSET Label : DupOpen(wits)
    BY <2>1, DupOpenInv
  <2>2. CASE \E r, c \in Reading : DupReading(r, c)
    BY <2>2, DupReadingInv
  <2>3. CASE \E lab \in Label : DupWitness(lab)
    BY <2>3, DupWitnessInv
  <2>4. CASE DupRelations
    BY <2>4, DupRelationsInv
  <2>5. CASE DupCommit
    BY <2>5, DupCommitInv
  <2>6. CASE DupAbort
    BY <2>6, ClosingInv DEF DupAbort, IInv, TypeOK
  <2>7. QED BY <1>1, <2>1, <2>2, <2>3, <2>4, <2>5, <2>6 DEF DuplicateStep
<1>2. CASE PutBackStep
  BY <1>2, PutBackInv DEF PutBackStep
<1>3. CASE LookUpStep \/ Crash
  <2>1. CASE LookUpStep
    BY <2>1, LookUpInv DEF LookUpStep
  <2>2. CASE Crash
    BY <2>2, ClosingInv DEF Crash
  <2>3. QED BY <1>3, <2>1, <2>2
<1>4. CASE SplitStep
  BY <1>4, SplitInv DEF SplitStep
<1>5. CASE CompressStep
  BY <1>5, CompressInv DEF CompressStep
<1>6. CASE MergeStep
  BY <1>6, MergeInv DEF MergeStep
<1>7. CASE RankStep
  BY <1>7, RankInv, CollationAssumption DEF RankStep
<1>8. CASE LemmaStep
  BY <1>8, LemmaInv
<1>9. CASE RelationStep
  BY <1>9, RelationInv
<1>10. CASE UNCHANGED vars
  BY <1>10 DEF vars, IInv, TypeOK, StartComesFirst, RelationsAttached,
               DupOK, TransactionOK, DupNode
<1>11. QED
  BY <1>1, <1>2, <1>3, <1>4, <1>5, <1>6, <1>7, <1>8, <1>9, <1>10 DEF Next

\* The invariant that carries the others.
THEOREM Inductive == Spec => []IInv
<1>1. QED BY InitInv, NextInv, PTL DEF Spec

\* Whatever is edited in whatever order, and wherever a duplicate request is
\* broken off, the section stays a graph on its own readings: no link, rank,
\* text, lemma, or relation is left behind by a reading that is gone.
THEOREM TypeCorrect == Spec => []TypeOK
<1>1. IInv => TypeOK
  BY DEF IInv
<1>2. QED BY <1>1, Inductive, PTL

\* Nothing ever leads into the start of a section or is ranked before it.
THEOREM StartStaysFirst == Spec => []StartComesFirst
<1>1. IInv => StartComesFirst
  BY DEF IInv
<1>2. QED BY <1>1, Inductive, PTL

\* A relation that is put back after others have merged, compressed or split
\* readings never hangs on a reading that is gone, nor on a boundary.
THEOREM RelationsStayAttached == Spec => []RelationsAttached
<1>1. IInv => RelationsAttached
  BY DEF IInv
<1>2. QED BY <1>1, Inductive, PTL

=============================================================================
