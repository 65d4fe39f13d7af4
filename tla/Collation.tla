------------------------------ MODULE Collation ------------------------------
(***************************************************************************)
(* The variant graph of one section, and the requests that edit it.        *)
(*                                                                         *)
(* A section is a graph of readings between a start and an end reading.    *)
(* A SEQUENCE link carries the sigla of the witnesses that run through it: *)
(* in the class "witnesses" for the base text of a witness, in a class of  *)
(* its own for each layer (a.c., s.l., ...).  A layer has links of its own *)
(* only where it departs from the base text of its witness.  Every reading *)
(* has a rank, its column in the alignment.  RELATED links relate readings,*)
(* LEMMA_TEXT links chain the lemma readings of the section.               *)
(*                                                                         *)
(* Requests are serialised here: every one of them is a transaction that   *)
(* commits at its end, except that the transaction of duplicateReading is  *)
(* spread over several steps on a private copy, and that it puts relations *)
(* back in transactions of their own after it has committed.               *)
(***************************************************************************)
EXTENDS Naturals, Sequences, FiniteSets

CONSTANTS
  Reading,      \* identities of reading nodes; those unused are free
  Start, End,   \* the two boundary readings of the section
  Sigil,        \* witnesses
  Layer,        \* layer classes, "a.c." and the like
  Type,         \* names of relation types
  Word,         \* what reading texts are made of
  MaxRank,      \* bound on the ranks a split hands out
  MaxBatch,     \* bound on the readings of one duplicate request
  Initial       \* the collations a parser leaves behind

VARIABLES
  node,       \* the reading nodes that exist
  seq,        \* SEQUENCE links: a function from pairs to sets of labels
  rank, text, \* properties of the nodes
  lemma,      \* the nodes whose is_lemma is true
  lemmaLink,  \* LEMMA_TEXT links, a set of pairs
  related,    \* RELATED links
  rtype,      \* the stored settings of each relation type
  dup,        \* the open transaction of a duplicate request, or Closed
  pending     \* duplicate requests that have committed, with what they put back

vars == <<node, seq, rank, text, lemma, lemmaLink, related, rtype, dup, pending>>

Base     == "witnesses"
Label    == Sigil \X ({Base} \cup Layer)
Pair     == Reading \X Reading
Relation == [src : Reading, tgt : Reading, type : Type, coloc : BOOLEAN]
Setting  == {"absent", "declared", "default"}
Closed   == <<>>

\* A duplicate request behind its commit: the reading it was sent to, the
\* relations it has still to put back, and whether it has found its tradition.
Returning == [url : Reading, left : SUBSET Relation, found : BOOLEAN]

IsGraph(s, N) == DOMAIN s \subseteq N \X N /\ s \in [DOMAIN s -> SUBSET Label]

\* The readings that lead to n, and those that n leads to, for a witness.
BaseBefore(s, n, w) == {m \in Reading : <<m, n>> \in DOMAIN s /\ <<w, Base>> \in s[<<m, n>>]}
BaseAfter(s, n, w)  == {m \in Reading : <<n, m>> \in DOMAIN s /\ <<w, Base>> \in s[<<n, m>>]}

IsOne(S) == \E x \in S : S = {x}

\* The base text of w leaves the start, enters the end, and passes every
\* other reading at most once, without a gap.
Runs(s, N, w) ==
  /\ BaseBefore(s, Start, w) = {} /\ IsOne(BaseAfter(s, Start, w))
  /\ IsOne(BaseBefore(s, End, w)) /\ BaseAfter(s, End, w) = {}
  /\ \A n \in N \ {Start, End} :
       \/ BaseBefore(s, n, w) = {} /\ BaseAfter(s, n, w) = {}
       \/ IsOne(BaseBefore(s, n, w)) /\ IsOne(BaseAfter(s, n, w))

RanksIncrease(s, r) == \A p \in DOMAIN s : r[p[1]] < r[p[2]]

\* What an upload leaves behind: ranks rise along every link, every witness has
\* a path from start to end, relations join readings between the two.
WellFormed(g) ==
  /\ {Start, End} \subseteq g.node /\ g.node \subseteq Reading
  /\ IsGraph(g.seq, g.node)
  /\ g.rank \in [g.node -> 0 .. MaxRank] /\ g.rank[Start] = 0
  /\ \A n \in g.node \ {Start} : g.rank[n] > 0
  /\ RanksIncrease(g.seq, g.rank)
  /\ \A w \in Sigil : Runs(g.seq, g.node, w)
  /\ g.text \in [g.node -> Seq(Word)]
  /\ g.related \subseteq Relation
  /\ \A p \in g.related : {p.src, p.tgt} \subseteq g.node \ {Start, End}

ASSUME CollationAssumption ==
  /\ IsFiniteSet(Reading) /\ {Start, End} \subseteq Reading /\ Start # End
  /\ MaxRank \in Nat /\ MaxBatch \in Nat
  /\ Base \notin Layer
  /\ \A g \in Initial : WellFormed(g)

-----------------------------------------------------------------------------
(* Reading the graph.                                                      *)

Before(s, n) == {p[1] : p \in {q \in DOMAIN s : q[2] = n}}
After(s, n)  == {p[2] : p \in {q \in DOMAIN s : q[1] = n}}

\* The labels on the link from a to b, none if there is no such link.
On(s, a, b) == IF <<a, b>> \in DOMAIN s THEN s[<<a, b>>] ELSE {}

\* collectWitnesses(true): the labels on either side of a reading.
WitnessesOf(s, n) == UNION {s[p] : p \in {q \in DOMAIN s : n \in {q[1], q[2]}}}

\* The neighbours of n for a label: its own links if there are any, and
\* otherwise, for a layer, those of the base text.
NextOf(s, n, lab) ==
  LET own == {m \in After(s, n) : lab \in s[<<n, m>>]}
  IN  IF own # {} THEN own
      ELSE {m \in After(s, n) : <<lab[1], Base>> \in s[<<n, m>>]}
PriorOf(s, n, lab) ==
  LET own == {m \in Before(s, n) : lab \in s[<<m, n>>]}
  IN  IF own # {} THEN own
      ELSE {m \in Before(s, n) : <<lab[1], Base>> \in s[<<m, n>>]}

\* The layers of witness w that a set of links carries.
LayersOf(s, links, w) ==
  {c \in Layer : \E p \in links : p \in DOMAIN s /\ <<w, c>> \in s[p]}

\* Mutant: relations are only looked for at their source.
TouchingOutgoing(rels, n) == {p \in rels : n = p.src}

Touching(rels, n) == {p \in rels : n \in {p.src, p.tgt}}

-----------------------------------------------------------------------------
(* Writing the graph: addWitnessLink, removeWitnessLink, transferWitnesses. *)

\* Mutant: a layer displaces the base label of its witness.
MergedByLayer(labs) == {l \in labs : l[2] # Base \/ ~ \E m \in labs : m[1] = l[1] /\ m[2] # Base}

\* A base label displaces the layers of its witness, and a layer is not
\* written next to the base label of its witness.
Merged(labs) == {l \in labs : l[2] = Base \/ <<l[1], Base>> \notin labs}

AddLink(s, a, b, lab) ==
  [p \in DOMAIN s \cup {<<a, b>>} |->
     IF p = <<a, b>>
     THEN IF lab[2] = Base
          THEN {l \in On(s, a, b) : l[1] # lab[1]} \cup {lab}
          ELSE IF <<lab[1], Base>> \in On(s, a, b) THEN On(s, a, b)
               ELSE On(s, a, b) \cup {lab}
     ELSE s[p]]

\* Mutant: nothing is looked for that may be orphaned.
OrphansUnchecked(s, a, b, w, check) == {}

\* The layers that lose their way when the base text of w leaves the link
\* from a to b: with "end", those that depart at b and reach b only along
\* the base text; with "start", those that arrive at a likewise.
Orphans(s, a, b, w, check) ==
  IF check = "end"
  THEN LayersOf(s, {b} \X After(s, b), w)
         \ LayersOf(s, (Before(s, b) \ {a}) \X {b}, w)
  ELSE LayersOf(s, Before(s, a) \X {a}, w)
         \ LayersOf(s, {a} \X (After(s, a) \ {b}), w)

\* Mutant: the witness stays on its old link as well.
RemoveLinkForgotten(s, a, b, lab, check) == s

\* The whole class of an orphaned layer is overwritten with the one sigil.
RemoveLink(s, a, b, lab, check) ==
  LET orphans == IF lab[2] = Base THEN Orphans(s, a, b, lab[1], check) ELSE {}
      left    == ({l \in On(s, a, b) : l[2] \notin orphans}
                    \cup ({lab[1]} \X orphans)) \ {lab}
  IN  IF ~ \E l \in On(s, a, b) : l[2] = lab[2]
      THEN s
      ELSE IF left = {}
           THEN [p \in DOMAIN s \ {<<a, b>>} |-> s[p]]
           ELSE [s EXCEPT ![<<a, b>>] = left]

-----------------------------------------------------------------------------
(* What the requests ask before they write.                                *)

\* What a depth-first traversal from a over a set of links visits.
Reached(links, a) ==
  LET onward == [S \in SUBSET node |-> S \cup {e[2] : e \in {l \in links : l[1] \in S}}]
      visit[k \in 0 .. Cardinality(node)] == IF k = 0 THEN {a} ELSE onward[visit[k - 1]]
  IN  visit[Cardinality(node)]

\* wouldGetCyclic walks from the lower of two readings to the higher and does
\* not look behind a link that leaves a reading as high as the latter.
Early(links, hi) == {e \in links : rank[e[1]] < rank[hi]}

\* Some order of the links leads the walk from lo to hi.
MayReach(links, lo, hi) ==
  \E e \in links : e[2] = hi /\ e[1] \in Reached(Early(links, hi), lo)

\* Every order does.  A reading is visited once: where it may be met by a link
\* behind which nothing is looked at, its own links do not count.
MustReach(links, lo, hi) ==
  LET late == {e \in links \ Early(links, hi) : e[1] \in Reached(Early(links, hi), lo)}
      cut  == {e[2] : e \in late} \ {lo}
  IN  MayReach({e \in links : e[1] \notin cut}, lo, hi)

\* Mutant: the walk starts from the reading that is named first.
FirstNamed(a, b) == a

Lower(a, b)  == IF rank[a] <= rank[b] THEN a ELSE b
Higher(a, b) == IF rank[a] <= rank[b] THEN b ELSE a

\* The walk takes SEQUENCE and LEMMA_TEXT links alike but counts nothing before
\* it has seen a SEQUENCE link: where LEMMA_TEXT links alone lead to the higher
\* reading, the order of the links decides.
MayFindNoCycle(a, b) ==
  \/ a = b
  \/ ~ MustReach(DOMAIN seq \cup lemmaLink, Lower(a, b), Higher(a, b))
  \/ MayReach(lemmaLink, Lower(a, b), Higher(a, b))
MayFindCycle(a, b) ==
  a # b /\ MayReach(DOMAIN seq \cup lemmaLink, Lower(a, b), Higher(a, b))

\* What create_local checks.  The lookup of a type whose settings are not
\* stored returns null, which fails where a relation of that type exists.
CanRelate(a, b) ==
  /\ {a, b} \subseteq node \ {Start, End}
  /\ \A p \in Touching(related, a) \cup Touching(related, b) : rtype[p.type] # "absent"
  /\ MayFindNoCycle(a, b)
  /\ ~ \E p \in related : {p.src, p.tgt} = {a, b}

MayRefuse(a, b) == CanRelate(a, b) => MayFindCycle(a, b)

\* returnRelationType stores the general defaults over the settings of every
\* stored type it is asked for, and those defaults say colocation, not weak,
\* not transitive; the lower of the two readings is promoted.
Relating(a, b, t) ==
  LET asked == {t} \cup {p.type : p \in Touching(related, a) \cup Touching(related, b)}
  IN  /\ related' = related \cup {[src |-> a, tgt |-> b, type |-> t, coloc |-> TRUE]}
      /\ rtype' = [u \in Type |-> IF u \in asked /\ rtype[u] # "absent"
                                  THEN "default" ELSE rtype[u]]
      /\ rank' = IF rank[a] < rank[b] THEN [rank EXCEPT ![a] = rank[b]]
                                      ELSE [rank EXCEPT ![b] = rank[a]]

-----------------------------------------------------------------------------
Init ==
  /\ \E g \in Initial :
       /\ node = g.node /\ seq = g.seq /\ rank = g.rank /\ text = g.text
       /\ lemma = {} /\ lemmaLink = {} /\ related = g.related
  /\ rtype \in [Type -> {"absent", "declared"}]
  /\ dup = Closed
  /\ pending = {}

\* Mutant: a deleted reading leaves its properties behind.
Undeleted(f, S) == f

Without(f, S) == [x \in DOMAIN f \ S |-> f[x]]

(***************************************************************************)
(* POST /reading/{id}/duplicate.  One transaction: for every reading of    *)
(* the request a copy is made and the witnesses asked for are moved to it  *)
(* one by one.  Whether a reading can be duplicated, and which relations   *)
(* there are, is read in other transactions, which see what is committed.  *)
(***************************************************************************)
DupOpen(wits) ==
  /\ dup = Closed /\ wits # {}
  /\ dup' = [wits |-> wits, todo |-> {}, busy |-> FALSE, cur |-> Start, copy |-> Start,
             seq |-> seq, from |-> <<>>, related |-> related]
  /\ UNCHANGED <<node, seq, rank, text, lemma, lemmaLink, related, rtype, pending>>

DupReading(r, c) ==
  /\ dup # Closed /\ ~dup.busy
  /\ Cardinality(DOMAIN dup.from) < MaxBatch
  /\ r \in node /\ c \in Reading \ (node \cup DOMAIN dup.from)
  /\ dup.wits \subseteq WitnessesOf(seq, r)
  /\ Cardinality(WitnessesOf(seq, r)) >= 2
  /\ dup' = [dup EXCEPT !.todo = dup.wits, !.busy = TRUE, !.cur = r, !.copy = c,
                        !.from = [n \in DOMAIN dup.from \cup {c} |->
                                    IF n = c THEN r ELSE dup.from[n]]]
  /\ UNCHANGED <<node, seq, rank, text, lemma, lemmaLink, related, rtype, pending>>

\* One turn of the loop over the witnesses: exactly one prior and one next.
DupWitness(lab) ==
  /\ dup # Closed /\ lab \in dup.todo
  /\ lab \in WitnessesOf(dup.seq, dup.cur)
  /\ \E p, n \in Reading :
       /\ PriorOf(dup.seq, dup.cur, lab) = {p}
       /\ NextOf(dup.seq, dup.cur, lab) = {n}
       /\ LET added == AddLink(AddLink(dup.seq, p, dup.copy, lab), dup.copy, n, lab)
              moved == RemoveLink(RemoveLink(added, p, dup.cur, lab, "end"),
                                  dup.cur, n, lab, "start")
          IN  dup' = [dup EXCEPT !.todo = dup.todo \ {lab}, !.seq = moved]
  /\ UNCHANGED <<node, seq, rank, text, lemma, lemmaLink, related, rtype, pending>>

\* Colocated relations are repeated for the copy, the others are deleted
\* where they cross the rank.  The committed relations are gone through: one
\* that this transaction has deleted already ends it.
DupRelations ==
  LET r == dup.cur
      repeated == {[p EXCEPT !.src = dup.copy, !.tgt = IF p.src = r THEN p.tgt ELSE p.src] :
                     p \in {q \in Touching(related, r) : q.coloc}}
      crossing == {p \in related : /\ ~p.coloc
                                   /\ \/ rank[p.src] < rank[r] /\ rank[p.tgt] > rank[r]
                                      \/ rank[p.src] > rank[r] /\ rank[p.tgt] < rank[r]}
  IN  /\ dup # Closed /\ dup.busy /\ dup.todo = {}
      /\ related \subseteq dup.related
      /\ dup' = [dup EXCEPT !.busy = FALSE,
                            !.related = (dup.related \ crossing) \cup repeated]
      /\ UNCHANGED <<node, seq, rank, text, lemma, lemmaLink, related, rtype, pending>>

\* A copy takes over every property of its original except is_lemma.  The
\* request may have been sent to any reading, also one that it leaves alone.
DupCommit ==
  /\ dup # Closed /\ ~dup.busy /\ DOMAIN dup.from # {}
  /\ node' = node \cup DOMAIN dup.from
  /\ seq' = dup.seq
  /\ rank' = [n \in node' |-> IF n \in node THEN rank[n] ELSE rank[dup.from[n]]]
  /\ text' = [n \in node' |-> IF n \in node THEN text[n] ELSE text[dup.from[n]]]
  /\ related' = dup.related
  /\ \E u \in node : pending' = pending \cup
       {[url |-> u, left |-> deleted, found |-> FALSE] : deleted \in {related \ dup.related} \ {{}}}
  /\ dup' = Closed
  /\ UNCHANGED <<lemma, lemmaLink, rtype>>

\* A check that fails, an exception: the transaction is rolled back.
DupAbort ==
  /\ dup # Closed
  /\ dup' = Closed
  /\ UNCHANGED <<node, seq, rank, text, lemma, lemmaLink, related, rtype, pending>>

\* Outside the transaction the tradition is looked up by the reading that the
\* request was sent to.  Where that is gone by now the request ends with an
\* exception: what it has deleted is neither put back nor reported.
LookUp(q) ==
  /\ dup = Closed /\ q \in pending /\ ~q.found
  /\ pending' = (pending \ {q}) \cup {[q EXCEPT !.found = TRUE] : u \in {q.url} \cap node}
  /\ UNCHANGED <<node, seq, rank, text, lemma, lemmaLink, related, rtype, dup>>

\* Each deleted relation is then posted to the server's own relation handler;
\* one that is refused is reported as deleted.
PutBack(q, p) ==
  /\ dup = Closed /\ q \in pending /\ q.found /\ p \in q.left
  /\ pending' = (pending \ {q}) \cup {[q EXCEPT !.left = left] : left \in {q.left \ {p}} \ {{}}}
  /\ \/ /\ CanRelate(p.src, p.tgt)
        /\ Relating(p.src, p.tgt, p.type)
     \/ /\ MayRefuse(p.src, p.tgt)
        /\ UNCHANGED <<related, rtype, rank>>
  /\ UNCHANGED <<node, seq, text, lemma, lemmaLink, dup>>

\* The server stops: what no transaction has committed is gone.
Crash ==
  /\ dup # Closed \/ pending # {}
  /\ dup' = Closed /\ pending' = {}
  /\ UNCHANGED <<node, seq, rank, text, lemma, lemmaLink, related, rtype>>

(***************************************************************************)
(* POST /reading/{id}/split.  The text is cut at one place (the second     *)
(* part may be empty) or between all its words; the parts but the first    *)
(* become new readings, which are ranked behind each other.  The ranks of  *)
(* what follows stay: recalculateRank prunes every path it evaluates.      *)
(* A request that gives a regular expression, or a separator together with *)
(* an index (byPattern), is not refused on a related reading.              *)
(***************************************************************************)
\* Mutant: the last of several words is forgotten.
DividedButLast(t) == {[i \in 1 .. Len(t) - 1 |-> <<t[i]>>]}

Divided(t) == {<<SubSeq(t, 1, i), SubSeq(t, i + 1, Len(t))>> : i \in 1 .. Len(t)}
                \cup {[i \in 1 .. Len(t) |-> <<t[i]>>]}

\* Where a regular expression comes with an index, as much is taken off the
\* second part as the expression is long, whatever it matches.
Shortened(t) ==
  UNION {{<<SubSeq(t, 1, i), SubSeq(t, j, Len(t))>> : j \in i + 2 .. Len(t) + 1} : i \in 1 .. Len(t)}

Cuts(t) == Divided(t) \cup Shortened(t)

\* fresh[i] is the node of part i + 1; the last part takes over the links.
Split(r, parts, fresh, byPattern) ==
  LET k     == Len(parts)
      new   == {fresh[i] : i \in DOMAIN fresh}
      part(i)  == IF i = 1 THEN r ELSE fresh[i - 1]
      index(n) == CHOOSE i \in DOMAIN fresh : fresh[i] = n
      outs  == {r} \X After(seq, r)
      chain == {<<part(i), part(i + 1)>> : i \in 1 .. (k - 1)}
      moved == {<<part(k), p[2]>> : p \in outs}
  IN  /\ dup = Closed
      /\ r \in node \ {Start, End} /\ parts \in Cuts(text[r]) /\ k >= 2
      /\ fresh \in [1 .. (k - 1) -> Reading \ node]
      /\ \A i, j \in DOMAIN fresh : fresh[i] = fresh[j] => i = j
      /\ rank[r] + k - 1 <= MaxRank
      /\ byPattern \/ (Touching(related, r) = {} /\ parts \in Divided(text[r]))
      /\ node' = node \cup new
      /\ seq' = [p \in (DOMAIN seq \ outs) \cup chain \cup moved |->
                   CASE p \in chain -> Merged(UNION {seq[q] : q \in outs})
                     [] p \in moved -> seq[<<r, p[2]>>]
                     [] OTHER       -> seq[p]]
      /\ rank' = [n \in node' |-> IF n \in node THEN rank[n] ELSE rank[r] + index(n)]
      /\ text' = [n \in node' |-> IF n = r THEN parts[1]
                                  ELSE IF n \in node THEN text[n] ELSE parts[index(n) + 1]]
      /\ UNCHANGED <<lemma, lemmaLink, related, rtype, dup, pending>>

(***************************************************************************)
(* POST /reading/{id1}/concatenate/{id2}: two readings that follow each    *)
(* other, with no other way out of the first or into the second, become    *)
(* the first one.                                                          *)
(***************************************************************************)
Compress(r1, r2) ==
  LET links == DOMAIN seq \cup lemmaLink
      behind(S) == {p \in S : p[1] = r2 /\ p[2] # r1}
      kept(S)   == {p \in S : r2 \notin {p[1], p[2]}}
      onto(S)   == {<<r1, p[2]>> : p \in behind(S)}
  IN  /\ dup = Closed
      /\ {r1, r2} \subseteq node \ {Start, End} /\ r1 # r2
      /\ rank[r1] <= rank[r2]
      /\ Touching(related, r1) \cup Touching(related, r2) = {}
      /\ {p[2] : p \in {q \in links : q[1] = r1}} = {r2}
      /\ {p[1] : p \in {q \in links : q[2] = r2}} = {r1}
      /\ node' = node \ {r2}
      /\ seq' = [p \in kept(DOMAIN seq) \cup onto(DOMAIN seq) |->
                   IF p[1] = r1 THEN seq[<<r2, p[2]>>] ELSE seq[p]]
      /\ lemmaLink' = kept(lemmaLink) \cup onto(lemmaLink)
      /\ text' = Without([text EXCEPT ![r1] = @ \o text[r2]], {r2})
      /\ rank' = Without(rank, {r2})
      /\ lemma' = lemma \ {r2}
      /\ UNCHANGED <<related, rtype, dup, pending>>

(***************************************************************************)
(* POST /reading/{source}/mergenodes/{target}: a reading with one link on  *)
(* either side is attached to another of the same rank.  Only the base     *)
(* witnesses of its two links are carried over.  Nothing stops a reading   *)
(* from being its own target.  A reading that something still hangs on     *)
(* cannot be deleted: the commit fails.                                    *)
(***************************************************************************)
\* Mutant: the texts are joined although they are the same.
JoinedAlways(a, b) == a \o b

\* Only an empty reading is filled with the text of the other.
Joined(a, b) == IF a = <<>> \/ b = <<>> THEN a \o b ELSE b

BaseOf(labs) == {l \in labs : l[2] = Base}

MergeNodes(s, t) ==
  \E p, n \in node :
    /\ dup = Closed
    /\ {s, t} \subseteq node /\ s \notin {Start, End, p}
    /\ Before(seq, s) = {p} /\ After(seq, s) = {n}
    /\ rank[s] = rank[t]
    /\ text[s] = text[t] \/ text[s] = <<>> \/ text[t] = <<>>
    /\ \A a \in {<<p, s>>, <<s, n>>, <<p, t>>, <<t, n>>} \cap DOMAIN seq :
         BaseOf(seq[a]) # {}
    /\ Touching(related, s) = {}
    /\ \A a \in lemmaLink : s \notin {a[1], a[2]}
    /\ node' = node \ {s}
    /\ seq' = [a \in (DOMAIN seq \cup {<<p, t>>, <<t, n>>}) \ {<<p, s>>, <<s, n>>} |->
                 On(seq, a[1], a[2])
                   \cup (IF a = <<p, t>> THEN BaseOf(seq[<<p, s>>]) ELSE {})
                   \cup (IF a = <<t, n>> THEN BaseOf(seq[<<s, n>>]) ELSE {})]
    /\ text' = Without([text EXCEPT ![t] = Joined(text[s], @)], {s})
    /\ rank' = Without(rank, {s})
    /\ lemma' = lemma \ {s}
    /\ UNCHANGED <<lemmaLink, related, rtype, dup, pending>>

-----------------------------------------------------------------------------
(* Ranks and lemmata.                                                      *)

\* Mutant: a reading may be moved onto the rank of its neighbour.
CheckNodeRankLoosely(r, k) ==
  \E p, n \in node :
    /\ Before(seq, r) = {p} /\ After(seq, r) = {n}
    /\ (rank[r] < k /\ k <= rank[n]) \/ (rank[p] <= k /\ k < rank[r])

\* Only a reading with one link on either side, and only towards a neighbour.
CheckNodeRank(r, k) ==
  \E p, n \in node :
    /\ Before(seq, r) = {p} /\ After(seq, r) = {n}
    /\ (rank[r] < k /\ k < rank[n]) \/ (rank[p] < k /\ k < rank[r])

\* PUT /reading/{id}/rank.
ChangeRank(r, k) ==
  /\ dup = Closed /\ r \in node
  /\ CheckNodeRank(r, k)
  /\ rank' = [rank EXCEPT ![r] = k]
  /\ UNCHANGED <<node, seq, text, lemma, lemmaLink, related, rtype, dup, pending>>

\* Mutant: the lemma of the same rank stays one.
LemmataUncleared(r) == lemma \cup {r}

\* A new lemma ends the others of its rank.
LemmataWith(r) == IF r \in lemma THEN lemma ELSE {n \in lemma : rank[n] # rank[r]} \cup {r}

\* POST /reading/{id}/setlemma.
SetLemma(r, value) ==
  /\ dup = Closed /\ r \in node
  /\ lemma' = IF value THEN LemmataWith(r) ELSE lemma \ {r}
  /\ UNCHANGED <<node, seq, rank, text, lemmaLink, related, rtype, dup, pending>>

\* Readings that follow each other in the order of their ranks.
Successive(S) ==
  {l \in S \X S : /\ rank[l[1]] < rank[l[2]]
                  /\ \A c \in S : rank[c] <= rank[l[1]] \/ rank[l[2]] <= rank[c]}

\* Mutant: the last lemma is not linked to the end.
LemmaChainOpen(S) == Successive(S)

LemmaChain(S) == Successive(S) \cup {<<a, End>> : a \in {b \in S : \A c \in S : rank[c] <= rank[b]}}

\* The readings that the start leads to over a set of lemma links: the least set
\* around the start that none of them leaves.
LemmaPath(links) ==
  LET ends   == {Start} \cup {l[2] : l \in links}
      closed == {S \in SUBSET ends : Start \in S /\ \A l \in links : l[1] \in S => l[2] \in S}
  IN  {n \in ends : \A S \in closed : n \in S}

\* POST /section/{id}/setlemma: the lemmata are chained anew from the start to
\* the end of the section, unless two of them share a rank.
SetLemmaText ==
  LET stops == {Start} \cup lemma
      stale == {l \in lemmaLink : l[1] \in LemmaPath(lemmaLink)}
  IN  /\ dup = Closed
      /\ Start \notin lemma
      /\ \A a, b \in stops : a # b => rank[a] # rank[b]
      /\ ~ \E l \in lemmaLink \ stale : l[1] \in stops
      /\ lemmaLink' = (lemmaLink \ stale) \cup LemmaChain(stops)
      /\ UNCHANGED <<node, seq, rank, text, lemma, related, rtype, dup, pending>>

-----------------------------------------------------------------------------
(* Relations and their types.                                              *)

\* POST /tradition/{id}/relation with the scope "local".
Relate(a, b, t) ==
  /\ dup = Closed
  /\ CanRelate(a, b)
  /\ Relating(a, b, t)
  /\ UNCHANGED <<node, seq, text, lemma, lemmaLink, dup, pending>>

\* DELETE /tradition/{id}/relation/{id}, and with the scope "local".
Unrelate(p) ==
  /\ dup = Closed /\ p \in related
  /\ related' = related \ {p}
  /\ UNCHANGED <<node, seq, rank, text, lemma, lemmaLink, rtype, dup, pending>>

\* The same with the scope "section": all relations go whose readings say what
\* the two readings that are named say.
UnrelateAlike(a, b) ==
  /\ dup = Closed
  /\ related' = {p \in related : ~ {text[a], text[b]} \subseteq {text[p.src], text[p.tgt]}}
  /\ UNCHANGED <<node, seq, rank, text, lemma, lemmaLink, rtype, dup, pending>>

\* DELETE /reading/{id}/relations.
UnrelateAll(r) ==
  /\ dup = Closed /\ r \in node
  /\ related' = related \ Touching(related, r)
  /\ UNCHANGED <<node, seq, rank, text, lemma, lemmaLink, rtype, dup, pending>>

\* PUT /tradition/{id}/relationtype/{name}.  The settings of a type that
\* exists already are changed in a transaction that is never committed.
CreateType(t) ==
  /\ dup = Closed /\ rtype[t] = "absent"
  /\ rtype' = [rtype EXCEPT ![t] = "declared"]
  /\ UNCHANGED <<node, seq, rank, text, lemma, lemmaLink, related, dup, pending>>

-----------------------------------------------------------------------------
DuplicateStep ==
  \/ \E wits \in SUBSET Label : DupOpen(wits)
  \/ \E r, c \in Reading : DupReading(r, c)
  \/ \E lab \in Label : DupWitness(lab)
  \/ DupRelations \/ DupCommit \/ DupAbort

SplitStep ==
  \E r \in node : \E parts \in Cuts(text[r]), byPattern \in BOOLEAN :
    \E fresh \in [1 .. (Len(parts) - 1) -> Reading] : Split(r, parts, fresh, byPattern)

CompressStep == \E r1, r2 \in node : Compress(r1, r2)
MergeStep    == \E s, t \in node : MergeNodes(s, t)
RankStep     == \E r \in node, k \in 0 .. MaxRank : ChangeRank(r, k)

LemmaStep ==
  \/ \E r \in node, value \in BOOLEAN : SetLemma(r, value)
  \/ SetLemmaText

\* A request with a regular expression and an index takes words out.
SplitShort ==
  \E r \in node : \E parts \in Shortened(text[r]) :
    \E fresh \in [1 .. (Len(parts) - 1) -> Reading] : Split(r, parts, fresh, TRUE)

LookUpStep  == \E q \in pending : LookUp(q)
PutBackStep == \E q \in pending : \E p \in q.left : PutBack(q, p)
RelateStep  == \E a, b \in node, t \in Type : Relate(a, b, t)

RelationStep ==
  \/ RelateStep
  \/ \E p \in related : Unrelate(p)
  \/ \E a, b \in node : UnrelateAlike(a, b)
  \/ \E r \in node : UnrelateAll(r)
  \/ \E t \in Type : CreateType(t)

Next ==
  \/ DuplicateStep \/ LookUpStep \/ PutBackStep \/ Crash
  \/ SplitStep \/ CompressStep \/ MergeStep
  \/ RankStep \/ LemmaStep \/ RelationStep

Spec == Init /\ [][Next]_vars

-----------------------------------------------------------------------------
TransactionOK ==
  /\ DOMAIN dup = {"wits", "todo", "busy", "cur", "copy", "seq", "from", "related"}
  /\ dup.todo \subseteq dup.wits /\ dup.wits \subseteq Label
  /\ dup.busy \in BOOLEAN
  /\ {dup.cur, dup.copy} \subseteq node \cup DOMAIN dup.from
  /\ DOMAIN dup.from \subseteq Reading \ node
  /\ dup.from \in [DOMAIN dup.from -> node]
  /\ IsGraph(dup.seq, node \cup DOMAIN dup.from)
  /\ dup.related \subseteq Relation

TypeOK ==
  /\ {Start, End} \subseteq node /\ node \subseteq Reading
  /\ IsGraph(seq, node)
  /\ rank \in [node -> Nat]
  /\ text \in [node -> Seq(Word)]
  /\ lemma \subseteq node
  /\ lemmaLink \subseteq node \X node
  /\ related \subseteq Relation
  /\ rtype \in [Type -> Setting]
  /\ pending \subseteq Returning
  /\ dup = Closed \/ TransactionOK

=============================================================================
