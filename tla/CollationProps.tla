--------------------------- MODULE CollationProps ---------------------------
(***************************************************************************)
(* What editing a collation may and may never do to its graph.             *)
(***************************************************************************)
EXTENDS Collation

Ranked  == RanksIncrease(seq, rank)
AllRun  == \A w \in Sigil : Runs(seq, node, w)

\* The start is where a section begins: nothing leads into it and every other
\* reading is ranked behind it, whatever is moved, split, promoted or merged.
\* The traversals of the exporters, of Witness and of setLemmaText start there.
StartComesFirst ==
  /\ \A n \in node : <<n, Start>> \notin DOMAIN seq
  /\ \A n \in node \ {Start} : rank[Start] < rank[n]

\* Ranks rise along every link and go on doing so, except that a split and a
\* new relation hand out a rank without ranking again what follows.
RankOrderKept ==
  [][(Ranked => Ranked') \/ SplitStep \/ RelateStep \/ PutBackStep]_vars

\* In a ranked graph every witness keeps an unbroken base path from start to
\* end, unless a reading is merged with itself: moving witnesses to a copy one
\* by one, splitting, compressing and attaching never leave a gap or a fork.
WitnessesKept ==
  [][(Ranked /\ AllRun => AllRun') \/ \E s \in node : MergeNodes(s, s)]_vars

BaseWitnesses(s, n) == {w \in Sigil : BaseBefore(s, n, w) \cup BaseAfter(s, n, w) # {}}

\* A copy is read by the witnesses that were asked for, and the original goes
\* on being read by all the others.
Separates ==
  LET asked == {l[1] : l \in BaseOf(dup.wits)}
  IN  \A c \in DOMAIN dup.from :
        /\ BaseWitnesses(seq', c) = asked
        /\ BaseWitnesses(seq', dup.from[c]) = BaseWitnesses(seq, dup.from[c]) \ asked

\* What a duplicate commits separates its copies from their originals.
DuplicateSeparates == [][DupCommit => Separates]_vars

\* The lemma text can be read: there is none, or one LEMMA_TEXT link leaves
\* every reading that the start leads to, up to the end.  setLemmaText checks
\* this once; every later edit has to leave the chain in one piece.
LemmaTextReadable ==
  LET read == LemmaPath({l \in lemmaLink : l[1] # End})
  IN  lemmaLink # {} =>
        /\ End \in read
        /\ \A n \in read \ {End} : IsOne({m \in node : <<n, m>> \in lemmaLink})

\* A relation relates two readings of the section: one that a duplicate puts
\* back late finds that its readings may have been merged away meanwhile.
RelationsAttached ==
  \A p \in related : {p.src, p.tgt} \subseteq node \ {Start, End}

LemmaPlaces == \A a, b \in lemma : rank[a] = rank[b] => a = b

\* Two lemmata come to share a place only where a rank is changed under them.
LemmaPlacesKept ==
  [][(LemmaPlaces => LemmaPlaces') \/ RankStep \/ RelateStep \/ PutBackStep]_vars

\* Links lead from a to b, whichever witnesses they belong to: what holds a and
\* is left by no link holds b.
LeadsTo(a, b) ==
  /\ a # b
  /\ \A S \in SUBSET node :
       a \in S /\ (\A l \in DOMAIN seq : l[1] \in S => l[2] \in S) => b \in S

\* Where ranks are in order and there is no lemma text, readings that are newly
\* related do not follow each other, so that they can share a rank: the walk of
\* wouldGetCyclic finds a way between them in whatever order it takes the links,
\* also when a relation is put back on what other requests have made of the graph.
RelatedApart ==
  [][dup = Closed /\ Ranked /\ lemmaLink = {} =>
       \A p \in related' \ related : ~LeadsTo(p.src, p.tgt) /\ ~LeadsTo(p.tgt, p.src)]_vars

=============================================================================
