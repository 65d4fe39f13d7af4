---------------------------- MODULE CollationText ----------------------------
(***************************************************************************)
(* The text of a witness is what its path spells.  Editing the collation   *)
(* changes how the text is divided and aligned, never what a witness says. *)
(***************************************************************************)
EXTENDS CollationProps, SequencesExt

\* The readings met from the start on, for the base text or for a layer: as long
\* as there is one way to go on.
WalkOf(s, N, lab) ==
  LET further == [q \in Seq(N) |->
        LET next == NextOf(s, Last(q), lab)
        IN  IF Last(q) # End /\ IsOne(next) THEN Append(q, CHOOSE m \in next : TRUE) ELSE q]
      walk[k \in 0 .. Cardinality(N)] == IF k = 0 THEN <<Start>> ELSE further[walk[k - 1]]
  IN  walk[Cardinality(N)]

Arrives(lab) == Last(WalkOf(seq, node, lab)) = End

\* What a list of readings says.
Spelled == [q \in Seq(node) |-> FlattenSeq([i \in DOMAIN q |-> text[q[i]]])]
TextOf(lab) == Spelled[WalkOf(seq, node, lab)]

\* What the witnesses of a set of labels say is still said, by each of them.
StillSay(labs) ==
  \/ UNCHANGED <<seq, text>>
  \/ \A lab \in labs : Arrives(lab) => Arrives(lab)' /\ TextOf(lab)' = TextOf(lab)

\* Duplicating, splitting and compressing keep the base text of every witness,
\* except that a split by a regular expression at an index takes words out.
BaseTextKept ==
  [][StillSay(Sigil \X {Base}) \/ MergeStep \/ SplitShort]_vars

\* "Note that this operation should not change the text of any witness!", a
\* comment says of splitReading.
SplitKeepsText == [][SplitStep => StillSay(Sigil \X {Base})]_vars

\* The base text of another witness is moved that has the same layer: where that
\* layer is given a link of its own, its sigil replaces those that are there.
Overwritten(lab) ==
  \E v \in Sigil \ {lab[1]} :
    dup # Closed /\ <<v, Base>> \in dup.wits /\ \E p \in DOMAIN seq : <<v, lab[2]>> \in seq[p]

\* The same for the layers: a layer that follows the base text of its witness
\* for a while is given links of its own where the base text is moved away.
LayerTextKept ==
  [][StillSay({lab \in Sigil \X Layer : ~Overwritten(lab)}) \/ MergeStep \/ SplitShort]_vars

\* Attaching one reading to another keeps the base texts too where the ranks
\* are in order, unless a reading without text is filled by the merge.
MergeKeepsText ==
  [][\A s, t \in node :
       (MergeNodes(s, t) /\ s # t /\ Ranked /\ text[s] = text[t]) =>
         StillSay(Sigil \X {Base})]_vars

=============================================================================
