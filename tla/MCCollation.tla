----------------------------- MODULE MCCollation -----------------------------
(***************************************************************************)
(* Small collations for TLC: what a parser leaves behind, and the requests *)
(* that a run looks at.                                                    *)
(***************************************************************************)
EXTENDS CollationText

CONSTANTS x, y, z,  \* readings of the initial collations
          A, B,     \* witnesses
          ac, tr    \* a layer class, a relation type


\* Nodes that a request may create are all alike.
Fresh == Permutations(Reading \ {Start, End, x, y, z})

Frame(r) == (Start :> 0) @@ r
Texts(t) == (Start :> <<"#START#">>) @@ (End :> <<"#END#">>) @@ t

\* Both witnesses share a reading of two words; one has a layer without y.
Shared ==
  [node |-> {Start, x, y, End},
   seq  |-> (<<Start, x>> :> {<<A, Base>>, <<B, Base>>})
         @@ (<<x, y>>     :> {<<A, Base>>, <<B, Base>>})
         @@ (<<y, End>>   :> {<<A, Base>>, <<B, Base>>})
         @@ (<<x, End>>   :> {<<A, ac>>}),
   rank |-> Frame((x :> 1) @@ (y :> 2) @@ (End :> 3)),
   text |-> Texts((x :> <<"u", "v">>) @@ (y :> <<"u">>)),
   related |-> {}]

\* The witnesses differ in x and y; a layer of B agrees with A.
Variant ==
  [node |-> {Start, x, y, z, End},
   seq  |-> (<<Start, x>> :> {<<A, Base>>, <<B, ac>>})
         @@ (<<Start, y>> :> {<<B, Base>>})
         @@ (<<x, z>>     :> {<<A, Base>>, <<B, ac>>})
         @@ (<<z, End>>   :> {<<A, Base>>, <<B, ac>>})
         @@ (<<y, End>>   :> {<<B, Base>>}),
   rank |-> Frame((x :> 1) @@ (y :> 1) @@ (z :> 2) @@ (End :> 3)),
   text |-> Texts((x :> <<"u", "v">>) @@ (y :> <<"u", "v">>) @@ (z :> <<"v">>)),
   related |-> {}]

\* A word transposed around z, which the witnesses share.
Transposed ==
  [node |-> {Start, x, y, z, End},
   seq  |-> (<<Start, x>> :> {<<A, Base>>})
         @@ (<<x, z>>     :> {<<A, Base>>})
         @@ (<<Start, z>> :> {<<B, Base>>})
         @@ (<<z, End>>   :> {<<A, Base>>})
         @@ (<<z, y>>     :> {<<B, Base>>})
         @@ (<<y, End>>   :> {<<B, Base>>}),
   rank |-> Frame((x :> 1) @@ (y :> 3) @@ (z :> 2) @@ (End :> 4)),
   text |-> Texts((x :> <<"u">>) @@ (y :> <<"u">>) @@ (z :> <<"v">>)),
   related |-> {[src |-> x, tgt |-> y, type |-> tr, coloc |-> FALSE]}]

\* Two witnesses have the same layer, and share what it leaves out.
TwoLayers ==
  [Shared EXCEPT !.seq[<<x, End>>] = {<<A, ac>>, <<B, ac>>}]

MCShared     == {Shared}
MCVariant    == {Variant}
MCBoth       == {Shared, Variant}
MCLayered    == {Shared, Variant, TwoLayers}
MCTransposed == {Transposed}

CONSTANT MaxEdits  \* bound on the requests of a behaviour

VARIABLE edits  \* how many there have been

Edit(Step) == edits < MaxEdits /\ edits' = edits + 1 /\ Step
Begin   == Init /\ edits = 0
all      == <<vars, edits>>

\* Only the first step of a duplicate request counts.
DuplicateEdit ==
  \/ dup = Closed /\ Edit(DuplicateStep)
  \/ dup # Closed /\ UNCHANGED edits /\ DuplicateStep

\* The requests of a run.
NextSequence == DuplicateEdit \/ Edit(SplitStep) \/ Edit(CompressStep)
NextEdit     == Edit(SplitStep) \/ Edit(CompressStep) \/ Edit(MergeStep) \/ Edit(RankStep)
NextLemma    == NextEdit \/ Edit(LemmaStep)
NextRelation ==
  \/ DuplicateEdit \/ Edit(RelationStep) \/ Edit(LemmaStep) \/ NextEdit
  \/ UNCHANGED edits /\ (LookUpStep \/ PutBackStep \/ Crash)

SpecSequence == Begin /\ [][NextSequence]_all
SpecEdit     == Begin /\ [][NextEdit]_all
SpecLemma    == Begin /\ [][NextLemma]_all
SpecRelation == Begin /\ [][NextRelation]_all

=============================================================================
