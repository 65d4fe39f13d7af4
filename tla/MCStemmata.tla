----------------------------- MODULE MCStemmata -----------------------------
(***************************************************************************)
(* A few stemmata for TLC: A and B are extant, h is not attested.          *)
(***************************************************************************)
EXTENDS StemmataProps, TLC

CONSTANTS A, B, h

Dot(ext, hyp, un, edges, directed) ==
  [class |-> [s \in ext \cup hyp \cup un |->
                IF s \in ext THEN "extant" ELSE IF s \in hyp THEN "hypothetical" ELSE "unmarked"],
   edges |-> edges, directed |-> directed]

Chain    == Dot({A, B}, {h}, {}, {<<h, A>>, <<A, B>>}, TRUE)
Mixed    == Dot({A, B}, {h}, {}, {<<A, h>>, <<B, h>>, <<A, B>>}, TRUE)
Rootless == Dot({A, B}, {}, {}, {<<A, B>>}, FALSE)
TwoTops  == Dot({A, B}, {h}, {}, {<<A, h>>, <<B, h>>}, TRUE)
Wrong    == Dot({B}, {A}, {}, {<<A, B>>}, TRUE)
Unmarked == Dot({A}, {}, {h}, {<<h, A>>}, TRUE)
Circle   == Dot({A, B}, {h}, {}, {<<h, B>>, <<B, h>>}, TRUE)

MCGraph == {Chain, Mixed, Rootless, TwoTops, Circle, Wrong, Unmarked}

\* Nobody asks for a stemma to be deleted.
NextReplace == \E c \in Client : Send(c) \/ Import(c) \/ Commit(c) \/ Abort(c)
SpecReplace == Init /\ [][NextReplace]_vars

Alike == Permutations(Name) \cup Permutations(Id) \cup Permutations(Client)

=============================================================================
