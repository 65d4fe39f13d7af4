----------------------------- MODULE SectionList -----------------------------
(***************************************************************************)
(* What the section requests promise: a tradition has its sections in one  *)
(* order, and each request changes that order in one place.                *)
(***************************************************************************)
EXTENDS Sequences, SequencesExt

CONSTANT Section
VARIABLE list

Has(s) == s \in ToSet(list)

Init == list = <<>>

\* An upload goes behind all others.
Upload(s) == ~Has(s) /\ list' = Append(list, s)

At(q, s)       == CHOOSE i \in DOMAIN q : q[i] = s
TakenOut(q, s) == RemoveAt(q, At(q, s))

\* A section that is deleted, or merged into the one before it, leaves no gap.
TakeOut(s) == Has(s) /\ list' = TakenOut(list, s)

MoveFirst(s) == Has(s) /\ list' = <<s>> \o TakenOut(list, s)

MoveBehind(s, p) ==
  /\ Has(s) /\ Has(p) /\ s # p
  /\ LET rest == TakenOut(list, s)
     IN  list' = InsertAt(rest, At(rest, p) + 1, s)

Next ==
  \E s \in Section :
    \/ Upload(s) \/ TakeOut(s) \/ MoveFirst(s)
    \/ \E p \in Section : MoveBehind(s, p)

Spec == Init /\ [][Next]_list

=============================================================================
