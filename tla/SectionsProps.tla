--------------------------- MODULE SectionsProps ---------------------------
(***************************************************************************)
(* When the NEXT links of a tradition are the list of its sections.        *)
(***************************************************************************)
EXTENDS Sections

-----------------------------------------------------------------------------
(* Which requests run beside each other.                                   *)

\* A transaction is going to move s behind the section it follows already.
StaysBehind(c, s) == \E p \in Into(next, s) : OrderAfter(c, s, p[1])

\* A request that asks for a change: no section is moved where it is.
Moves(c) == Move(c) /\ ~ \E s \in Section : StaysBehind(c, s)

NextInOrder == \E c \in Client : AddSection(c) \/ Moves(c) \/ Drop(c) \/ Proceed(c)
SpecInOrder == Init /\ [][NextInOrder]_vars

\* What the transactions of the other clients are.
Beside(c, Kind(_)) == \A d \in Client \ {c} : req[d] # Idle => Kind(req[d])
Merging(r)  == r.heir # None
Dropping(r) == r.old # {}

\* Uploads and moves run beside merges only, deletions beside deletions too.
NextBeside ==
  \E c \in Client :
    \/ Beside(c, Merging) /\ (AddSection(c) \/ Moves(c))
    \/ Beside(c, Dropping) /\ \E s \in Section : DeleteSection(c, s)
    \/ \E s \in Section : MergeSections(c, s)
    \/ Proceed(c)
SpecBeside == Init /\ [][NextBeside]_vars

-----------------------------------------------------------------------------
\* The links are one chain through all sections, without a second link
\* anywhere: every reader of the tradition finds the same list, and every
\* section can be taken out of it.
InOrder ==
  \E q \in Listings :
    LET links == {<<q[i], q[i + 1]>> : i \in 1 .. Cardinality(section) - 1}
    IN  \A p \in Place : next[p] = IF p \in links THEN 1 ELSE 0

TheList == IF Listings = {} THEN <<None>> ELSE CHOOSE q \in Listings : TRUE

\* Read through produceSectionList, the requests are those of a plain list:
\* an upload goes last, a move puts one section where it was asked to go, a
\* deletion or a merge takes one section out.
AsList == INSTANCE SectionList WITH list <- TheList
ImplementsList == AsList!Spec

\* Deletions and merges of several clients, or merges beside one upload or one
\* move: whatever they read before the others committed, the order stays one
\* chain.
OrderKept == [][InOrder => InOrder']_vars

=============================================================================
