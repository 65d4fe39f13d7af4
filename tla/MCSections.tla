----------------------------- MODULE MCSections -----------------------------
(***************************************************************************)
(* A few sections for TLC.                                                 *)
(***************************************************************************)
EXTENDS SectionsProps, TLC

Alike == Permutations(Section) \cup Permutations(Client)

=============================================================================
