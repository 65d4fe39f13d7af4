---------------------------- MODULE MCAnnotations ----------------------------
(***************************************************************************)
(* A few annotations for TLC.                                              *)
(***************************************************************************)
EXTENDS AnnotationsWalk, TLC

CONSTANT note

\* Readings may be annotated, and annotations of one of the labels.
MCLinkset == {{Reading, note}}

Alike == Permutations(Anno) \cup Permutations(Client)

=============================================================================
