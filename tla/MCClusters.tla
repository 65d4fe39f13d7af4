----------------------------- MODULE MCClusters -----------------------------
(***************************************************************************)
(* Two sections of two readings each for TLC.                              *)
(***************************************************************************)
EXTENDS ClustersProps, TLC

CONSTANTS r1, r2, r3, r4, s1, s2

MCReading == {r1, r2, r3, r4}
MCSection == {s1, s2}
MCHome == [x \in MCReading |-> IF x \in {r1, r2} THEN s1 ELSE s2]

Alike == Permutations(Client)

=============================================================================
