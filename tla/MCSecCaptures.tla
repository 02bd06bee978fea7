---------------------------- MODULE MCSecCaptures ----------------------------
(* SecCaptures on two bodies of one and two bytes and two inodes.            *)
EXTENDS SecCaptures, TLC
CONSTANTS o1, o2
MCSize == (o1 :> 1) @@ (o2 :> 2)
Symmetry == Permutations(Stages) \cup Permutations(Writers)
=============================================================================
