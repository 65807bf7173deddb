---------------------------- MODULE MCOpenunlink ----------------------------
(* Instances of Openunlink for TLC. *)
EXTENDS Openunlink, TLC

Symmetry == Permutations(Inodes)
=============================================================================
