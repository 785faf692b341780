------------------------------- MODULE MCSpsc -------------------------------
(* Instances of Spsc for TLC. *)
EXTENDS Spsc, TLC

CONSTANTS n1, n2, n3, main, net

MCNodes == {n1, n2, n3}
NodeSymmetry == Permutations(MCNodes)
=============================================================================
