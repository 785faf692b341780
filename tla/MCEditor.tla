------------------------------ MODULE MCEditor ------------------------------
(***************************************************************************)
(* Editor for TLC: the player uses two tiles of the map, and the types of  *)
(* objects are interchangeable.                                            *)
(***************************************************************************)
EXTENDS Editor, TLC

Corners == {<<0, 0>>, <<0, 1>>}

Symmetry == Permutations(Objects)
=============================================================================
