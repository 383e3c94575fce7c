--------------------------- MODULE MCDependencies ---------------------------
(***************************************************************************)
(* Instances of Dependencies for TLC.                                      *)
(***************************************************************************)
EXTENDS Dependencies, TLC

MCChildSymmetry == Permutations(Children)
=============================================================================
