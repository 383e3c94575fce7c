------------------------------ MODULE MCRowLog ------------------------------
(***************************************************************************)
(* Instances of RowLog for TLC.                                            *)
(***************************************************************************)
EXTENDS RowLog

MCSymmetry == Permutations(Writers) \cup Permutations(Runs)
=============================================================================
