----------------------------- MODULE MCTeardown -----------------------------
(* Module Teardown on a small instance. *)
EXTENDS Teardown, TLC

CONSTANTS w1, w2, w3, t1, t2

MCSymmetry == Permutations(Workers) \cup Permutations(Tasks)
=============================================================================
