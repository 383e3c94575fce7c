---------------------------- MODULE MCBatchPool ----------------------------
(* Module BatchPool on a small instance. *)
EXTENDS BatchPool, TLC

CONSTANTS i1, i2, i3, l1, l2, l3

MCSymmetry == Permutations(Items)
=============================================================================
