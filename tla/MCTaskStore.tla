---------------------------- MODULE MCTaskStore ----------------------------
(* Instances of the task store for TLC.  The store treats workers alike, and *)
(* every property checked on it is a safety property, so the workers may be  *)
(* permuted.                                                                 *)
EXTENDS StoreLifecycle, TLC

MCWorkerSymmetry == Permutations(Workers)
=============================================================================
