----------------------------- MODULE MCJsonlLock -----------------------------
(***************************************************************************)
(* Instances of JsonlLock for TLC.                                         *)
(***************************************************************************)
EXTENDS JsonlLock
=============================================================================
