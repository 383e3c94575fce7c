----------------------------- MODULE MCDuoQueue -----------------------------
(***************************************************************************)
(* Instances of DuoQueue for TLC.                                          *)
(***************************************************************************)
EXTENDS DuoQueue
=============================================================================
