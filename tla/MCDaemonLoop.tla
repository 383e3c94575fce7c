---------------------------- MODULE MCDaemonLoop ----------------------------
(***************************************************************************)
(* Instances of DaemonLoop for TLC: a cancel of the first item, and a      *)
(* browser command that keeps a poll waiting while others come in.         *)
(***************************************************************************)
EXTENDS DaemonLoop, TLC

CONSTANTS i1, i2, cancel, refresh, drain

MCItems == {i1, i2}
MCCommands == {cancel, refresh, drain}
MCKind == cancel :> "cancel_task" @@ refresh :> "refresh_browser" @@ drain :> "drain_worker"
MCTarget == cancel :> i1 @@ refresh :> None @@ drain :> None
=============================================================================
