---------------------------- MODULE MCEdgeRuntime ----------------------------
(* TLC instance of EdgeRuntime: one sensor, two events. *)
EXTENDS EdgeRuntime, TLC

CONSTANTS e1, e2
MCEvent == {e1, e2}
MCSize == (e1 :> 1) @@ (e2 :> 2)
==============================================================================
