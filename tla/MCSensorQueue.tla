---------------------------- MODULE MCSensorQueue ----------------------------
(***************************************************************************)
(* TLC instance of SensorQueue.                                            *)
(***************************************************************************)
EXTENDS SensorQueue, TLC

CONSTANTS e1, e2, e3, e4, e5
MCEvent == {e1, e2, e3, e4, e5}
\* Three short payloads reach MaxEvents, e4 leaves room for one of them, and
\* e5 is longer than the whole queue.
MCSize == (e1 :> 1) @@ (e2 :> 1) @@ (e3 :> 1) @@ (e4 :> 3) @@ (e5 :> 5)
Symmetry == Permutations(Replayer) \cup Permutations({e1, e2, e3})
==============================================================================
