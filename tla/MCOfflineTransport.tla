-------------------------- MODULE MCOfflineTransport --------------------------
(* TLC instance of OfflineTransport: one sensor, a long event and short ones. *)
EXTENDS OfflineTransport, TLC

CONSTANTS e1, e2, e3
MCEvent == {e1, e2, e3}
MCSize == (e1 :> 2) @@ (e2 :> 1) @@ (e3 :> 1)
MCKeyOf == [e \in MCEvent |-> sensor]
Symmetry == Permutations(BatchId)
==============================================================================
