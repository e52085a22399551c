--------------------------- MODULE MCOfflineParts ----------------------------
(***************************************************************************)
(* TLC instance of the parts of the offline transport, each by itself and  *)
(* under every call: the initial state picks the part that moves, so the   *)
(* state space is the sum of theirs.                                       *)
(***************************************************************************)
EXTENDS OfflineQueue, Transmitter, ReplayLedger

CONSTANTS a1, a2, a3, b1, ka, kb
MCEvent == {a1, a2, a3, b1}
MCKey == {ka, kb}
MCKeyOf == (a1 :> ka) @@ (a2 :> ka) @@ (a3 :> ka) @@ (b1 :> kb)
\* a1, a2, a3 fit together, b1 with one of them: two rows go for it, one stays.
MCSize == (a1 :> 1) @@ (a2 :> 1) @@ (a3 :> 1) @@ (b1 :> 3)
Symmetry == Permutations(BatchId) \cup Permutations({a1, a2, a3})

VARIABLE part

\* While another part moves, the bucket waits for a time that does not come.
PartsInit == /\ part \in {"queue", "bucket", "ledger"}
             /\ QueueInit /\ EmptyLedger
             /\ IF part = "bucket" THEN BucketInit
                ELSE tokens = 0 /\ spent = 0 /\ last = TimeBound + 1

QueueMoves == part = "queue" /\ QueueNext /\ UNCHANGED <<part, bucketVars, ledgerVars>>
BucketMoves == part = "bucket" /\ BucketNext /\ UNCHANGED <<part, store, ledgerVars>>
LedgerMoves == part = "ledger" /\ LedgerNext /\ UNCHANGED <<part, queueVars, bucketVars>>

PartsNext == QueueMoves \/ BucketMoves \/ LedgerMoves

PartsSpec == PartsInit /\ [][PartsNext]_<<part, queueVars, bucketVars, ledgerVars>>
==============================================================================
