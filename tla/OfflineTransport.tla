--------------------------- MODULE OfflineTransport ---------------------------
(***************************************************************************)
(* Store and forward, end to end, for one sensor: the durable queue        *)
(* (OfflineQueue), the paced selection (Transmitter), signed batches       *)
(* (core/transport_batch.py) and the receiver's ledger (ReplayLedger).     *)
(*                                                                         *)
(* The repository has no loop that calls them in turn: the sender here is  *)
(* the caller docs/PHASE_2_OFFLINE_EVIDENCE.md describes.  It keeps a batch*)
(* until it is answered, repeats it as often as it likes, and acknowledges *)
(* to the queue what the answers in AckOn cover.  The network loses,       *)
(* repeats, delays and reorders batches and answers.  A crash of the sensor*)
(* forgets the batch, the bucket and acknowledgements not yet made.        *)
(***************************************************************************)
EXTENDS OfflineQueue, Transmitter, ReplayLedger

CONSTANTS
  sensor,          \* the key of this sensor
  AckOn            \* answers the sender takes for a delivery

ASSUME SensorAssumption == Key = {sensor}

\* What a "successful transport acknowledgement" can be: "replay", "gap" and a
\* ValueError do not say that the ledger has the batch.
ASSUME AckAssumption == AckOn \subseteq {"accepted", "duplicate"}

VARIABLES
  pending,         \* the batch the sender waits on, or <<>>
  toAck,           \* digests acknowledge() has still to delete
  sent,            \* batches the network may deliver
  dropped          \* history: rows evicted or expired

senderVars == <<pending, toAck>>
vars == <<queueVars, bucketVars, ledgerVars, senderVars, sent, dropped>>

Shipment == [id : BatchId, rows : SUBSET Row]

TypeOK == /\ QueueTypeOK /\ BucketTypeOK
          /\ batches \in SUBSET Batch /\ cursor \in [Key -> 0..SeqBound]
          /\ pending = <<>> \/ pending \in Shipment
          /\ toAck \subseteq Event /\ sent \in SUBSET Shipment
          /\ dropped \subseteq issued

Init == /\ QueueInit /\ BucketInit /\ EmptyLedger
        /\ pending = <<>> /\ toAck = {} /\ sent = {} /\ dropped = {}

-----------------------------------------------------------------------------
\* enqueue() and expire(): what they delete is dropped by policy.
Capture == /\ Enqueue \/ Expire
           /\ dropped' = dropped \cup (rows \ rows')
           /\ UNCHANGED <<bucketVars, ledgerVars, senderVars, sent>>

Pass == /\ Tick
        /\ UNCHANGED <<dropped, bucketVars, ledgerVars, senderVars, sent>>

\* peek(limit, tenant_id, sensor_id), in the order of the query.
Peeked(limit) ==
  LET inOrder == SetToSortSeq(Peek(sensor, limit), LAMBDA x, y : x.seq < y.seq)
  IN  [i \in 1..Len(inOrder) |-> [row |-> inOrder[i], size |-> Size[inOrder[i].id]]]

(***************************************************************************)
(* peek, select and sign_batch, which refuses an empty batch.  The id is   *)
(* one nobody has seen.                                                    *)
(***************************************************************************)
Prepare ==
  /\ pending = <<>> /\ toAck = {}
  /\ \E limit \in 1..BatchEvents, id \in BatchId \ {b.id : b \in sent} :
       LET selected == Select(Peeked(limit), Allowance).selected
           chosen == {x \in Peek(sensor, limit) : \E i \in DOMAIN selected : selected[i].row = x}
       IN  /\ Take(Peeked(limit))
           /\ pending' = IF chosen = {} THEN <<>> ELSE [id |-> id, rows |-> chosen]
  /\ UNCHANGED <<queueVars, ledgerVars, toAck, sent, dropped>>

Transmit == /\ pending # <<>>
            /\ sent' = sent \cup {pending}
            /\ UNCHANGED <<queueVars, bucketVars, ledgerVars, senderVars, dropped>>

\* first_sequence, last_sequence, and what the envelope says of them.
Numbers(b) == {x.seq : x \in b.rows}
Envelope(b) == [id |-> b.id, key |-> sensor, first |-> Min(Numbers(b)), last |-> Max(Numbers(b))]

\* The check an intact batch can fail: sequences != list(range(first, last + 1)).
Contiguous(b) == Numbers(b) = Envelope(b).first..Envelope(b).last

\* verify_and_accept_batch: a ValueError never reaches the ledger.
Receive ==
  \E b \in sent :
    /\ \/ Contiguous(b) /\ Request(Envelope(b))
       \/ ~ Contiguous(b) /\ answer' = <<Envelope(b), "rejected">> /\ UNCHANGED <<batches, cursor>>
    /\ UNCHANGED <<queueVars, bucketVars, senderVars, sent, dropped>>

\* Mutant: every answer about the batch ends the wait with acknowledge().
DeliveredWhenAnswered(result) == TRUE

Delivered(result) == result \in AckOn

\* An answer for the batch the sender waits on; one for another is ignored.
Answered ==
  /\ pending # <<>> /\ answer # <<>>
  /\ answer[1].id = pending.id
  /\ pending' = <<>>
  /\ toAck' = IF Delivered(answer[2]) THEN {x.id : x \in pending.rows} ELSE {}
  /\ UNCHANGED <<queueVars, bucketVars, ledgerVars, sent, dropped>>

\* acknowledge(): each DELETE commits by itself.
Acknowledge == \E e \in toAck :
                 /\ AcknowledgeOne(e)
                 /\ toAck' = toAck \ {e}
                 /\ UNCHANGED <<bucketVars, ledgerVars, pending, sent, dropped>>

\* The sensor restarts: a full bucket, and nothing under way.
Crash == /\ pending' = <<>> /\ toAck' = {}
         /\ tokens' = BurstBytes /\ last' = now /\ spent' = 0
         /\ UNCHANGED <<queueVars, ledgerVars, sent, dropped>>

Next == \/ Capture \/ Pass
        \/ Prepare \/ Transmit \/ Receive \/ Answered \/ Acknowledge
        \/ Crash

Spec == Init /\ [][Next]_vars

-----------------------------------------------------------------------------
(***************************************************************************)
(* "Consumes no queue state until the caller receives a successful         *)
(* transport acknowledgement": an event that was queued is still queued,   *)
(* or was ingested, or was evicted or expired by policy, and what the      *)
(* ledger counts as ingested was carried, number by number, by the batch it*)
(* recorded.  No loss, duplication or reordering of messages and no crash  *)
(* makes it otherwise.                                                     *)
(***************************************************************************)
NothingLost ==
  /\ \A x \in issued : \/ x \in rows \/ x \in dropped
                       \/ \E y \in issued : y.id = x.id /\ Ingested(sensor, y.seq)
  /\ \A c \in batches : \E b \in sent : b.id = c.id /\ Numbers(b) = c.first..c.last

(***************************************************************************)
(* "Idempotent ingestion": an event is ingested once, however often it is  *)
(* sent.                                                                   *)
(***************************************************************************)
IngestedOnce ==
  \A b, c \in batches : b # c => (b.first..b.last) \cap (c.first..c.last) = {}
==============================================================================
