----------------------------- MODULE SensorQueue -----------------------------
(***************************************************************************)
(* The durable queue of an edge sensor: class DurableSensorQueue of        *)
(* agents/durable_queue.py.                                                *)
(*                                                                         *)
(* The SQLite file survives a crash: the table `events' is the set rows,   *)
(* the counters that two triggers keep in queue_meta are the record meta,  *)
(* and lastSeq is the high-water mark of the AUTOINCREMENT column.  Every  *)
(* method runs under the queue's lock and in one transaction, so each is   *)
(* one action.  replay() is not: it gives the lock back after peek(), calls*)
(* the sender without it and takes it again in acknowledge(), so it is a   *)
(* little process per caller (pc, batch, ack) that interleaves with        *)
(* everything else, other replays included.                                *)
(*                                                                         *)
(* The sender is code the repository does not contain (a callable handed to*)
(* replay()).  It is modelled from the contract replay() relies on: it     *)
(* delivers the batch in order, as far as the sequence number it returns;  *)
(* it may also raise after delivering any prefix (a lost answer), or       *)
(* return a number outside the batch.                                      *)
(***************************************************************************)
EXTENDS Integers, FiniteSets, FiniteSetsExt

CONSTANTS
  Event,        \* event_ids of the SignalEvents offered to the queue
  Size,         \* Size[e]: length of the canonical payload of e
  Replayer,     \* callers of replay() that may run at the same time
  MaxEvents,    \* max_events
  MaxBytes,     \* max_bytes
  Retention,    \* retention_seconds
  BatchSize,    \* batch_size of replay()
  LockWait,     \* longest wait for the lock between time.time() and the insert
  SeqBound,     \* bound: sequence numbers a behaviour hands out
  TimeBound     \* bound: last reading of the wall clock

ASSUME QueueAssumption ==
  /\ MaxEvents \in Nat \ {0} /\ MaxBytes \in Nat \ {0} /\ Retention \in Nat \ {0}
  /\ BatchSize \in Nat \ {0} /\ LockWait \in Nat
  /\ SeqBound \in Nat /\ TimeBound \in Nat
  /\ Size \in [Event -> Nat]

VARIABLES
  rows,         \* table events
  meta,         \* table queue_meta: event_count, payload_bytes
  lastSeq,      \* highest seq AUTOINCREMENT ever handed out
  now,          \* time.time()
  pc,           \* where each replay() stands
  batch,        \* the batch a replay() is sending
  ack,          \* what its sender returned
  delivered     \* history: the rows the control plane has received

store == <<rows, meta, lastSeq>>
callers == <<pc, batch, ack>>
vars == <<rows, meta, lastSeq, now, pc, batch, ack, delivered>>

Row == [seq : 1..SeqBound, id : Event, at : 0..TimeBound]

TypeOK ==
  /\ rows \in SUBSET Row /\ delivered \in SUBSET Row
  /\ meta.event_count \in Nat
  /\ lastSeq \in 0..SeqBound
  /\ now \in 0..TimeBound
  /\ pc \in [Replayer -> {"idle", "peeking", "sending", "acking"}]
  /\ batch \in [Replayer -> SUBSET Row]
  /\ ack \in [Replayer -> 0..SeqBound]

-----------------------------------------------------------------------------
\* _payload and the length of a set of payloads
Bytes(S) == MapThenSumSet(LAMBDA x : Size[x.id], S)

Init ==
  /\ rows = {}
  /\ meta = [event_count |-> 0, payload_bytes |-> 0]
  /\ lastSeq = 0
  /\ now = 0
  /\ pc = [r \in Replayer |-> "idle"]
  /\ batch = [r \in Replayer |-> {}]
  /\ ack = [r \in Replayer |-> 0]
  /\ delivered = {}

\* Mutant: a delete trigger that fires once per statement instead of once per row.
AfterDeletePerStatement(m, S) ==
  [event_count   |-> m.event_count - (IF S = {} THEN 0 ELSE 1),
   payload_bytes |-> m.payload_bytes - Bytes(S)]

\* trg_queue_meta_insert, trg_queue_meta_delete
AfterInsert(m, x) == [event_count   |-> m.event_count + 1,
                      payload_bytes |-> m.payload_bytes + Size[x.id]]
AfterDelete(m, S) == [event_count   |-> m.event_count - Cardinality(S),
                      payload_bytes |-> m.payload_bytes - Bytes(S)]

\* The test enqueue makes before and after the eviction.
NoRoom(m, e) == \/ m.event_count >= MaxEvents
                \/ m.payload_bytes + Size[e] > MaxBytes

\* What _evict_expired deletes when the clock was read at t.
Expired(t) == {x \in rows : x.at < t - Retention}

\* Mutant: INTEGER PRIMARY KEY without AUTOINCREMENT takes one more than the
\* highest number in the table.
NextRowid == IF rows = {} THEN 1 ELSE 1 + Max({x.seq : x \in rows})

\* INTEGER PRIMARY KEY AUTOINCREMENT: never a number used before.
NextSeq == lastSeq + 1

Insert(e, t, kept, m) ==
  LET x == [seq |-> NextSeq, id |-> e, at |-> t]
  IN  /\ NextSeq <= SeqBound
      /\ rows' = kept \cup {x}
      /\ meta' = AfterInsert(m, x)
      /\ lastSeq' = NextSeq

(***************************************************************************)
(* enqueue(e) with the clock read at t, before the lock was granted; ok is *)
(* the value returned.  Expired rows go only when there is no room, and    *)
(* that deletion is committed even when there still is none afterwards.    *)
(***************************************************************************)
Enqueue(e, t, ok) ==
  LET evicted == IF NoRoom(meta, e) THEN Expired(t) ELSE {}
      m       == AfterDelete(meta, evicted)
  IN  \/ /\ \E x \in rows : x.id = e
         /\ ok = TRUE
         /\ UNCHANGED store
      \/ /\ \A x \in rows : x.id # e
         /\ Size[e] > MaxBytes
         /\ ok = FALSE
         /\ UNCHANGED store
      \/ /\ \A x \in rows : x.id # e
         /\ Size[e] <= MaxBytes
         /\ NoRoom(m, e)
         /\ ok = FALSE
         /\ rows' = rows \ evicted
         /\ meta' = m
         /\ UNCHANGED lastSeq
      \/ /\ \A x \in rows : x.id # e
         /\ Size[e] <= MaxBytes
         /\ ~ NoRoom(m, e)
         /\ ok = TRUE
         /\ Insert(e, t, rows \ evicted, m)

ClockReading == {t \in 0..TimeBound : now - LockWait <= t /\ t <= now}

Offer == /\ \E e \in Event, t \in ClockReading, ok \in BOOLEAN : Enqueue(e, t, ok)
         /\ UNCHANGED <<now, callers, delivered>>

-----------------------------------------------------------------------------
\* Mutant: ORDER BY seq DESC.
Highest == {x \in rows : Cardinality({y \in rows : y.seq > x.seq}) < BatchSize}

\* peek(BatchSize): the rows with the lowest sequence numbers.
Lowest == {x \in rows : Cardinality({y \in rows : y.seq < x.seq}) < BatchSize}

StartReplay(r) ==
  /\ pc[r] = "idle"
  /\ pc' = [pc EXCEPT ![r] = "peeking"]
  /\ UNCHANGED <<store, now, batch, ack, delivered>>

Peek(r) ==
  /\ pc[r] = "peeking"
  /\ pc' = [pc EXCEPT ![r] = IF Lowest = {} THEN "idle" ELSE "sending"]
  /\ batch' = [batch EXCEPT ![r] = Lowest]
  /\ UNCHANGED <<store, now, ack, delivered>>

\* replay() returns or raises: its local variables are gone.
Leave(r) == /\ pc' = [pc EXCEPT ![r] = "idle"]
            /\ batch' = [batch EXCEPT ![r] = {}]
            /\ ack' = [ack EXCEPT ![r] = 0]

Through(r, a) == {x \in batch[r] : x.seq <= a}

\* not (ack < batch[0][0] or ack > batch[-1][0])
ValidAck(r, a) == /\ \E x \in batch[r] : x.seq <= a
                  /\ \E x \in batch[r] : a <= x.seq

\* sender(batch) delivers as far as a and returns a.
SenderAcks(r, a) ==
  /\ pc[r] = "sending"
  /\ ValidAck(r, a)
  /\ delivered' = delivered \cup Through(r, a)
  /\ pc' = [pc EXCEPT ![r] = "acking"]
  /\ ack' = [ack EXCEPT ![r] = a]
  /\ UNCHANGED <<store, now, batch>>

\* The number returned is not one of the batch's: ValueError.
SenderMisacks(r, a) ==
  /\ pc[r] = "sending"
  /\ ~ ValidAck(r, a)
  /\ delivered' = delivered \cup Through(r, a)
  /\ Leave(r)
  /\ UNCHANGED <<store, now>>

\* sender(batch) raises, with the answer lost or the connection broken.
SenderRaises(r, a) ==
  /\ pc[r] = "sending"
  /\ delivered' = delivered \cup Through(r, a)
  /\ Leave(r)
  /\ UNCHANGED <<store, now>>

\* acknowledge(ack) and the loop's last test.
Acknowledge(r) ==
  LET gone == {x \in rows : x.seq <= ack[r]}
  IN  /\ pc[r] = "acking"
      /\ rows' = rows \ gone
      /\ meta' = AfterDelete(meta, gone)
      /\ IF \E x \in batch[r] : ack[r] < x.seq
           THEN Leave(r)
           ELSE /\ pc' = [pc EXCEPT ![r] = "peeking"]
                /\ batch' = [batch EXCEPT ![r] = {}]
                /\ ack' = [ack EXCEPT ![r] = 0]
      /\ UNCHANGED <<lastSeq, now, delivered>>

ReplayStep(r) == \/ Peek(r)
                 \/ \E a \in 0..SeqBound : \/ SenderAcks(r, a)
                                           \/ SenderMisacks(r, a)
                                           \/ SenderRaises(r, a)
                 \/ Acknowledge(r)

\* The process dies; SQLite rolls an open transaction back and keeps the rest.
Crash ==
  /\ pc' = [r \in Replayer |-> "idle"]
  /\ batch' = [r \in Replayer |-> {}]
  /\ ack' = [r \in Replayer |-> 0]
  /\ UNCHANGED <<store, now, delivered>>

Tick == /\ now < TimeBound
        /\ now' = now + 1
        /\ UNCHANGED <<store, callers, delivered>>

Next == \/ Offer
        \/ \E r \in Replayer : StartReplay(r) \/ ReplayStep(r)
        \/ Crash
        \/ Tick

Spec == Init /\ [][Next]_vars

-----------------------------------------------------------------------------
(***************************************************************************)
(* docs/SENSOR_RUNTIME.md: "Unexpired evidence is never silently evicted"  *)
(* and events remain "until they can be acknowledged by the sender".  A row*)
(* leaves the table only if the control plane has it or it is older than   *)
(* the retention period, whatever replays, crashes and evictions overlap.  *)
(***************************************************************************)
NeverDropsUnsent ==
  [][\A x \in rows \ rows' : x \in delivered \/ x.at < now - Retention]_vars

(***************************************************************************)
(* "FIFO sequence numbers": an event first reaches the control plane only  *)
(* together with, or after, every older event still in the queue, although *)
(* several replays may be sending overlapping batches.                     *)
(***************************************************************************)
DeliversInOrder ==
  [][\A d \in delivered' \ delivered : \A x \in rows : x.seq < d.seq => x \in delivered']_vars

(***************************************************************************)
(* The O(1) counter of queue_meta agrees with the table, so the bound that *)
(* enqueue checks against it bounds the table itself.                      *)
(***************************************************************************)
CountBounded ==
  /\ meta.event_count = Cardinality(rows)
  /\ Cardinality(rows) <= MaxEvents
==============================================================================
