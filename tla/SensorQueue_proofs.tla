------------------------- MODULE SensorQueue_proofs --------------------------
(***************************************************************************)
(* Proofs about SensorQueue, for any events, payload sizes, limits and any *)
(* number of concurrent replays.                                           *)
(***************************************************************************)
EXTENDS SensorQueue, FiniteSetTheorems, TLAPS

\* AUTOINCREMENT: every number in the table or in a batch has been handed out.
Numbered ==
  /\ \A x \in rows : x.seq <= lastSeq
  /\ \A r \in Replayer : \A x \in batch[r] : x.seq <= lastSeq

\* A batch being sent holds every row still in the table up to its last one.
SendingWhole ==
  \A r \in Replayer : pc[r] = "sending" =>
    \A x \in batch[r], y \in rows : y.seq <= x.seq => y \in batch[r]

\* What acknowledge is about to delete has been delivered.
AckingDelivered ==
  \A r \in Replayer : pc[r] = "acking" =>
    /\ \E x \in batch[r] : ack[r] <= x.seq
    /\ \A y \in rows : y.seq <= ack[r] => y \in delivered

IInv ==
  /\ TypeOK
  /\ IsFiniteSet(rows)
  /\ CountBounded
  /\ Numbered
  /\ SendingWhole
  /\ AckingDelivered

-----------------------------------------------------------------------------
\* Deleting S from the table keeps the row counter exact.
LEMMA DeleteCounts ==
  ASSUME NEW T, IsFiniteSet(T), NEW S \in SUBSET T, NEW m,
         m.event_count = Cardinality(T)
  PROVE  /\ IsFiniteSet(T \ S)
         /\ AfterDelete(m, S).event_count = Cardinality(T \ S)
         /\ Cardinality(T \ S) \in Nat
         /\ Cardinality(T \ S) <= Cardinality(T)
<1>1. IsFiniteSet(T \ S) /\ IsFiniteSet(S)
  BY FS_Subset
<1>2. Cardinality(T \ S) <= Cardinality(T) /\ Cardinality(T \ S) \in Nat
      /\ Cardinality(T) \in Nat /\ Cardinality(S) \in Nat
  BY <1>1, FS_Subset, FS_CardinalityType
<1>3. Cardinality(T \ S) = Cardinality(T) - Cardinality(S)
  <2>1. T \cap S = S
    OBVIOUS
  <2>2. Cardinality(T \ S) = Cardinality(T) - Cardinality(T \cap S)
    BY FS_Difference
  <2>. QED  BY <2>1, <2>2
<1>. QED  BY <1>1, <1>2, <1>3 DEF AfterDelete

\* peek takes a downward-closed part of the table.
LEMMA LowestClosed ==
  ASSUME rows \in SUBSET Row, IsFiniteSet(rows), QueueAssumption,
         NEW x \in Lowest, NEW y \in rows, y.seq <= x.seq
  PROVE  y \in Lowest
<1> DEFINE Below(z) == {w \in rows : w.seq < z.seq}
<1>1. x \in rows /\ Cardinality(Below(x)) < BatchSize
  BY DEF Lowest
<1>2. Below(y) \subseteq Below(x)
  <2> SUFFICES ASSUME NEW w \in rows, w.seq < y.seq
               PROVE  w.seq < x.seq
    OBVIOUS
  <2>1. w.seq \in Int /\ y.seq \in Int /\ x.seq \in Int
    BY <1>1 DEF Row
  <2>. QED  BY <2>1
<1>3. IsFiniteSet(Below(x)) /\ IsFiniteSet(Below(y))
  BY FS_Subset
<1>4. Cardinality(Below(y)) <= Cardinality(Below(x))
  BY <1>2, <1>3, FS_Subset
<1>5. Cardinality(Below(y)) \in Nat /\ Cardinality(Below(x)) \in Nat
  BY <1>3, FS_CardinalityType
<1>6. Cardinality(Below(y)) < BatchSize
  BY <1>1, <1>4, <1>5 DEF QueueAssumption
<1>. QED  BY <1>6 DEF Lowest

-----------------------------------------------------------------------------
\* enqueue keeps the invariant, whichever of its four exits it takes.
LEMMA EnqueueInv ==
  ASSUME IInv, Offer
  PROVE  IInv'
<1>1. PICK e \in Event, t \in ClockReading, ok \in BOOLEAN : Enqueue(e, t, ok)
  BY DEF Offer
<1>2. UNCHANGED <<now, pc, batch, ack, delivered>>
  BY DEF Offer, callers
<1> DEFINE evicted == IF NoRoom(meta, e) THEN Expired(t) ELSE {}
           kept    == rows \ evicted
           m       == AfterDelete(meta, evicted)
           new     == [seq |-> NextSeq, id |-> e, at |-> t]
<1>3. /\ IsFiniteSet(kept) /\ m.event_count = Cardinality(kept)
      /\ Cardinality(kept) \in Nat /\ Cardinality(kept) <= MaxEvents
  <2>1. IsFiniteSet(rows) /\ evicted \in SUBSET rows /\ meta.event_count = Cardinality(rows)
        /\ Cardinality(rows) <= MaxEvents
    BY DEF IInv, CountBounded, Expired
  <2>2. /\ IsFiniteSet(kept) /\ m.event_count = Cardinality(kept)
        /\ Cardinality(kept) \in Nat /\ Cardinality(kept) <= Cardinality(rows)
    BY <2>1, DeleteCounts
  <2>3. Cardinality(rows) \in Nat
    BY <2>1, FS_CardinalityType
  <2>. QED  BY <2>1, <2>2, <2>3, QueueAssumption DEF QueueAssumption
<1>4. CASE UNCHANGED store
  BY <1>2, <1>4 DEF store, IInv, TypeOK, CountBounded, Numbered, SendingWhole, AckingDelivered
<1>5. CASE rows' = kept /\ meta' = m /\ UNCHANGED lastSeq
  <2>1. TypeOK'
    BY <1>2, <1>3, <1>5 DEF IInv, TypeOK
  <2>2. IsFiniteSet(rows)' /\ CountBounded'
    BY <1>3, <1>5 DEF CountBounded
  <2>3. Numbered' /\ SendingWhole' /\ AckingDelivered'
    BY <1>2, <1>5 DEF IInv, Numbered, SendingWhole, AckingDelivered
  <2>. QED  BY <2>1, <2>2, <2>3 DEF IInv
<1>6. CASE ~ NoRoom(m, e) /\ Insert(e, t, kept, m)
  <2>1. /\ NextSeq \in 1..SeqBound /\ rows' = kept \cup {new}
        /\ meta' = AfterInsert(m, new) /\ lastSeq' = NextSeq /\ new \in Row
    BY <1>1, <1>6, QueueAssumption DEF Insert, NextSeq, IInv, TypeOK, ClockReading, Row, QueueAssumption
  <2>2. new \notin kept
    BY DEF IInv, TypeOK, Numbered, NextSeq, Row
  <2>3. /\ IsFiniteSet(rows') /\ Cardinality(rows') = Cardinality(kept) + 1
    BY <1>3, <2>1, <2>2, FS_AddElement
  <2>4. m.event_count < MaxEvents
    BY <1>3, <1>6, QueueAssumption DEF NoRoom, QueueAssumption
  <2>5. CountBounded'
    BY <1>3, <2>1, <2>3, <2>4, QueueAssumption DEF CountBounded, AfterInsert, QueueAssumption
  <2>6. TypeOK'
    BY <1>2, <1>3, <2>1, <2>5, <2>3 DEF IInv, TypeOK, CountBounded
  <2>7. lastSeq \in Int /\ lastSeq' = lastSeq + 1 /\ new.seq = lastSeq + 1
    BY <2>1 DEF NextSeq, IInv, TypeOK
  <2>8. \A x \in rows : x.seq \in Int /\ x.seq <= lastSeq
    BY DEF IInv, TypeOK, Numbered, Row
  <2>9. \A r \in Replayer : \A x \in batch[r] : x.seq \in Int /\ x.seq <= lastSeq
    BY DEF IInv, TypeOK, Numbered, Row
  <2>10. Numbered'
    BY <1>2, <2>1, <2>7, <2>8, <2>9 DEF Numbered
  <2>11. SendingWhole'
    BY <1>2, <2>1, <2>7, <2>8, <2>9 DEF IInv, SendingWhole
  <2>12. \A r \in Replayer : ack[r] \in Int
    BY DEF IInv, TypeOK
  <2>13. AckingDelivered'
    BY <1>2, <2>1, <2>7, <2>8, <2>9, <2>12 DEF IInv, AckingDelivered
  <2>. QED  BY <2>3, <2>5, <2>6, <2>10, <2>11, <2>13 DEF IInv
<1>. QED  BY <1>1, <1>4, <1>5, <1>6 DEF Enqueue

\* So does every step of a replay, of the process and of the clock.
LEMMA ReplayInv ==
  ASSUME IInv, NEW r \in Replayer, StartReplay(r) \/ ReplayStep(r)
  PROVE  IInv'
<1> USE DEF IInv, TypeOK, CountBounded
<1>1. CASE StartReplay(r)
  BY <1>1 DEF StartReplay, store, Numbered, SendingWhole, AckingDelivered
<1>2. CASE Peek(r)
  <2>1. /\ UNCHANGED <<store, now, ack, delivered>>
        /\ pc' = [pc EXCEPT ![r] = IF Lowest = {} THEN "idle" ELSE "sending"]
        /\ batch' = [batch EXCEPT ![r] = Lowest]
    BY <1>2 DEF Peek
  <2>2. Lowest \subseteq rows
    BY DEF Lowest
  <2>3. TypeOK' /\ Numbered'
    BY <2>1, <2>2 DEF store, Numbered
  <2>4. \A x \in Lowest, y \in rows : y.seq <= x.seq => y \in Lowest
    BY LowestClosed, QueueAssumption
  <2>5. SendingWhole'
    BY <2>1, <2>4 DEF store, SendingWhole
  <2>6. AckingDelivered'
    BY <2>1 DEF store, AckingDelivered
  <2>. QED  BY <2>1, <2>3, <2>5, <2>6 DEF store
<1>3. CASE \E a \in 0..SeqBound : SenderAcks(r, a)
  <2>1. PICK a \in 0..SeqBound : SenderAcks(r, a)
    BY <1>3
  <2>2. /\ pc[r] = "sending" /\ UNCHANGED <<store, now, batch>>
        /\ delivered' = delivered \cup Through(r, a)
        /\ pc' = [pc EXCEPT ![r] = "acking"]
        /\ ack' = [ack EXCEPT ![r] = a]
    BY <2>1 DEF SenderAcks
  <2>3. PICK z \in batch[r] : a <= z.seq
    BY <2>1 DEF SenderAcks, ValidAck
  <2>4. TypeOK' /\ Numbered' /\ SendingWhole'
    BY <2>2 DEF store, Through, Numbered, SendingWhole
  <2>5. \A y \in rows : y.seq <= a => y \in delivered'
    <3> SUFFICES ASSUME NEW y \in rows, y.seq <= a
                 PROVE  y \in delivered'
      OBVIOUS
    <3>1. y.seq \in Int /\ z.seq \in Int /\ a \in Int
      BY QueueAssumption DEF Row, QueueAssumption
    <3>2. y.seq <= z.seq
      BY <3>1, <2>3
    <3>3. y \in batch[r]
      BY <3>2, <2>2, <2>3 DEF SendingWhole
    <3>. QED  BY <3>3, <2>2 DEF Through
  <2>6. AckingDelivered'
    BY <2>2, <2>3, <2>5 DEF store, AckingDelivered
  <2>. QED  BY <2>2, <2>4, <2>6 DEF store
<1>4. CASE \E a \in 0..SeqBound : SenderMisacks(r, a) \/ SenderRaises(r, a)
  <2>1. PICK a \in 0..SeqBound : SenderMisacks(r, a) \/ SenderRaises(r, a)
    BY <1>4
  <2>2. Leave(r) /\ UNCHANGED <<store, now>> /\ delivered' = delivered \cup Through(r, a)
    BY <2>1 DEF SenderMisacks, SenderRaises
  <2>. QED  BY <2>2, QueueAssumption
       DEF Leave, store, Through, Numbered, SendingWhole, AckingDelivered, QueueAssumption
<1>5. CASE Acknowledge(r)
  <2> DEFINE gone == {x \in rows : x.seq <= ack[r]}
  <2>1. /\ rows' = rows \ gone /\ meta' = AfterDelete(meta, gone)
        /\ UNCHANGED <<lastSeq, now, delivered>>
        /\ batch' = [batch EXCEPT ![r] = {}] /\ ack' = [ack EXCEPT ![r] = 0]
        /\ \/ pc' = [pc EXCEPT ![r] = "idle"]
           \/ pc' = [pc EXCEPT ![r] = "peeking"]
    BY <1>5 DEF Acknowledge, Leave
  <2>2. /\ IsFiniteSet(rows \ gone) /\ AfterDelete(meta, gone).event_count = Cardinality(rows \ gone)
        /\ Cardinality(rows \ gone) \in Nat /\ Cardinality(rows \ gone) <= Cardinality(rows)
    BY DeleteCounts
  <2>3. Cardinality(rows) \in Nat
    BY FS_CardinalityType
  <2>4. IsFiniteSet(rows)' /\ CountBounded'
    BY <2>1, <2>2, <2>3, QueueAssumption DEF QueueAssumption
  <2>5. TypeOK'
    BY <2>1, <2>2, QueueAssumption DEF QueueAssumption
  <2>6. Numbered' /\ SendingWhole' /\ AckingDelivered'
    BY <2>1 DEF Numbered, SendingWhole, AckingDelivered
  <2>. QED  BY <2>4, <2>5, <2>6
<1>. QED  BY <1>1, <1>2, <1>3, <1>4, <1>5 DEF ReplayStep

\* The invariant is inductive.
LEMMA Inductive == IInv /\ [Next]_vars => IInv'
<1> SUFFICES ASSUME IInv, [Next]_vars
             PROVE  IInv'
  OBVIOUS
<1>1. CASE Offer
  BY <1>1, EnqueueInv
<1>2. CASE \E r \in Replayer : StartReplay(r) \/ ReplayStep(r)
  BY <1>2, ReplayInv
<1>3. CASE Crash
  BY <1>3, QueueAssumption
     DEF Crash, store, IInv, TypeOK, CountBounded, Numbered, SendingWhole, AckingDelivered, QueueAssumption
<1>4. CASE Tick
  BY <1>4, QueueAssumption
     DEF Tick, store, callers, IInv, TypeOK, CountBounded, Numbered, SendingWhole, AckingDelivered, QueueAssumption
<1>5. CASE UNCHANGED vars
  BY <1>5 DEF vars, IInv, TypeOK, CountBounded, Numbered, SendingWhole, AckingDelivered
<1>. QED  BY <1>1, <1>2, <1>3, <1>4, <1>5 DEF Next

LEMMA Initially == Init => IInv
<1>1. IsFiniteSet({}) /\ Cardinality({}) = 0
  BY FS_EmptySet
<1>. QED  BY <1>1, QueueAssumption
     DEF Init, IInv, TypeOK, CountBounded, Numbered, SendingWhole, AckingDelivered, QueueAssumption

THEOREM Invariance == Spec => []IInv
  BY Initially, Inductive, PTL DEF Spec

(***************************************************************************)
(* Every variable keeps its type, and no row counter goes negative.        *)
(***************************************************************************)
THEOREM TypeCorrect == Spec => []TypeOK
<1>1. IInv => TypeOK
  BY DEF IInv
<1>. QED  BY <1>1, Invariance, PTL

(***************************************************************************)
(* The counter of queue_meta is exact and the table never holds more than  *)
(* max_events rows.                                                        *)
(***************************************************************************)
THEOREM CountIsBounded == Spec => []CountBounded
<1>1. IInv => CountBounded
  BY DEF IInv
<1>. QED  BY <1>1, Invariance, PTL

-----------------------------------------------------------------------------
(***************************************************************************)
(* No event is removed before it is delivered or past its retention.  The  *)
(* two actions that delete rows are enqueue, through _evict_expired with a *)
(* clock reading no later than now, and acknowledge.                       *)
(***************************************************************************)
THEOREM NoUnsentEventIsDropped == Spec => NeverDropsUnsent
<1> DEFINE Kept == \A x \in rows \ rows' : x \in delivered \/ x.at < now - Retention
<1>1. IInv /\ [Next]_vars => [Kept]_vars
  <2> SUFFICES ASSUME IInv, Next
               PROVE  Kept
    OBVIOUS
  <2>1. CASE Offer
    <3>1. PICK e \in Event, t \in ClockReading, ok \in BOOLEAN : Enqueue(e, t, ok)
      BY <2>1 DEF Offer
    <3>2. rows \ Expired(t) \subseteq rows'
      BY <3>1 DEF Enqueue, Insert, store
    <3>3. \A x \in Expired(t) : x.at < now - Retention
      BY QueueAssumption DEF Expired, ClockReading, IInv, TypeOK, Row, QueueAssumption
    <3>. QED  BY <3>2, <3>3
  <2>2. CASE \E r \in Replayer : Acknowledge(r)
    <3>1. PICK r \in Replayer : Acknowledge(r)
      BY <2>2
    <3>2. pc[r] = "acking" /\ rows \ rows' \subseteq {x \in rows : x.seq <= ack[r]}
      BY <3>1 DEF Acknowledge
    <3>. QED  BY <3>2 DEF IInv, AckingDelivered
  <2>3. CASE UNCHANGED rows
    BY <2>3
  <2>. QED  BY <2>1, <2>2, <2>3 DEF Next, StartReplay, ReplayStep, Peek, SenderAcks,
                 SenderMisacks, SenderRaises, Crash, Tick, store
<1>. QED  BY <1>1, Invariance, PTL DEF Spec, NeverDropsUnsent

(***************************************************************************)
(* First deliveries follow the sequence numbers.                           *)
(***************************************************************************)
THEOREM DeliveryIsFIFO == Spec => DeliversInOrder
<1> DEFINE Ordered == \A d \in delivered' \ delivered :
                        \A x \in rows : x.seq < d.seq => x \in delivered'
<1>1. IInv /\ [Next]_vars => [Ordered]_vars
  <2> SUFFICES ASSUME IInv, Next, NEW d \in delivered' \ delivered,
                      NEW x \in rows, x.seq < d.seq
               PROVE  x \in delivered'
    OBVIOUS
  <2>1. PICK r \in Replayer, a \in 0..SeqBound :
          pc[r] = "sending" /\ delivered' = delivered \cup Through(r, a)
    BY DEF Next, Offer, StartReplay, ReplayStep, Peek, SenderAcks,
           SenderMisacks, SenderRaises, Acknowledge, Crash, Tick
  <2>2. d \in batch[r] /\ d.seq <= a
    BY <2>1 DEF Through
  <2>3. x.seq \in Int /\ d.seq \in Int /\ a \in Int
    BY <2>2, QueueAssumption DEF IInv, TypeOK, Row, QueueAssumption
  <2>4. x \in batch[r] /\ x.seq <= a
    BY <2>1, <2>2, <2>3 DEF IInv, SendingWhole
  <2>. QED  BY <2>1, <2>4 DEF Through
<1>. QED  BY <1>1, Invariance, PTL DEF Spec, DeliversInOrder
==============================================================================
