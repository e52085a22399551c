-------------------------- MODULE EdgeRuntime_proofs --------------------------
(***************************************************************************)
(* Proofs about EdgeRuntime: the process implements Forwarding.  Its queue *)
(* is the queue of SensorQueue with one replay, so what SensorQueue_proofs *)
(* proves of that queue is used here; what is added is the owner's view:   *)
(* which states of the thread allow which steps.                           *)
(***************************************************************************)
EXTENDS EdgeRuntime, TLAPS

Proved == INSTANCE SensorQueue_proofs WITH Replayer <- {sender_loop}

\* What ties the thread to the queue and the history to the table.
IInv ==
  /\ Proved!IInv
  /\ thread => up
  /\ pc[sender_loop] # "idle" => thread
  /\ accepted \in SUBSET Queue!Row
  /\ \A x \in accepted : x.seq <= lastSeq
  /\ rows \subseteq accepted /\ delivered \subseteq accepted
  /\ batch[sender_loop] \subseteq accepted

-----------------------------------------------------------------------------
\* The two instances of SensorQueue are the same specification.
LEMMA SameQueue == /\ Queue!Init => Proved!Init
                   /\ Queue!Next => Proved!Next
                   /\ Queue!vars = Proved!vars
BY DEF Queue!Init, Queue!Next, Queue!vars, Queue!store, Queue!callers,
       Queue!Offer, Queue!Enqueue, Queue!Insert, Queue!NoRoom, Queue!Expired,
       Queue!NextSeq, Queue!AfterInsert, Queue!AfterDelete, Queue!ClockReading,
       Queue!StartReplay, Queue!ReplayStep, Queue!Peek, Queue!Lowest, Queue!Leave,
       Queue!SenderAcks, Queue!SenderMisacks, Queue!SenderRaises, Queue!Through,
       Queue!ValidAck, Queue!Acknowledge, Queue!Crash, Queue!Tick, Queue!Bytes,
       Queue!MapThenSumSet, Queue!MapThenFoldSet, Queue!Cardinality,
       Proved!Init, Proved!Next, Proved!vars, Proved!store, Proved!callers,
       Proved!Offer, Proved!Enqueue, Proved!Insert, Proved!NoRoom, Proved!Expired,
       Proved!NextSeq, Proved!AfterInsert, Proved!AfterDelete, Proved!ClockReading,
       Proved!StartReplay, Proved!ReplayStep, Proved!Peek, Proved!Lowest, Proved!Leave,
       Proved!SenderAcks, Proved!SenderMisacks, Proved!SenderRaises, Proved!Through,
       Proved!ValidAck, Proved!Acknowledge, Proved!Crash, Proved!Tick, Proved!Bytes,
       Proved!MapThenSumSet, Proved!MapThenFoldSet, Proved!Cardinality

LEMMA QueueParameters == Proved!QueueAssumption
BY RuntimeAssumption DEF Proved!QueueAssumption

\* Every step of the process is a step of the queue, or leaves it alone.
LEMMA StepsOfTheQueue ==
  ASSUME [Next]_vars
  PROVE  [Proved!Next]_(Proved!vars)
<1>1. CASE Construct \/ Start \/ Stop \/ Fleet \/ UNCHANGED vars
  BY <1>1 DEF Construct, Start, Stop, Fleet, queueVars, vars, Proved!vars
<1>2. CASE Ingest
  BY <1>2, SameQueue DEF Ingest, Queue!Next
<1>3. CASE Wait
  <2>1. CASE UNCHANGED queueVars
    BY <2>1 DEF queueVars, Proved!vars
  <2>2. CASE Queue!StartReplay(sender_loop)
    BY <2>2, SameQueue DEF Queue!Next
  <2>. QED  BY <1>3, <2>1, <2>2 DEF Wait
<1>4. CASE Replay
  BY <1>4, SameQueue DEF Replay, Queue!Next
<1>5. CASE Crash
  BY <1>5, SameQueue DEF Crash, Queue!Next
<1>6. CASE Tick
  BY <1>6, SameQueue DEF Tick, Queue!Next
<1>. QED  BY <1>1, <1>2, <1>3, <1>4, <1>5, <1>6 DEF Next

LEMMA Initially == Init => IInv
<1> SUFFICES ASSUME Init
             PROVE  IInv
  OBVIOUS
<1>1. Proved!IInv
  BY SameQueue, QueueParameters, Proved!Initially DEF Init
<1>. QED  BY <1>1 DEF Init, IInv, Queue!Init

LEMMA Inductive == IInv /\ [Next]_vars => IInv'
<1> SUFFICES ASSUME IInv, [Next]_vars
             PROVE  IInv'
  OBVIOUS
<1>1. Proved!IInv'
  BY StepsOfTheQueue, QueueParameters, Proved!Inductive DEF IInv
<1>2. CASE UNCHANGED queueVars /\ (Construct \/ Start \/ Stop \/ Fleet \/ Wait \/ UNCHANGED vars)
  BY <1>1, <1>2
     DEF IInv, queueVars, runtimeVars, vars, Construct, Start, Stop, Fleet, Wait
<1>3. rows' \in SUBSET Queue!Row /\ lastSeq \in Int
  BY <1>1, RuntimeAssumption
     DEF IInv, Proved!IInv, Proved!TypeOK, Proved!Row, Queue!Row
<1>4. CASE Ingest
  <2>1. PICK e \in Event, t \in Queue!ClockReading, ok \in BOOLEAN : Queue!Enqueue(e, t, ok)
    BY <1>4 DEF Ingest, Queue!Offer
  <2>2. \/ lastSeq' = lastSeq /\ rows' \subseteq rows
        \/ /\ lastSeq' = lastSeq + 1
           /\ \E x : x.seq = lastSeq + 1 /\ rows' \subseteq rows \cup {x}
    <3> DEFINE x == [seq |-> lastSeq + 1, id |-> e, at |-> t]
    <3>1. x.seq = lastSeq + 1
      OBVIOUS
    <3>. QED  BY <2>1, <3>1 DEF Queue!Enqueue, Queue!Insert, Queue!NextSeq, Queue!store
  <2>3. lastSeq <= lastSeq' /\ \A x \in rows' : x \in rows \/ x.seq <= lastSeq'
    BY <1>3, <2>2
  <2>4. \A x \in accepted : x \in Queue!Row /\ x.seq \in Int
    BY RuntimeAssumption DEF IInv, Queue!Row
  <2>5. \A x \in accepted' : x.seq <= lastSeq'
    BY <1>3, <1>4, <2>2, <2>3, <2>4 DEF IInv, Ingest
  <2>. QED  BY <1>1, <1>3, <1>4, <2>5
            DEF IInv, Ingest, runtimeVars, Queue!Offer, Queue!callers
<1>5. CASE Wait /\ Queue!StartReplay(sender_loop) /\ UNCHANGED <<thread, accepted>>
  BY <1>1, <1>5 DEF IInv, Wait, Queue!StartReplay, Queue!store
<1>6. CASE Replay
  BY <1>1, <1>6
     DEF IInv, Replay, runtimeVars, Queue!ReplayStep, Queue!Peek, Queue!Lowest, Queue!Leave,
         Queue!SenderAcks, Queue!SenderMisacks, Queue!SenderRaises, Queue!Through,
         Queue!Acknowledge, Queue!store, Proved!IInv, Proved!TypeOK
<1>7. CASE Crash
  BY <1>1, <1>7 DEF IInv, Crash, Queue!Crash, Queue!store
<1>8. CASE Tick
  BY <1>1, <1>8 DEF IInv, Tick, runtimeVars, Queue!Tick, Queue!store, Queue!callers
<1>. QED  BY <1>2, <1>4, <1>5, <1>6, <1>7, <1>8
          DEF Next, Wait, Construct, Start, Stop, Fleet, vars

LEMMA Invariance == Spec => []IInv
BY Initially, Inductive, PTL DEF Spec

-----------------------------------------------------------------------------
\* What SensorQueue_proofs proves of the steps of the queue.
Kept == \A x \in rows \ rows' : x \in delivered \/ x.at < now - Retention
Ordered == \A d \in delivered' \ delivered : \A x \in rows : x.seq < d.seq => x \in delivered'

LEMMA QueueKeepsItsPromise == Spec => [][Kept /\ Ordered]_(Proved!vars)
<1>1. Init => Proved!Init
  BY SameQueue DEF Init
<1>2. Spec => Proved!Spec
  BY <1>1, StepsOfTheQueue, PTL DEF Spec, Proved!Spec
<1>3. Proved!Spec => [][Kept]_(Proved!vars)
  BY QueueParameters, Proved!NoUnsentEventIsDropped DEF Proved!NeverDropsUnsent, Kept
<1>4. Proved!Spec => [][Ordered]_(Proved!vars)
  BY QueueParameters, Proved!DeliveryIsFIFO DEF Proved!DeliversInOrder, Ordered
<1>. QED  BY <1>2, <1>3, <1>4, PTL

\* ingest() accepts an event, or refuses it having given up overdue ones.
LEMMA IngestStep ==
  ASSUME IInv, Ingest, [Kept /\ Ordered]_(Proved!vars)
  PROVE  [Promised!Next]_(Promised!vars)
<1> DEFINE gone == (rows \ rows') \ delivered
<1>1. PICK e \in Event, t \in Queue!ClockReading, ok \in BOOLEAN : Queue!Enqueue(e, t, ok)
  BY DEF Ingest, Queue!Offer
<1>2. /\ up /\ UNCHANGED <<up, thread, stop>>
      /\ UNCHANGED <<now, delivered>>
      /\ accepted' = accepted \cup rows'
  BY DEF Ingest, runtimeVars, Queue!Offer
<1>3. gone \in SUBSET Promised!Overdue
  BY <1>2 DEF Kept, Promised!Overdue, Proved!vars
<1>4. CASE UNCHANGED Queue!store
  BY <1>2, <1>4 DEF IInv, Queue!store, Promised!vars
<1>5. CASE ~ UNCHANGED Queue!store /\ ~ ok
  <2>1. rows' \subseteq rows
    BY <1>1, <1>5 DEF Queue!Enqueue
  <2>2. Promised!Refuse(gone)
    BY <1>2, <2>1 DEF IInv, Promised!Refuse
  <2>. QED  BY <1>3, <2>2 DEF Promised!Next
<1>6. CASE ~ UNCHANGED Queue!store /\ ok
  <2> DEFINE x == [seq |-> lastSeq + 1, id |-> e, at |-> t]
  <2>1. /\ \A y \in rows : y.id # e
        /\ x.seq \in Int /\ x.seq <= SeqBound
        /\ \E V : rows' = (rows \ V) \cup {x}
    BY <1>1, <1>6, RuntimeAssumption
       DEF Queue!Enqueue, Queue!Insert, Queue!NextSeq, IInv, Proved!IInv, Proved!TypeOK
  <2>2. /\ now - LockWait <= x.at /\ x.at <= now
        /\ x.at \in 0..TimeBound /\ x.id = e /\ x.seq = lastSeq + 1
    BY DEF Queue!ClockReading
  <2>3. lastSeq \in Nat /\ \A y \in accepted : y.seq \in Int /\ y.seq <= lastSeq
    BY RuntimeAssumption DEF IInv, Queue!Row, Proved!IInv, Proved!TypeOK
  <2>4. x \in Queue!Row
    BY <2>1, <2>3, RuntimeAssumption DEF Queue!Row, Queue!ClockReading
  <2> HIDE DEF x
  <2>5. x \notin accepted /\ \A y \in accepted : y.seq < x.seq
    BY <2>2, <2>3
  <2>6. accepted' = accepted \cup {x}
    BY <1>2, <2>1 DEF IInv
  <2>7. (rows \ delivered)' = ((rows \ delivered) \ gone) \cup {x}
    BY <1>2, <2>1, <2>5 DEF IInv
  <2>8. \A y \in (rows \ delivered) \ gone : y.id # x.id
    BY <2>1, <2>2
  <2> HIDE DEF gone
  <2>9. Promised!Accept(x, gone)
    BY <1>2, <2>2, <2>5, <2>6, <2>7, <2>8 DEF Promised!Accept
  <2>. QED  BY <1>3, <2>4, <2>9 DEF Promised!Next
<1>. QED  BY <1>4, <1>5, <1>6

\* replay() forwards what is newly delivered; its other steps are not seen.
LEMMA ReplayStep ==
  ASSUME IInv, Replay, [Kept /\ Ordered]_(Proved!vars)
  PROVE  [Promised!Next]_(Promised!vars)
<1>1. up /\ thread /\ UNCHANGED <<up, thread, stop, accepted>>
  BY DEF IInv, Replay, runtimeVars
<1>2. CASE Queue!Peek(sender_loop)
  BY <1>1, <1>2 DEF Queue!Peek, Queue!store, Promised!vars
<1>3. CASE Queue!Acknowledge(sender_loop)
  <2>1. UNCHANGED <<now, delivered>> /\ rows \ delivered = (rows \ delivered)'
    BY <1>3 DEF IInv, Proved!IInv, Proved!AckingDelivered, Queue!Acknowledge
  <2>. QED  BY <1>1, <2>1 DEF Promised!vars
<1>4. ASSUME NEW a \in 0..SeqBound,
             \/ Queue!SenderAcks(sender_loop, a)
             \/ Queue!SenderMisacks(sender_loop, a)
             \/ Queue!SenderRaises(sender_loop, a)
      PROVE  Promised!Next
  <2> DEFINE S == delivered' \ delivered
  <2>1. /\ UNCHANGED <<rows, now>>
        /\ delivered \subseteq delivered' /\ S \subseteq batch[sender_loop]
    BY <1>4 DEF Queue!SenderAcks, Queue!SenderMisacks, Queue!SenderRaises,
                Queue!Through, Queue!store
  <2>2. S \in SUBSET accepted
    BY <2>1 DEF IInv
  <2>3. \A x \in S, y \in rows \ delivered : y.seq < x.seq => y \in S
    BY DEF Ordered, Proved!vars
  <2>4. delivered' = delivered \cup S /\ (rows \ delivered)' = (rows \ delivered) \ S
    BY <2>1
  <2> HIDE DEF S
  <2>5. Promised!Forward(S)
    BY <1>1, <2>1, <2>3, <2>4 DEF Promised!Forward
  <2>. QED  BY <2>2, <2>5 DEF Promised!Next
<1>. QED  BY <1>2, <1>3, <1>4 DEF Replay, Queue!ReplayStep

\* Every step of the process is a step of the promise, or not seen.
LEMMA StepsOfThePromise ==
  ASSUME IInv, [Next]_vars, [Kept /\ Ordered]_(Proved!vars)
  PROVE  [Promised!Next]_(Promised!vars)
<1> USE DEF Promised!Goes, Promised!events
<1>1. CASE Construct
  <2>. Promised!Build
    BY <1>1 DEF IInv, Construct, queueVars, Promised!Build
  <2>. QED  BY DEF Promised!Next
<1>2. CASE Ingest
  BY <1>2, IngestStep
<1>3. CASE Start
  <2>1. CASE thread
    BY <1>3, <2>1 DEF Start, queueVars, Promised!vars
  <2>2. CASE ~ thread
    <3>. Promised!Start
      BY <1>3, <2>2 DEF Start, queueVars, Promised!Start
    <3>. QED  BY DEF Promised!Next
  <2>. QED  BY <2>1, <2>2
<1>4. CASE Stop
  <2>1. CASE thread /\ ~ stop
    <3>. Promised!Stop
      BY <1>4, <2>1 DEF Stop, queueVars, Promised!Stop
    <3>. QED  BY DEF Promised!Next
  <2>2. CASE ~ thread \/ stop
    BY <1>4, <2>2 DEF Stop, queueVars, Promised!vars
  <2>. QED  BY <2>1, <2>2
<1>5. CASE Wait
  <2>1. CASE stop
    <3>. Promised!End
      BY <1>5, <2>1 DEF IInv, Wait, queueVars, Promised!End
    <3>. QED  BY DEF Promised!Next
  <2>2. CASE ~ stop
    BY <1>5, <2>2 DEF Wait, queueVars, Queue!StartReplay, Queue!store, Promised!vars
  <2>. QED  BY <2>1, <2>2
<1>6. CASE Replay
  BY <1>6, ReplayStep
<1>7. CASE Crash
  <2>. Promised!Crash
    BY <1>7 DEF Crash, Queue!Crash, Queue!store, Promised!Crash
  <2>. QED  BY DEF Promised!Next
<1>8. CASE Tick
  <2>. Promised!Tick
    BY <1>8 DEF Tick, runtimeVars, Queue!Tick, Queue!store, Promised!Tick
  <2>. QED  BY DEF Promised!Next
<1>9. CASE Fleet \/ UNCHANGED vars
  BY <1>9 DEF Fleet, vars, queueVars, runtimeVars, Promised!vars
<1>. QED  BY <1>1, <1>2, <1>3, <1>4, <1>5, <1>6, <1>7, <1>8, <1>9 DEF Next

(***************************************************************************)
(* The process keeps the promise of a sensor: its thread sends only between*)
(* a start() that found none alive and its own end, which only stop() or a *)
(* crash brings about, and no accepted event is lost or overtaken.         *)
(***************************************************************************)
THEOREM RuntimeKeepsItsPromise == Spec => KeepsItsPromise
<1>1. Init => Promised!Init
  BY DEF Init, Queue!Init, Promised!Init
<1>. QED  BY <1>1, Invariance, QueueKeepsItsPromise, StepsOfThePromise, PTL
          DEF Spec, KeepsItsPromise, Promised!Spec
==============================================================================
