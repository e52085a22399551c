----------------------------- MODULE EdgeRuntime -----------------------------
(***************************************************************************)
(* One sensor process: agents/edge_runtime.py (EdgeSensorRuntime), over the*)
(* durable queue (SensorQueue) and the fleet's registry (SensorRegistry).  *)
(*                                                                         *)
(* The runtime object is built only for a sensor that can ingest, with a   *)
(* sender or without one: agents/sensor_runtime.py gives it none, and then *)
(* the loop only waits.  start() runs a thread that replays the queue      *)
(* between two waits on the stop event; the capture thread calls ingest(); *)
(* the owner calls stop(), whose join has a timeout, so the thread may     *)
(* outlive it.  A crash loses the runtime, its thread and the registry,    *)
(* which are in memory, and keeps the queue.                               *)
(***************************************************************************)
EXTENDS Integers, FiniteSets

CONSTANTS
  Event, Size, MaxEvents, MaxBytes, Retention, BatchSize, LockWait,
  SeqBound, TimeBound,               \* as in SensorQueue
  Sensor, Tenant, Fingerprint,       \* as in SensorRegistry
  sensor_id, tenant_id, sender_loop  \* this process's sensor, tenant, thread

ASSUME RuntimeAssumption ==
  /\ sensor_id \in Sensor /\ tenant_id \in Tenant
  /\ MaxEvents \in Nat \ {0} /\ MaxBytes \in Nat \ {0} /\ Retention \in Nat \ {0}
  /\ BatchSize \in Nat \ {0} /\ LockWait \in Nat
  /\ SeqBound \in Nat /\ TimeBound \in Nat
  /\ Size \in [Event -> Nat]

VARIABLES
  rows, meta, lastSeq, now, pc, batch, ack, delivered,   \* the queue
  sensors,                                               \* the registry
  up,          \* the EdgeSensorRuntime object exists
  sender,      \* self.sender is not None
  thread,      \* self._thread is alive
  stop,        \* self._stop is set
  accepted,    \* history: the rows ingest() put into the queue
  asked        \* history: the owner's last call; "lost": a start() that found
               \* the thread alive and about to end

Queue == INSTANCE SensorQueue WITH Replayer <- {sender_loop}
Registry == INSTANCE SensorRegistry

queueVars == <<rows, meta, lastSeq, now, pc, batch, ack, delivered, accepted>>
runtimeVars == <<up, sender, thread, stop, asked>>
vars == <<queueVars, sensors, runtimeVars>>

TypeOK == /\ Queue!TypeOK /\ Registry!TypeOK
          /\ up \in BOOLEAN /\ sender \in BOOLEAN
          /\ thread \in BOOLEAN /\ stop \in BOOLEAN
          /\ accepted \in SUBSET Queue!Row
          /\ asked \in {"nothing", "start", "lost", "stop"}

Init == /\ Queue!Init /\ Registry!Init
        /\ accepted = {}
        /\ up = FALSE /\ sender = FALSE /\ thread = FALSE /\ stop = FALSE
        /\ asked = "nothing"

-----------------------------------------------------------------------------
\* __init__: PermissionError unless the registry lets the sensor ingest.
Construct ==
  /\ ~ up
  /\ Registry!CanIngest(sensor_id, tenant_id)
  /\ up' = TRUE
  /\ sender' \in BOOLEAN
  /\ UNCHANGED <<queueVars, sensors, thread, stop, asked>>

\* ingest: the registry is not consulted again.
Ingest == /\ up
          /\ Queue!Offer
          /\ accepted' = accepted \cup rows'
          /\ UNCHANGED <<sensors, runtimeVars>>

\* Mutant: the stop event is not cleared, so the new thread sees it at once.
StartUncleared ==
  /\ up
  /\ thread' = TRUE
  /\ asked' = IF thread /\ stop THEN "lost" ELSE "start"
  /\ UNCHANGED <<queueVars, sensors, up, sender, stop>>

\* start: nothing if the thread is alive, even when it is about to end.
Start == /\ up
         /\ \/ /\ ~ thread
               /\ stop' = FALSE /\ thread' = TRUE
               /\ asked' = "start"
            \/ /\ thread
               /\ asked' = IF stop THEN "lost" ELSE "start"
               /\ UNCHANGED <<stop, thread>>
         /\ UNCHANGED <<queueVars, sensors, up, sender>>

\* stop: the join may time out, so nothing is known of the thread afterwards.
Stop == /\ up
        /\ stop' = TRUE
        /\ asked' = "stop"
        /\ UNCHANGED <<queueVars, sensors, up, sender, thread>>

\* Mutant: the loop leaves only when the queue is empty.
WaitDraining ==
  /\ thread /\ pc[sender_loop] = "idle"
  /\ \/ stop /\ (~ sender \/ rows = {}) /\ thread' = FALSE /\ UNCHANGED queueVars
     \/ ~ (stop /\ rows = {}) /\ sender /\ Queue!StartReplay(sender_loop) /\ UNCHANGED <<thread, accepted>>
     \/ ~ stop /\ ~ sender /\ UNCHANGED <<thread, queueVars>>
  /\ UNCHANGED <<sensors, up, sender, stop, asked>>

\* _run: while not self._stop.wait(...): without a sender, wait again.
Wait ==
  /\ thread /\ pc[sender_loop] = "idle"
  /\ \/ stop /\ thread' = FALSE /\ UNCHANGED queueVars
     \/ ~ stop /\ sender /\ Queue!StartReplay(sender_loop) /\ UNCHANGED <<thread, accepted>>
     \/ ~ stop /\ ~ sender /\ UNCHANGED <<thread, queueVars>>
  /\ UNCHANGED <<sensors, up, sender, stop, asked>>

\* Mutant: only OSError and its like are caught, so a ValueError of replay()
\* ends the thread.
ReplayCatchingOSError ==
  /\ thread
  /\ Queue!ReplayStep(sender_loop)
  /\ thread' = ~ \E a \in 0..SeqBound : Queue!SenderMisacks(sender_loop, a)
  /\ UNCHANGED <<sensors, up, sender, stop, accepted, asked>>

\* _run: replay(), whose exceptions are all swallowed.
Replay == /\ thread
          /\ Queue!ReplayStep(sender_loop)
          /\ UNCHANGED <<sensors, runtimeVars, accepted>>

\* The process dies; only the queue's file is left.
Crash == /\ Queue!Crash
         /\ sensors' = [s \in {} |-> 0]
         /\ up' = FALSE /\ sender' = FALSE /\ thread' = FALSE /\ stop' = FALSE
         /\ asked' = "nothing"
         /\ UNCHANGED accepted

\* Fleet operations on the registry of this process.
Fleet == /\ Registry!Next
         /\ UNCHANGED <<queueVars, runtimeVars>>

Tick == Queue!Tick /\ UNCHANGED <<sensors, runtimeVars, accepted>>

Next == \/ Construct \/ Ingest \/ Start \/ Stop
        \/ Wait \/ Replay
        \/ Crash \/ Fleet \/ Tick

Spec == Init /\ [][Next]_vars

(***************************************************************************)
(* The thread runs when it can (threading.Thread).  Nothing is assumed of  *)
(* the sender: a call of it may never come back.                           *)
(***************************************************************************)
Calling == pc[sender_loop] = "sending"
Answered == Replay /\ \E a \in 0..SeqBound : Queue!SenderAcks(sender_loop, a)

FairSpec == Spec /\ WF_vars(Wait) /\ WF_vars(Replay /\ ~ Calling)

-----------------------------------------------------------------------------
(***************************************************************************)
(* The process as its owner and the control plane see it.                  *)
(***************************************************************************)
Promised == INSTANCE Forwarding WITH
  Row      <- Queue!Row,
  state    <- IF ~ up THEN "down"
              ELSE IF ~ thread THEN "halted"
              ELSE IF stop THEN "halting" ELSE "running",
  pending  <- rows \ delivered,
  received <- delivered

(***************************************************************************)
(* The process keeps the promise of a sensor.  Only a thread the owner     *)
(* started sends, and it ends only because the owner stopped it or the     *)
(* process died, not because of anything the sender did; a thread that     *)
(* outlives stop() may still send, and a start() before it has ended does  *)
(* not bring it back.  Throughout, and over crashes, an accepted event     *)
(* waits in the queue until it is received or its retention is over, and   *)
(* is first received after everything older that waits.                    *)
(***************************************************************************)
KeepsItsPromise == Promised!Spec

(***************************************************************************)
(* docs/SENSOR_RUNTIME.md: events remain on the sensor "until they can be  *)
(* acknowledged by the sender".  If there is a sender, the owner's last    *)
(* call was a start() that was not lost, the process lives, and the sender *)
(* now and then acknowledges when it is called again and again, then every *)
(* queued event sooner or later leaves the queue, in spite of lost answers,*)
(* invalid acknowledgements and partial ones.                              *)
(***************************************************************************)
Drains ==
  /\ <>[](up /\ sender /\ asked = "start")
  /\ []<>Calling => []<><<Answered>>_vars
  => \A n \in 1..SeqBound : []<>(\A x \in rows : x.seq # n)

(***************************************************************************)
(* A thread that outlived stop() does end: if the owner leaves the process *)
(* stopped (a start() that was lost does not count as a start), nothing    *)
(* more is accepted, and the sender returns or raises whenever it is       *)
(* called.  While events are accepted the replay under way may go on.      *)
(***************************************************************************)
Halts ==
  /\ <>[](asked \in {"stop", "lost"})
  /\ <>[][lastSeq' = lastSeq]_vars
  /\ []<>(~ Calling)
  => <>[](~ thread)

(***************************************************************************)
(* docs/GROUP_11_DATA_PLANE.md: "Only `active` sensors can emit.  `draining`*)
(* and `revoked` sensors are rejected."                                    *)
(***************************************************************************)
OnlyActiveSensorsEmit ==
  [][lastSeq' # lastSeq => Registry!CanIngest(sensor_id, tenant_id)]_vars
==============================================================================
