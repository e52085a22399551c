---------------------------- MODULE OfflinePolicy ----------------------------
(***************************************************************************)
(* What the parts of the offline transport are configured with: QueuePolicy*)
(* and BandwidthPolicy of core/offline_transport.py, the events the sensors*)
(* capture, the wall clock they read, and the bounds of the model.         *)
(***************************************************************************)
EXTENDS Integers, FiniteSets

CONSTANTS
  Event,           \* event digests
  Key,             \* (tenant_id, sensor_id) pairs
  KeyOf,           \* KeyOf[e]: the pair that event e carries
  Size,            \* Size[e]: length of the canonical payload of e
  Priority,        \* priorities the callers of enqueue() use
  BatchId,         \* batch ids the sensors use
  MaxEvents, MaxBytes, Retention,              \* QueuePolicy
  BytesPerSecond, BurstBytes, MaxBatchBytes,   \* BandwidthPolicy
  BatchEvents,     \* highest limit given to peek()
  TicksPerSecond,  \* resolution of the clock
  SeqBound,        \* bound: sequence numbers handed out per key
  TimeBound        \* bound: last reading of the clock, in ticks

VARIABLE now       \* _now(), in ticks

Critical == 100

ASSUME QueueAssumption ==
  /\ KeyOf \in [Event -> Key] /\ Size \in [Event -> Nat]
  /\ Priority \subseteq 0..Critical
  /\ MaxEvents \in Nat \ {0} /\ MaxBytes \in Nat \ {0} /\ Retention \in Nat \ {0}
  /\ SeqBound \in Nat /\ TimeBound \in Nat

\* BandwidthPolicy checks nothing; these are the values that make sense.
ASSUME BandwidthAssumption ==
  /\ BytesPerSecond \in Nat /\ BurstBytes \in Nat /\ MaxBatchBytes \in Nat
  /\ BatchEvents \in Nat \ {0} /\ TicksPerSecond \in Nat \ {0}
==============================================================================
