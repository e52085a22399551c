-------------------------------- MODULE Intake --------------------------------
(***************************************************************************)
(* What happens to a packet on a sensor.  agents/live_capture.py turns it  *)
(* into an event and emits it: into the windows of the detection pipeline  *)
(* and then into the durable queue (agents/edge_runtime.py), of which only *)
(* the answer matters here.  The reference adapter of agents/sensor.py     *)
(* emits instead into the bounded queue of core/data_plane.py, which       *)
(* threads share: its counters have a lock, but not one they share with    *)
(* the queue.                                                              *)
(***************************************************************************)
EXTENDS Integers, Sequences, FiniteSets

CONSTANTS
  Flow,         \* tenant, sensor, addresses and ports
  window_size,
  min_points,   \* 12
  MaxSeen,      \* bound on the packets
  Producer,     \* threads that emit into the bounded queue
  maxsize,
  MaxEvents     \* bound on the events put into it

ASSUME IntakeAssumption == /\ window_size \in Nat /\ min_points \in Nat /\ maxsize \in Nat
                           /\ IsFiniteSet(Producer)

VARIABLES
  capturing,    \* the adapter: running, packets, dropped; and whether sniff goes on
  runtime,      \* the runtime: accepted, rejected, detections
  windows,      \* _windows and _timestamps: flow -> activity and time of its last events
  seen,         \* history: every packet of each flow
  unconverted,  \* history: packets that did not become an event
  depth,        \* events in the bounded queue
  counters,     \* its accepted and dropped
  producers,    \* where each thread stands
  taken, puts   \* history: events got from it and put into it

packetVars == <<capturing, runtime, windows, seen, unconverted>>
queueVars == <<depth, counters, producers, taken, puts>>

IntakeInit == /\ capturing = [sniffing |-> FALSE, running |-> FALSE, packets |-> 0, dropped |-> 0]
              /\ runtime = [accepted |-> 0, rejected |-> 0, detections |-> 0]
              /\ windows = << >>
              /\ seen = [f \in Flow |-> << >>]
              /\ unconverted = 0
              /\ depth = 0
              /\ counters = [accepted |-> 0, dropped |-> 0]
              /\ producers = [p \in Producer |-> "idle"]
              /\ taken = 0 /\ puts = 0

-----------------------------------------------------------------------------
\* run, and the end of sniff: its timeout, a signal or an exception.
Runs == /\ capturing' = [capturing EXCEPT !.sniffing = ~ @, !.running = ~ capturing.sniffing]
        /\ UNCHANGED <<runtime, windows, seen, unconverted, queueVars>>

\* stop says that the adapter does not run, and does not end sniff.
Stops == /\ capturing' = [capturing EXCEPT !.running = FALSE]
         /\ UNCHANGED <<runtime, windows, seen, unconverted, queueVars>>

\* _packet_to_event raises, before the try of _on_packet: the packet is counted, and
\* the exception goes through sniff and ends it.
Misconverts == /\ capturing.sniffing /\ capturing.packets < MaxSeen
               /\ capturing' = [capturing EXCEPT !.sniffing = FALSE, !.running = FALSE, !.packets = @ + 1]
               /\ unconverted' = unconverted + 1
               /\ UNCHANGED <<runtime, windows, seen, queueVars>>

\* defaultdict: the first event of a flow makes its window.
Recent(f) == IF f \in DOMAIN windows THEN windows[f] ELSE << >>

\* Mutant: the window is full one event late.
TrimmedLate(s) == IF Len(s) > window_size + 1 THEN Tail(s) ELSE s

\* deque(maxlen=window_size)
Trimmed(s) == IF Len(s) > window_size THEN Tail(s) ELSE s

Ingested(f, e) == [g \in DOMAIN windows \cup {f} |->
                     IF g = f THEN Trimmed(Append(Recent(f), e)) ELSE windows[g]]

\* Whether a full enough window is a fade, and a detector that raises.
Verdicts(f, e) == IF Len(Ingested(f, e)[f]) < min_points THEN {"none"} ELSE {"none", "fade", "error"}

(***************************************************************************)
(* _on_packet, with the runtime's ingest.  The windows have the event      *)
(* whether or not the queue takes it; an exception of the detector comes   *)
(* before the queue, one of the queue after the detection is counted.      *)
(***************************************************************************)
OnPacket(f, activity, verdict, answer) ==
  LET e == [activity |-> activity, at |-> capturing.packets]
      reached == verdict # "error"
      dropped == ~ reached \/ answer # "accepted"
  IN  /\ capturing.sniffing /\ capturing.packets < MaxSeen
      /\ verdict \in Verdicts(f, e)
      /\ windows' = Ingested(f, e)
      /\ seen' = [seen EXCEPT ![f] = Append(@, e)]
      /\ runtime' = [accepted |-> runtime.accepted + IF reached /\ answer = "accepted" THEN 1 ELSE 0,
                     rejected |-> runtime.rejected + IF reached /\ answer = "rejected" THEN 1 ELSE 0,
                     detections |-> runtime.detections + IF verdict = "fade" THEN 1 ELSE 0]
      /\ capturing' = [capturing EXCEPT !.packets = @ + 1, !.dropped = @ + IF dropped THEN 1 ELSE 0]
      /\ UNCHANGED <<unconverted, queueVars>>

-----------------------------------------------------------------------------
\* SensorAdapter.emit and BoundedEventQueue.put, which does not wait: the event
\* is in the queue, or was refused, before the counter is.
PutsOne(p) == /\ producers[p] = "idle" /\ puts < MaxEvents
              /\ puts' = puts + 1
              /\ IF depth < maxsize
                 THEN depth' = depth + 1 /\ producers' = [producers EXCEPT ![p] = "accepted"]
                 ELSE producers' = [producers EXCEPT ![p] = "dropped"] /\ UNCHANGED depth
              /\ UNCHANGED <<packetVars, counters, taken>>

\* emit returns, or raises BufferError for the one dropped.
CountsOne(p) == /\ producers[p] # "idle"
                /\ counters' = [counters EXCEPT ![producers[p]] = @ + 1]
                /\ producers' = [producers EXCEPT ![p] = "idle"]
                /\ UNCHANGED <<packetVars, depth, taken, puts>>

TakesOne == /\ depth > 0
            /\ depth' = depth - 1 /\ taken' = taken + 1
            /\ UNCHANGED <<packetVars, counters, producers, puts>>

PacketNext == \/ Runs \/ Stops \/ Misconverts
              \/ \E f \in Flow, activity \in {0, 1}, verdict \in {"none", "fade", "error"},
                    answer \in {"accepted", "rejected", "error"} : OnPacket(f, activity, verdict, answer)
QueueNext == TakesOne \/ \E p \in Producer : PutsOne(p) \/ CountsOne(p)

IntakeSpec == IntakeInit /\ [][PacketNext \/ QueueNext]_<<packetVars, queueVars>>

-----------------------------------------------------------------------------
(***************************************************************************)
(* Nothing is seen twice, lost uncounted or judged out of order.  A flow's *)
(* window is its last packets, all of them, with each activity at its own  *)
(* time, also those the queue refused; every packet that became an event   *)
(* is accepted or dropped, and a rejected one is dropped; and what the     *)
(* bounded queue has counted is off by no more than the threads between    *)
(* its put and its counter.                                                *)
(***************************************************************************)
NothingMiscounted ==
  /\ \A f \in DOMAIN windows :
       LET n == Len(seen[f])
       IN  windows[f] = SubSeq(seen[f], IF n > window_size THEN n - window_size + 1 ELSE 1, n)
  /\ capturing.packets = runtime.accepted + capturing.dropped + unconverted
  /\ runtime.rejected <= capturing.dropped
  /\ counters.accepted + Cardinality({p \in Producer : producers[p] = "accepted"}) = taken + depth
  /\ counters.dropped + Cardinality({p \in Producer : producers[p] = "dropped"}) = puts - taken - depth
==============================================================================
