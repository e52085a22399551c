------------------------------ MODULE Forwarding ------------------------------
(***************************************************************************)
(* What a sensor promises, whatever happens inside it: to its owner, who   *)
(* starts and stops it, and to the control plane, which receives from it   *)
(* (docs/SENSOR_RUNTIME.md, "Data path" and "Queue contract").  EdgeRuntime*)
(* implements it.                                                          *)
(*                                                                         *)
(* An event that was accepted waits until it is received or its retention  *)
(* is over; one whose retention is over may still be received when it was  *)
(* already being sent.  Only a sensor that was started sends; one that was *)
(* stopped may go on sending until its thread ends, and until then a start *)
(* does nothing: there is no step from halting back to running.            *)
(***************************************************************************)
EXTENDS Integers

CONSTANTS Row,         \* an accepted event: its number seq, its id, its time at
          Retention,   \* how long an event is kept for certain
          LockWait     \* how old a clock reading may be when it is used

VARIABLES
  state,       \* "down", "halted", "running" or "halting"
  accepted,    \* the events that were accepted
  pending,     \* of these, the events still to be received
  received,    \* the events the control plane has received
  now

vars == <<state, accepted, pending, received, now>>
events == <<accepted, pending, received, now>>

Init == /\ state = "down"
        /\ accepted = {} /\ pending = {} /\ received = {}
        /\ now = 0

Overdue == {x \in pending : x.at < now - Retention}

\* A new event comes after every other and no waiting event is the same one.
Accept(x, gone) ==
  /\ state # "down"
  /\ \A y \in accepted : y.seq < x.seq
  /\ \A y \in pending \ gone : y.id # x.id
  /\ now - LockWait <= x.at /\ x.at <= now
  /\ accepted' = accepted \cup {x}
  /\ pending' = (pending \ gone) \cup {x}
  /\ UNCHANGED <<state, received, now>>

\* An event is refused for want of room, whatever was given up for it.
Refuse(gone) ==
  /\ state # "down"
  /\ pending' = pending \ gone
  /\ UNCHANGED <<state, accepted, received, now>>

\* The control plane receives S and with it everything older that waits.
Forward(S) ==
  /\ state \in {"running", "halting"}
  /\ \A x \in S, y \in pending : y.seq < x.seq => y \in S
  /\ received' = received \cup S
  /\ pending' = pending \ S
  /\ UNCHANGED <<state, accepted, now>>

Goes(from, to) == state = from /\ state' = to /\ UNCHANGED events

Build == Goes("down", "halted")
Start == Goes("halted", "running")
Stop == Goes("running", "halting")
End == Goes("halting", "halted")
Crash == state' = "down" /\ UNCHANGED events
Tick == now' = now + 1 /\ UNCHANGED <<state, accepted, pending, received>>

Next == \/ \E gone \in SUBSET Overdue : Refuse(gone) \/ \E x \in Row : Accept(x, gone)
        \/ \E S \in SUBSET accepted : Forward(S)
        \/ Build \/ Start \/ Stop \/ End \/ Crash \/ Tick

Spec == Init /\ [][Next]_vars
==============================================================================
