---------------------------- MODULE SensorRegistry ---------------------------
(***************************************************************************)
(* The lifecycle of sensor identities: class SensorRegistry of             *)
(* core/data_plane.py, driven by the fleet operations of agents/fleet.py.  *)
(* The registry is a dictionary in memory, guarded by one lock, so every   *)
(* method is one action.                                                   *)
(***************************************************************************)
EXTENDS Naturals, FiniteSets

CONSTANTS Sensor, Tenant, Fingerprint

VARIABLE sensors       \* self._sensors: a function on the registered sensors

State == {"pending", "active", "draining", "revoked"}
Record == [tenant : Tenant, fingerprint : Fingerprint, state : State]

TypeOK == /\ DOMAIN sensors \subseteq Sensor
          /\ \A s \in DOMAIN sensors : sensors[s] \in Record

Init == sensors = [s \in {} |-> 0]

Put(s, record) ==
  sensors' = [x \in DOMAIN sensors \cup {s} |-> IF x = s THEN record ELSE sensors[x]]

\* register: refused for a sensor bound to another tenant, else back to pending.
Register(s, t, f) ==
  /\ s \in DOMAIN sensors => sensors[s].tenant = t
  /\ Put(s, [tenant |-> t, fingerprint |-> f, state |-> "pending"])

\* activate: refused for unknown, revoked and draining sensors.
Activate(s) ==
  /\ s \in DOMAIN sensors
  /\ sensors[s].state \notin {"revoked", "draining"}
  /\ Put(s, [sensors[s] EXCEPT !.state = "active"])

\* transition: any state to any state.
Transition(s, state) ==
  /\ s \in DOMAIN sensors
  /\ Put(s, [sensors[s] EXCEPT !.state = state])

CanIngest(s, t) ==
  /\ s \in DOMAIN sensors
  /\ sensors[s].tenant = t
  /\ sensors[s].state = "active"

\* SensorFleet: enroll, activate, drain, revoke.
Enroll(s) == \E t \in Tenant, f \in Fingerprint : Register(s, t, f)
Drain(s) == Transition(s, "draining")
Revoke(s) == Transition(s, "revoked")

FleetStep(s) == Enroll(s) \/ Activate(s) \/ Drain(s) \/ Revoke(s)

Next == \E s \in Sensor : FleetStep(s)

Spec == Init /\ [][Next]_sensors

==============================================================================
