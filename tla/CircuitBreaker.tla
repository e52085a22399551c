---------------------------- MODULE CircuitBreaker ---------------------------
(***************************************************************************)
(* class CircuitBreaker of core/reliability.py, shared by threads.         *)
(*                                                                         *)
(* The lock covers single methods, not call(): allow() takes it once to    *)
(* read the state and once more to count a probe, fn() runs without it, and*)
(* success() or failure() applies to whatever state the circuit has reached*)
(* by then.  So every thread is a little process: idle, asking (between the*)
(* two locks) or running (inside fn).                                      *)
(*                                                                         *)
(* Only the time since the circuit opened is read, and only compared with  *)
(* recovery_timeout; the number of failures only with failure_threshold.   *)
(* Both are kept up to that value.                                         *)
(***************************************************************************)
EXTENDS Integers, FiniteSets

CONSTANTS Caller, failure_threshold, recovery_timeout, half_open_calls

ASSUME BreakerAssumption ==
  /\ IsFiniteSet(Caller)
  /\ failure_threshold \in Nat \ {0}
  /\ recovery_timeout \in Nat \ {0}
  /\ half_open_calls \in Nat \ {0}

VARIABLES
  state,      \* _state
  failures,   \* _failures, up to the threshold
  age,        \* time.monotonic() - _opened_at, up to the timeout
  probes,     \* _probes
  pc,         \* where the call of each thread stands
  probing,    \* history: threads running a probe of this half-open period
  escaped     \* history: a probe of this period raised a BaseException

circuit == <<state, failures, probes>>
breakerVars == <<state, failures, age, probes, pc, probing, escaped>>

BreakerTypeOK ==
  /\ state \in {"closed", "open", "half_open"}
  /\ failures \in 0..failure_threshold
  /\ age \in 0..recovery_timeout
  /\ probes \in 0..half_open_calls
  /\ pc \in [Caller -> {"idle", "asking", "running"}]
  /\ probing \subseteq Caller
  /\ escaped \in BOOLEAN

BreakerInit ==
  /\ state = "closed" /\ failures = 0 /\ probes = 0
  /\ age = 0
  /\ pc = [c \in Caller |-> "idle"]
  /\ probing = {} /\ escaped = FALSE

-----------------------------------------------------------------------------
Elapsed == state = "open" /\ age = recovery_timeout

\* What the property `state' returns, and what reading it does.
Seen == IF Elapsed THEN "half_open" ELSE state
Read == /\ state' = Seen
        /\ probes' = IF Elapsed THEN 0 ELSE probes
        /\ UNCHANGED <<failures, age, probing, escaped>>

\* Somebody looks at the property.
Observe == Read /\ UNCHANGED pc

\* allow(), first lock: a closed circuit lets the call through at once.
Ask(c) == /\ pc[c] = "idle"
          /\ Read
          /\ pc' = [pc EXCEPT ![c] = IF Seen = "closed" THEN "running" ELSE "asking"]

ProbeFree == state = "half_open" /\ probes < half_open_calls

\* Mutant: the probe is not counted.
AdmitUncounted(c) ==
  /\ pc[c] = "asking" /\ ProbeFree
  /\ probing' = probing \cup {c}
  /\ pc' = [pc EXCEPT ![c] = "running"]
  /\ UNCHANGED <<circuit, age, escaped>>

\* allow(), second lock.
Admit(c) ==
  /\ pc[c] = "asking" /\ ProbeFree
  /\ probes' = probes + 1
  /\ probing' = probing \cup {c}
  /\ pc' = [pc EXCEPT ![c] = "running"]
  /\ UNCHANGED <<state, failures, age, escaped>>

\* The half-open period is over, and with it what was known of its probes.
PeriodEnds == probing' = {} /\ escaped' = FALSE

\* Mutant: CircuitOpenError is raised inside call()'s try, as a failure.
RefuseAsFailure(c) ==
  /\ pc[c] = "asking" /\ ~ ProbeFree
  /\ pc' = [pc EXCEPT ![c] = "idle"]
  /\ state' = "open" /\ probes' = 0 /\ age' = 0 /\ PeriodEnds
  /\ UNCHANGED failures

\* CircuitOpenError.
Refuse(c) ==
  /\ pc[c] = "asking" /\ ~ ProbeFree
  /\ pc' = [pc EXCEPT ![c] = "idle"]
  /\ UNCHANGED <<circuit, age, probing, escaped>>

\* Mutant: success() leaves the failures of the past to be counted again.
ClosePartly == /\ state' = "closed" /\ probes' = 0
               /\ UNCHANGED failures

\* success()
Close == state' = "closed" /\ failures' = 0 /\ probes' = 0

Succeed(c) == /\ pc[c] = "running"
              /\ pc' = [pc EXCEPT ![c] = "idle"]
              /\ Close /\ PeriodEnds
              /\ UNCHANGED age

Counted == IF failures < failure_threshold THEN failures + 1 ELSE failures
Trips == state = "half_open" \/ Counted >= failure_threshold

\* failure(): the call may have begun long before, in any state.
Fail(c) == /\ pc[c] = "running"
           /\ pc' = [pc EXCEPT ![c] = "idle"]
           /\ failures' = Counted
           /\ IF Trips
                THEN state' = "open" /\ age' = 0 /\ probes' = 0 /\ PeriodEnds
                ELSE UNCHANGED <<state, age, probes, probing, escaped>>

\* fn raises a BaseException that is no Exception: neither is called.
Escape(c) == /\ pc[c] = "running"
             /\ pc' = [pc EXCEPT ![c] = "idle"]
             /\ probing' = probing \ {c}
             /\ escaped' = (escaped \/ c \in probing)
             /\ UNCHANGED <<circuit, age>>

Passes == /\ age < recovery_timeout
          /\ age' = age + 1
          /\ UNCHANGED <<circuit, pc, probing, escaped>>

Return(c) == Succeed(c) \/ Fail(c) \/ Escape(c)

BreakerNext == \/ Observe \/ Passes
               \/ \E c \in Caller : Ask(c) \/ Admit(c) \/ Refuse(c) \/ Return(c)

BreakerSpec == BreakerInit /\ [][BreakerNext]_breakerVars

\* Threads are scheduled, what they call has a timeout, and time passes.
BreakerFairness ==
  /\ WF_breakerVars(Passes)
  /\ \A c \in Caller : WF_breakerVars(Admit(c) \/ Refuse(c)) /\ WF_breakerVars(Return(c))

-----------------------------------------------------------------------------
(***************************************************************************)
(* The circuit is closed exactly while fewer failures than the threshold   *)
(* have come since the last success, in whatever order calls of different  *)
(* threads and periods end.                                                *)
(***************************************************************************)
ClosedIffHealthy == state = "closed" <=> failures < failure_threshold

(***************************************************************************)
(* A half-open circuit that refuses calls is waiting for probes that are   *)
(* still running: results of calls from earlier periods never leave it     *)
(* counting probes that are gone.  (A probe that raises a BaseException    *)
(* does: the slot is not given back.)                                      *)
(***************************************************************************)
ProbesAreRunning ==
  /\ \A c \in probing : pc[c] = "running"
  /\ state = "half_open" /\ ~ escaped => probes = Cardinality(probing)

(***************************************************************************)
(* tests/test_reliability.py, test_circuit_opens_and_recovers: once calls  *)
(* stop failing, and as long as callers go on asking, the circuit closes   *)
(* for good, whatever calls were under way when it opened.                 *)
(***************************************************************************)
Recovers ==
  /\ <>[][\A c \in Caller : ~ Fail(c)]_breakerVars
  /\ <>[]~ escaped
  /\ []<><<\E c \in Caller : Ask(c)>>_breakerVars
  => <>[](state = "closed")
==============================================================================
