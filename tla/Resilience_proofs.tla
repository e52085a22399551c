-------------------------- MODULE Resilience_proofs ---------------------------
(***************************************************************************)
(* Proofs about CircuitBreaker, for any number of threads, threshold,      *)
(* timeout and number of probes, and about IntegrationDelivery, for any    *)
(* threads, events, integrations and number of attempts.                   *)
(***************************************************************************)
EXTENDS CircuitBreaker, IntegrationDelivery, FiniteSetTheorems, TLAPS

-----------------------------------------------------------------------------
(* The circuit breaker.                                                    *)

\* Outside a half-open period there are no probes to account for.
PeriodsApart == state # "half_open" => probing = {} /\ ~ escaped

BreakerInv == BreakerTypeOK /\ ClosedIffHealthy /\ ProbesAreRunning /\ PeriodsApart

-----------------------------------------------------------------------------
LEMMA ProbingIsFinite == ASSUME BreakerTypeOK PROVE IsFiniteSet(probing)
BY BreakerAssumption, FS_Subset DEF BreakerAssumption, BreakerTypeOK

\* Reading the state may begin a half-open period, with no probes in it.
LEMMA ReadStep ==
  ASSUME BreakerInv, Read
  PROVE  /\ state' \in {"closed", "open", "half_open"} /\ probes' \in 0..half_open_calls
         /\ ClosedIffHealthy' /\ PeriodsApart'
         /\ state' = "half_open" /\ ~ escaped' => probes' = Cardinality(probing')
         /\ Seen = "closed" => state' = "closed"
<1>1. CASE Elapsed
  <2>1. state = "open" /\ state' = "half_open" /\ probes' = 0
    BY <1>1 DEF Read, Seen, Elapsed
  <2>2. probing' = {} /\ ~ escaped'
    BY <2>1 DEF Read, BreakerInv, PeriodsApart
  <2>3. Cardinality({}) = 0
    BY FS_EmptySet
  <2>. QED
    BY <1>1, <2>1, <2>2, <2>3, BreakerAssumption
    DEF BreakerAssumption, Read, Seen, BreakerInv, ClosedIffHealthy, PeriodsApart, BreakerTypeOK
<1>2. CASE ~ Elapsed
  BY <1>2 DEF Read, Seen, BreakerInv, ClosedIffHealthy, PeriodsApart, ProbesAreRunning, BreakerTypeOK
<1>. QED  BY <1>1, <1>2

LEMMA ObserveInv == ASSUME BreakerInv, Observe PROVE BreakerInv'
<1>1. Read /\ UNCHANGED pc
  BY DEF Observe
<1>2. BreakerTypeOK'
  BY <1>1, ReadStep DEF Read, BreakerInv, BreakerTypeOK
<1>3. ProbesAreRunning'
  BY <1>1, ReadStep DEF Read, BreakerInv, ProbesAreRunning
<1>. QED  BY <1>1, <1>2, <1>3, ReadStep DEF BreakerInv

LEMMA AskInv == ASSUME BreakerInv, NEW c \in Caller, Ask(c) PROVE BreakerInv'
<1>1. Read /\ pc[c] = "idle"
      /\ pc' = [pc EXCEPT ![c] = IF Seen = "closed" THEN "running" ELSE "asking"]
  BY DEF Ask
<1>2. BreakerTypeOK'
  BY <1>1, ReadStep DEF Read, BreakerInv, BreakerTypeOK
<1>3. c \notin probing
  BY <1>1 DEF BreakerInv, ProbesAreRunning
<1>4. ProbesAreRunning'
  <2>1. \A d \in probing' : pc'[d] = "running"
    BY <1>1, <1>3 DEF Read, BreakerInv, ProbesAreRunning, BreakerTypeOK
  <2>. QED  BY <1>1, <2>1, ReadStep DEF ProbesAreRunning
<1>. QED  BY <1>1, <1>2, <1>4, ReadStep DEF BreakerInv

LEMMA AdmitInv == ASSUME BreakerInv, NEW c \in Caller, Admit(c) PROVE BreakerInv'
<1>1. c \notin probing
  BY DEF Admit, BreakerInv, ProbesAreRunning
<1>2. Cardinality(probing \cup {c}) = Cardinality(probing) + 1
  BY <1>1, ProbingIsFinite, FS_AddElement DEF BreakerInv
<1>3. BreakerTypeOK'
  BY BreakerAssumption DEF BreakerAssumption, Admit, ProbeFree, BreakerInv, BreakerTypeOK
<1>4. ProbesAreRunning'
  <2>1. \A d \in probing' : pc'[d] = "running"
    BY DEF Admit, BreakerInv, ProbesAreRunning, BreakerTypeOK
  <2>2. state' = "half_open" /\ ~ escaped' => probes' = Cardinality(probing')
    BY <1>2 DEF Admit, ProbeFree, BreakerInv, ProbesAreRunning
  <2>. QED  BY <2>1, <2>2 DEF ProbesAreRunning
<1>5. ClosedIffHealthy' /\ PeriodsApart'
  BY DEF Admit, ProbeFree, BreakerInv, ClosedIffHealthy, PeriodsApart
<1>. QED  BY <1>3, <1>4, <1>5 DEF BreakerInv

LEMMA RefuseInv == ASSUME BreakerInv, NEW c \in Caller, Refuse(c) PROVE BreakerInv'
BY DEF Refuse, circuit, BreakerInv, BreakerTypeOK, ClosedIffHealthy, ProbesAreRunning, PeriodsApart

LEMMA SucceedInv == ASSUME BreakerInv, NEW c \in Caller, Succeed(c) PROVE BreakerInv'
<1>1. state' = "closed" /\ failures' = 0 /\ probes' = 0 /\ probing' = {} /\ ~ escaped'
  BY DEF Succeed, Close, PeriodEnds
<1>2. BreakerTypeOK'
  <2>1. escaped' \in BOOLEAN
    BY Zenon DEF Succeed, PeriodEnds
  <2>. QED
    BY <1>1, <2>1, BreakerAssumption DEF BreakerAssumption, Succeed, BreakerInv, BreakerTypeOK
<1>3. ClosedIffHealthy'
  BY <1>1, BreakerAssumption DEF BreakerAssumption, ClosedIffHealthy
<1>4. ProbesAreRunning' /\ PeriodsApart'
  BY <1>1 DEF ProbesAreRunning, PeriodsApart
<1>. QED  BY <1>2, <1>3, <1>4 DEF BreakerInv

LEMMA FailInv == ASSUME BreakerInv, NEW c \in Caller, Fail(c) PROVE BreakerInv'
<1>1. failures' \in 0..failure_threshold
  BY BreakerAssumption DEF BreakerAssumption, Fail, Counted, BreakerInv, BreakerTypeOK
<1>2. CASE Trips
  <2>1. state' = "open" /\ age' = 0 /\ probes' = 0 /\ probing' = {} /\ ~ escaped'
    BY <1>2 DEF Fail, PeriodEnds
  <2>2. failures' = failure_threshold
    BY <1>2, BreakerAssumption
    DEF BreakerAssumption, Fail, Trips, Counted, BreakerInv, BreakerTypeOK, ClosedIffHealthy
  <2>3. BreakerTypeOK'
    <3>1. escaped' \in BOOLEAN
      BY <1>2, Zenon DEF Fail, PeriodEnds
    <3>. QED
      BY <1>1, <2>1, <3>1, BreakerAssumption DEF BreakerAssumption, Fail, BreakerInv, BreakerTypeOK
  <2>4. ClosedIffHealthy'
    BY <2>1, <2>2, BreakerAssumption DEF BreakerAssumption, ClosedIffHealthy
  <2>5. ProbesAreRunning' /\ PeriodsApart'
    BY <2>1 DEF ProbesAreRunning, PeriodsApart
  <2>. QED  BY <2>3, <2>4, <2>5 DEF BreakerInv
<1>3. CASE ~ Trips
  <2>1. UNCHANGED <<state, age, probes, probing, escaped>> /\ state # "half_open"
    BY <1>3 DEF Fail, Trips
  <2>2. failures' < failure_threshold /\ failures < failure_threshold
    BY <1>3, BreakerAssumption DEF BreakerAssumption, Fail, Trips, Counted, BreakerInv, BreakerTypeOK
  <2>3. probing' = {}
    BY <2>1 DEF BreakerInv, PeriodsApart
  <2>. QED
    BY <1>1, <2>1, <2>2, <2>3
    DEF Fail, BreakerInv, BreakerTypeOK, ClosedIffHealthy, ProbesAreRunning, PeriodsApart
<1>. QED  BY <1>2, <1>3

LEMMA EscapeInv == ASSUME BreakerInv, NEW c \in Caller, Escape(c) PROVE BreakerInv'
<1>1. BreakerTypeOK' /\ ClosedIffHealthy'
  BY DEF Escape, circuit, BreakerInv, BreakerTypeOK, ClosedIffHealthy
<1>2. PeriodsApart'
  BY DEF Escape, circuit, BreakerInv, PeriodsApart
<1>3. ProbesAreRunning'
  <2>1. \A d \in probing' : pc'[d] = "running"
    BY DEF Escape, BreakerInv, ProbesAreRunning, BreakerTypeOK
  <2>2. ~ escaped' => probing' = probing /\ ~ escaped
    BY DEF Escape
  <2>. QED  BY <2>1, <2>2 DEF Escape, circuit, BreakerInv, ProbesAreRunning
<1>. QED  BY <1>1, <1>2, <1>3 DEF BreakerInv

LEMMA BreakerInductive == BreakerInv /\ [BreakerNext]_breakerVars => BreakerInv'
<1> SUFFICES ASSUME BreakerInv, [BreakerNext]_breakerVars PROVE BreakerInv'
  OBVIOUS
<1>1. CASE Passes
  BY <1>1, BreakerAssumption
  DEF BreakerAssumption, Passes, circuit, BreakerInv, BreakerTypeOK, ClosedIffHealthy,
      ProbesAreRunning, PeriodsApart
<1>2. CASE UNCHANGED breakerVars
  BY <1>2
  DEF breakerVars, BreakerInv, BreakerTypeOK, ClosedIffHealthy, ProbesAreRunning, PeriodsApart
<1>. QED
  BY <1>1, <1>2, ObserveInv, AskInv, AdmitInv, RefuseInv, SucceedInv, FailInv, EscapeInv
  DEF BreakerNext, Return

THEOREM BreakerInvariance == BreakerSpec => []BreakerInv
<1>1. BreakerInit => BreakerInv
  <2> SUFFICES ASSUME BreakerInit PROVE BreakerInv
    OBVIOUS
  <2>1. BreakerTypeOK
    <3>1. escaped \in BOOLEAN
      BY Zenon DEF BreakerInit
    <3>. QED  BY <3>1, BreakerAssumption DEF BreakerAssumption, BreakerInit, BreakerTypeOK
  <2>2. ClosedIffHealthy
    BY BreakerAssumption DEF BreakerAssumption, BreakerInit, ClosedIffHealthy
  <2>3. ProbesAreRunning /\ PeriodsApart
    BY DEF BreakerInit, ProbesAreRunning, PeriodsApart
  <2>. QED  BY <2>1, <2>2, <2>3 DEF BreakerInv
<1>. QED  BY <1>1, BreakerInductive, PTL DEF BreakerSpec

(***************************************************************************)
(* The state of the circuit is what its failures say (CircuitBreaker's     *)
(* ClosedIffHealthy), with any number of threads and in any order of their *)
(* results.                                                                *)
(***************************************************************************)
THEOREM StateFollowsFailures == BreakerSpec => []ClosedIffHealthy
<1>1. BreakerInv => ClosedIffHealthy
  BY DEF BreakerInv
<1>. QED  BY <1>1, BreakerInvariance, PTL

(***************************************************************************)
(* No probe is counted that is not running (ProbesAreRunning): a half-open *)
(* circuit that refuses has somebody to wait for, unless a probe raised a  *)
(* BaseException.                                                          *)
(***************************************************************************)
THEOREM ProbesAccounted == BreakerSpec => []ProbesAreRunning
<1>1. BreakerInv => ProbesAreRunning
  BY DEF BreakerInv
<1>. QED  BY <1>1, BreakerInvariance, PTL

-----------------------------------------------------------------------------
(* Delivery to integrations.                                               *)

Somewhere == UNION {inbox[i] : i \in Integration}

(***************************************************************************)
(* NothingVanishes by itself is not inductive: a call that finds the key   *)
(* writes a record on the strength of the key alone, so one must know that *)
(* a key is only ever recorded for an event some destination took.         *)
(***************************************************************************)
KeysWereTaken == delivered \subseteq Somewhere

\* A call waits only while it has an attempt left, so the count stays typed.
WaitingHasAttempt == \A w \in Worker : job[w].at = "waiting" => job[w].attempts < max_attempts

DeliveryInv == DeliveryTypeOK /\ WaitingHasAttempt /\ KeysWereTaken /\ NothingVanishes

LEMMA DeliveryInitially == DeliveryInit => DeliveryInv
BY DEF DeliveryInit, DeliveryInv, DeliveryTypeOK, WaitingHasAttempt, KeysWereTaken, NothingVanishes, Idle

\* What a post may leave behind, stated once: an inbox only grows.
LEMMA TakesGrows ==
    ASSUME DeliveryTypeOK, NEW e \in Event, NEW i \in Integration, Takes(e, i)
    PROVE  /\ inbox' \in [Integration -> SUBSET Event]
           /\ Somewhere' = Somewhere \cup {e}
<1>1. /\ inbox' \in [Integration -> SUBSET Event]
      /\ inbox'[i] = inbox[i] \cup {e}
      /\ \A j \in Integration : j # i => inbox'[j] = inbox[j]
  BY DEF Takes, DeliveryTypeOK
<1>2. Somewhere' = Somewhere \cup {e}
  BY <1>1 DEF Somewhere
<1> QED BY <1>1, <1>2

\* The record a call leaves, and the thread's return.
LEMMA FinishTyped ==
    ASSUME DeliveryTypeOK, WaitingHasAttempt, NEW w \in Worker, NEW e \in Event,
           NEW i \in Integration, NEW outcome \in {"delivered", "duplicate", "dead_lettered"},
           NEW n \in 0..max_attempts, Finish(w, e, i, outcome, n)
    PROVE  /\ audit' \subseteq Result
           /\ job' \in [Worker -> Call \cup {Idle}] /\ WaitingHasAttempt'
           /\ \A r \in audit' : r \in audit \/ r.event = e
<1>1. audit' \subseteq Result /\ \A r \in audit' : r \in audit \/ r.event = e
  BY DEF DeliveryTypeOK, Finish, Result
<1>2. job' \in [Worker -> Call \cup {Idle}] /\ WaitingHasAttempt'
  BY DEF DeliveryTypeOK, WaitingHasAttempt, Finish, Idle
<1> QED BY <1>1, <1>2

\* A thread that is in a call has an event, a destination and a count.
LEMMA InCall ==
    ASSUME DeliveryTypeOK, NEW w \in Worker, job[w].at \in {"posting", "waiting"}
    PROVE  /\ job[w] \in Call
           /\ job[w].event \in Event /\ job[w].integration \in Integration
           /\ job[w].attempts \in 1..max_attempts /\ job[w].attempts \in 0..max_attempts
<1>1. job[w] \in Call
  BY DEF DeliveryTypeOK, Idle
<1> QED BY <1>1, DeliveryAssumption DEF Call

LEMMA BeginKeeps ==
    ASSUME DeliveryInv, NEW w \in Worker, NEW e \in Event, NEW i \in Integration, Begin(w, e, i)
    PROVE  DeliveryInv'
<1>1. /\ UNCHANGED <<delivered, dead_letter, inbox>> /\ Somewhere' = Somewhere
  BY DEF Begin, Somewhere
<1>2. CASE e \in delivered
  <2>1. Finish(w, e, i, "duplicate", 0) /\ 0 \in 0..max_attempts
    BY <1>2, DeliveryAssumption DEF Begin
  <2>2. /\ audit' \subseteq Result /\ job' \in [Worker -> Call \cup {Idle}]
        /\ WaitingHasAttempt' /\ \A r \in audit' : r \in audit \/ r.event = e
    BY <2>1, FinishTyped DEF DeliveryInv
  <2> QED BY <1>1, <1>2, <2>2 DEF DeliveryInv, DeliveryTypeOK, KeysWereTaken, NothingVanishes, Somewhere
<1>3. CASE e \notin delivered
  <2>1. /\ audit' = audit
        /\ job' = [job EXCEPT ![w] =
                     [at |-> "posting", event |-> e, integration |-> i,
                      attempts |-> 1, after |-> "usable"]]
    BY <1>3 DEF Begin
  <2>2. [at |-> "posting", event |-> e, integration |-> i,
         attempts |-> 1, after |-> "usable"] \in Call
    BY DeliveryAssumption DEF Call, RetryAfter
  <2> HIDE DEF Call
  <2>3. job' \in [Worker -> Call \cup {Idle}] /\ WaitingHasAttempt'
    BY <2>1, <2>2 DEF DeliveryInv, DeliveryTypeOK, WaitingHasAttempt
  <2> QED BY <1>1, <2>1, <2>3 DEF DeliveryInv, DeliveryTypeOK, KeysWereTaken, NothingVanishes, Somewhere
<1> QED BY <1>2, <1>3

LEMMA AcknowledgedKeeps == ASSUME DeliveryInv, NEW w \in Worker, Acknowledged(w) PROVE DeliveryInv'
<1> DEFINE e == job[w].event
           i == job[w].integration
<1>1. e \in Event /\ i \in Integration /\ job[w].attempts \in 0..max_attempts
  BY InCall DEF DeliveryInv, Acknowledged
<1>2. /\ Takes(e, i) /\ delivered' = delivered \cup {e} /\ dead_letter' = dead_letter
  BY DEF Acknowledged
<1>3. PICK outcome \in {"delivered", "duplicate"} : Finish(w, e, i, outcome, job[w].attempts)
  BY DEF Acknowledged
<1> HIDE DEF e, i
<1>4. /\ audit' \subseteq Result /\ job' \in [Worker -> Call \cup {Idle}]
      /\ WaitingHasAttempt' /\ \A r \in audit' : r \in audit \/ r.event = e
  BY <1>1, <1>3, FinishTyped DEF DeliveryInv
<1>5. inbox' \in [Integration -> SUBSET Event] /\ Somewhere' = Somewhere \cup {e}
  BY <1>1, <1>2, TakesGrows DEF DeliveryInv
<1>6. DeliveryTypeOK'
  BY <1>1, <1>2, <1>4, <1>5 DEF DeliveryInv, DeliveryTypeOK
<1>7. KeysWereTaken'
  BY <1>2, <1>5 DEF DeliveryInv, KeysWereTaken
<1>8. NothingVanishes'
  BY <1>2, <1>4, <1>5 DEF DeliveryInv, NothingVanishes, Somewhere
<1> QED BY <1>4, <1>6, <1>7, <1>8 DEF DeliveryInv

\* What burying does, whether or not the destination took the event as well.
LEMMA BuriedKeeps ==
    ASSUME DeliveryInv, NEW w \in Worker, job[w].at = "posting", Buried(w),
           inbox' \in [Integration -> SUBSET Event], Somewhere \subseteq Somewhere'
    PROVE  DeliveryInv'
<1> DEFINE e == job[w].event
           i == job[w].integration
<1>1. e \in Event /\ i \in Integration /\ job[w].attempts \in 0..max_attempts
  BY InCall DEF DeliveryInv
<1>2. /\ dead_letter' = dead_letter \cup {e} /\ delivered' = delivered
      /\ Finish(w, e, i, "dead_lettered", job[w].attempts)
  BY DEF Buried
<1> HIDE DEF e, i
<1>3. /\ audit' \subseteq Result /\ job' \in [Worker -> Call \cup {Idle}]
      /\ WaitingHasAttempt' /\ \A r \in audit' : r \in audit \/ r.event = e
  BY <1>1, <1>2, FinishTyped DEF DeliveryInv
<1>4. DeliveryTypeOK'
  BY <1>1, <1>2, <1>3 DEF DeliveryInv, DeliveryTypeOK
<1>5. KeysWereTaken'
  BY <1>2 DEF DeliveryInv, KeysWereTaken
<1>6. NothingVanishes'
  BY <1>2, <1>3 DEF DeliveryInv, NothingVanishes, Somewhere
<1> QED BY <1>3, <1>4, <1>5, <1>6 DEF DeliveryInv

LEMMA RefusedKeeps == ASSUME DeliveryInv, NEW w \in Worker, Refused(w) PROVE DeliveryInv'
<1>1. /\ job[w].at = "posting" /\ Buried(w) /\ Somewhere' = Somewhere
      /\ inbox' \in [Integration -> SUBSET Event]
  BY DEF Refused, Somewhere, DeliveryInv, DeliveryTypeOK
<1> QED BY <1>1, BuriedKeeps

LEMMA FailedKeeps ==
    ASSUME DeliveryInv, NEW w \in Worker, NEW after \in RetryAfter, Failed(w, after)
    PROVE  DeliveryInv'
<1>1. /\ job[w].at = "posting" /\ job[w] \in Call
      /\ job[w].event \in Event /\ job[w].integration \in Integration
  BY InCall DEF Failed, DeliveryInv
<1>2. Takes(job[w].event, job[w].integration) \/ inbox' = inbox
  BY DEF Failed
<1>3. inbox' \in [Integration -> SUBSET Event] /\ Somewhere \subseteq Somewhere'
  <2>1. CASE Takes(job[w].event, job[w].integration)
    BY <1>1, <2>1, TakesGrows DEF DeliveryInv
  <2>2. CASE inbox' = inbox
    BY <2>2 DEF Somewhere, DeliveryInv, DeliveryTypeOK
  <2> QED BY <1>2, <2>1, <2>2
<1>4. CASE job[w].attempts < max_attempts
  <2>1. /\ job' = [job EXCEPT ![w] = [job[w] EXCEPT !.at = "waiting", !.after = after]]
        /\ UNCHANGED <<delivered, audit, dead_letter>>
    BY <1>4 DEF Failed
  <2>2. /\ [job[w] EXCEPT !.at = "waiting", !.after = after] \in Call
       /\ [job[w] EXCEPT !.at = "waiting", !.after = after].attempts = job[w].attempts
    BY <1>1 DEF Call
  <2> HIDE DEF Call
  <2>3. job' \in [Worker -> Call \cup {Idle}] /\ WaitingHasAttempt'
    BY <1>4, <2>1, <2>2 DEF DeliveryInv, DeliveryTypeOK, WaitingHasAttempt
  <2> QED BY <1>3, <2>1, <2>3 DEF DeliveryInv, DeliveryTypeOK, KeysWereTaken, NothingVanishes, Somewhere
<1>5. CASE ~ job[w].attempts < max_attempts
  <2>1. Buried(w)
    BY <1>5 DEF Failed
  <2> QED BY <1>1, <1>3, <2>1, BuriedKeeps
<1> QED BY <1>4, <1>5

LEMMA RetryKeeps == ASSUME DeliveryInv, NEW w \in Worker, Retry(w) PROVE DeliveryInv'
<1>1. /\ job[w].at = "waiting" /\ job[w] \in Call /\ job[w].attempts \in 1..max_attempts
      /\ job[w].attempts < max_attempts
  BY InCall DEF Retry, DeliveryInv, WaitingHasAttempt
<1>2. /\ job' = [job EXCEPT ![w] = [job[w] EXCEPT !.at = "posting", !.attempts = @ + 1]]
      /\ UNCHANGED <<delivered, audit, dead_letter, inbox>>
  BY DEF Retry
<1>3. /\ [job[w] EXCEPT !.at = "posting", !.attempts = @ + 1] \in Call
      /\ [job[w] EXCEPT !.at = "posting", !.attempts = @ + 1].at = "posting"
  <2>1. job[w].attempts + 1 \in 1..max_attempts
    BY <1>1, DeliveryAssumption
  <2>2. ASSUME NEW c \in Call PROVE /\ [c EXCEPT !.at = "posting"] \in Call
                                    /\ [c EXCEPT !.at = "posting"].at = "posting"
    BY DEF Call
  <2>3. ASSUME NEW c \in Call, NEW n \in 1..max_attempts
        PROVE  [c EXCEPT !.attempts = n] \in Call /\ [c EXCEPT !.attempts = n].at = c.at
    BY DEF Call
  <2>4. PICK c \in Call : c = [job[w] EXCEPT !.at = "posting"] /\ c.at = "posting"
    BY <1>1, <2>2
  <2> HIDE DEF Call
  <2>5. [c EXCEPT !.attempts = job[w].attempts + 1] \in Call
        /\ [c EXCEPT !.attempts = job[w].attempts + 1].at = "posting"
    BY <2>1, <2>3, <2>4
  <2> QED BY <2>4, <2>5
<1> HIDE DEF Call
<1>4. job' \in [Worker -> Call \cup {Idle}] /\ WaitingHasAttempt'
  BY <1>2, <1>3 DEF DeliveryInv, DeliveryTypeOK, WaitingHasAttempt
<1> QED BY <1>2, <1>4 DEF DeliveryInv, DeliveryTypeOK, KeysWereTaken, NothingVanishes, Somewhere

LEMMA SleepRaisesKeeps == ASSUME DeliveryInv, NEW w \in Worker, SleepRaises(w) PROVE DeliveryInv'
BY DEF SleepRaises, DeliveryInv, DeliveryTypeOK, WaitingHasAttempt, KeysWereTaken,
       NothingVanishes, Somewhere, Idle

LEMMA DeliveryInductive == DeliveryInv /\ [DeliveryNext]_deliveryVars => DeliveryInv'
<1> SUFFICES ASSUME DeliveryInv, [DeliveryNext]_deliveryVars PROVE DeliveryInv'
  OBVIOUS
<1>1. ASSUME NEW w \in Worker, NEW e \in Event, NEW i \in Integration, Begin(w, e, i) PROVE DeliveryInv'
  BY <1>1, BeginKeeps
<1>2. ASSUME NEW w \in Worker, Post(w) PROVE DeliveryInv'
  <2>1. ASSUME Unanswered(w) PROVE job[w].after \in RetryAfter
    BY <2>1, InCall DEF Unanswered, DeliveryInv, Call
  <2> QED BY <1>2, <2>1, AcknowledgedKeeps, RefusedKeeps, FailedKeeps
          DEF Post, Deferred, Unanswered
<1>3. ASSUME NEW w \in Worker, Wakes(w) PROVE DeliveryInv'
  BY <1>3, RetryKeeps, SleepRaisesKeeps DEF Wakes
<1>4. CASE UNCHANGED deliveryVars
  BY <1>4 DEF deliveryVars, DeliveryInv, DeliveryTypeOK, WaitingHasAttempt, KeysWereTaken, NothingVanishes, Somewhere
<1> QED BY <1>1, <1>2, <1>3, <1>4 DEF DeliveryNext

(***************************************************************************)
(* IntegrationTransport.deliver, shared by any number of threads: every    *)
(* event with an audit record of any kind is with a destination or in the  *)
(* dead-letter sink, however calls about the same event overlap.           *)
(***************************************************************************)
THEOREM NoEventVanishes == DeliverySpec => []NothingVanishes
<1>1. DeliveryInv => NothingVanishes
  BY DEF DeliveryInv
<1> QED BY <1>1, DeliveryInitially, DeliveryInductive, PTL DEF DeliverySpec

(***************************************************************************)
(* The idempotency keys: a caller is told `duplicate' without a post of    *)
(* its own only for an event that some destination has taken.              *)
(***************************************************************************)
THEOREM DuplicatesWereTaken == DeliverySpec => []KeysWereTaken
<1>1. DeliveryInv => KeysWereTaken
  BY DEF DeliveryInv
<1> QED BY <1>1, DeliveryInitially, DeliveryInductive, PTL DEF DeliverySpec
==============================================================================
