------------------------- MODULE IntegrationDelivery -------------------------
(***************************************************************************)
(* IntegrationTransport.deliver of core/integrations.py: one transport     *)
(* shared by threads, every call bringing an event to one integration with *)
(* bounded retries, an idempotency key, an audit trail and a dead-letter   *)
(* sink.  Nothing is locked: between two posts, and between the look-up of *)
(* the key and the post, other threads run.                                *)
(*                                                                         *)
(* The destination is outside the repository: it may take the event or not *)
(* whenever no answer arrives or the answer asks for a retry, answers 409  *)
(* only for an event it has, and may send any Retry-After: the number in it*)
(* is slept for however large it is, and one that no sleep accepts (inf,   *)
(* nan, beyond the clock) makes the sleep raise out of deliver().          *)
(***************************************************************************)
EXTENDS Integers, FiniteSets

CONSTANTS
  Worker,        \* threads that call deliver()
  Event,         \* events (tenant_id and event_id: one key each)
  Integration,   \* names of configured integrations
  max_attempts   \* RetryPolicy.max_attempts

ASSUME DeliveryAssumption == max_attempts \in Nat \ {0}

VARIABLES
  delivered,     \* _delivered
  audit,         \* audit.records: event, integration, state and attempts
  dead_letter,   \* dead_letter.items
  inbox,         \* what each destination has taken
  job            \* the call each thread is in

deliveryVars == <<delivered, audit, dead_letter, inbox, job>>

\* What the last answer's Retry-After is for a sleep; without one it is 0.
RetryAfter == {"usable", "unusable"}

Idle == [at |-> "idle"]
Call == [at : {"posting", "waiting"}, event : Event, integration : Integration,
         attempts : 1..max_attempts, after : RetryAfter]
Result == [event : Event, integration : Integration, attempts : 0..max_attempts,
           state : {"delivered", "duplicate", "dead_lettered"}]

DeliveryTypeOK ==
  /\ delivered \subseteq Event /\ dead_letter \subseteq Event
  /\ audit \subseteq Result
  /\ inbox \in [Integration -> SUBSET Event]
  /\ job \in [Worker -> Call \cup {Idle}]

DeliveryInit ==
  /\ delivered = {} /\ audit = {} /\ dead_letter = {}
  /\ inbox = [i \in Integration |-> {}]
  /\ job = [w \in Worker |-> Idle]

-----------------------------------------------------------------------------
\* audit.record(result), and deliver() returns it.
Finish(w, e, i, outcome, n) ==
  /\ audit' = audit \cup {[event |-> e, integration |-> i, attempts |-> n, state |-> outcome]}
  /\ job' = [job EXCEPT ![w] = Idle]

\* Mutant: the key is claimed before the first post.
BeginClaiming(w, e, i) ==
  /\ job[w] = Idle
  /\ IF e \in delivered
       THEN Finish(w, e, i, "duplicate", 0) /\ UNCHANGED delivered
       ELSE /\ job' = [job EXCEPT ![w] =
                 [at |-> "posting", event |-> e, integration |-> i,
                  attempts |-> 1, after |-> "usable"]]
            /\ delivered' = delivered \cup {e}
            /\ UNCHANGED audit
  /\ UNCHANGED <<dead_letter, inbox>>

(***************************************************************************)
(* deliver(), up to the first post.  The key does not name the integration.*)
(* A bad endpoint, payload or credential raises here and changes nothing.  *)
(***************************************************************************)
Begin(w, e, i) ==
  /\ job[w] = Idle
  /\ IF e \in delivered
       THEN Finish(w, e, i, "duplicate", 0)
       ELSE /\ job' = [job EXCEPT ![w] =
                 [at |-> "posting", event |-> e, integration |-> i,
                  attempts |-> 1, after |-> "usable"]]
            /\ UNCHANGED audit
  /\ UNCHANGED <<delivered, dead_letter, inbox>>

Takes(e, i) == inbox' = [inbox EXCEPT ![i] = @ \cup {e}]

\* 200, 201, 202, 204, or 409 for an event the destination already has.
Acknowledged(w) ==
  LET c == job[w]
  IN  /\ c.at = "posting"
      /\ \E outcome \in {"delivered", "duplicate"} :
           /\ outcome = "duplicate" => c.event \in inbox[c.integration]
           /\ Finish(w, c.event, c.integration, outcome, c.attempts)
      /\ Takes(c.event, c.integration)
      /\ delivered' = delivered \cup {c.event}
      /\ UNCHANGED dead_letter

Buried(w) == LET c == job[w]
             IN  /\ dead_letter' = dead_letter \cup {c.event}
                 /\ Finish(w, c.event, c.integration, "dead_lettered", c.attempts)
                 /\ UNCHANGED delivered

\* A status outside retry_statuses ends the loop.
Refused(w) == /\ job[w].at = "posting"
              /\ Buried(w)
              /\ UNCHANGED inbox

\* The attempt failed: sleep and post again, or give up after the last one.
\* The destination may have the event.
Failed(w, after) ==
  LET c == job[w]
  IN  /\ c.at = "posting"
      /\ Takes(c.event, c.integration) \/ UNCHANGED inbox
      /\ IF c.attempts < max_attempts
           THEN /\ job' = [job EXCEPT ![w].at = "waiting", ![w].after = after]
                /\ UNCHANGED <<delivered, audit, dead_letter>>
           ELSE Buried(w)

\* A status to retry, with a Retry-After of the destination's choice.
Deferred(w) == \E after \in RetryAfter : Failed(w, after)

\* An exception: `response' is still that of an earlier attempt, if any.
Unanswered(w) == job[w].at = "posting" /\ Failed(w, job[w].after)

\* Mutant: an attempt that failed is not counted.
RetryUncounted(w) == /\ job[w].at = "waiting" /\ job[w].after = "usable"
                     /\ job' = [job EXCEPT ![w].at = "posting"]
                     /\ UNCHANGED <<delivered, audit, dead_letter, inbox>>

\* The sleep is over.  (Its length is the larger of Retry-After and backoff.)
Retry(w) == /\ job[w].at = "waiting" /\ job[w].after = "usable"
            /\ job' = [job EXCEPT ![w].at = "posting", ![w].attempts = @ + 1]
            /\ UNCHANGED <<delivered, audit, dead_letter, inbox>>

\* The sleep raises, and with it deliver(): no record, no dead letter.
SleepRaises(w) == /\ job[w].at = "waiting" /\ job[w].after = "unusable"
                  /\ job' = [job EXCEPT ![w] = Idle]
                  /\ UNCHANGED <<delivered, audit, dead_letter, inbox>>

Post(w) == Acknowledged(w) \/ Refused(w) \/ Deferred(w) \/ Unanswered(w)
Wakes(w) == Retry(w) \/ SleepRaises(w)

DeliveryNext ==
  \E w \in Worker : \/ \E e \in Event, i \in Integration : Begin(w, e, i)
                    \/ Post(w) \/ Wakes(w)

DeliverySpec == DeliveryInit /\ [][DeliveryNext]_deliveryVars

\* A sleep ends, however long it is.  A post need not: its timeout bounds the
\* silence between two bytes of the answer, not the answer.
DeliveryFairness == \A w \in Worker : WF_deliveryVars(Wakes(w))

-----------------------------------------------------------------------------
(***************************************************************************)
(* docs/ENTERPRISE_INTEGRATIONS.md: "Non-retryable and exhausted failures  *)
(* enter a dead-letter sink and produce an audit record."  An event with an*)
(* audit record of any kind is with a destination or in the sink; above all*)
(* nobody is told `duplicate' on the strength of a delivery that is still  *)
(* being tried or has failed.                                              *)
(***************************************************************************)
NothingVanishes ==
  \A r \in audit : r.event \in dead_letter \cup UNION {inbox[i] : i \in Integration}

(***************************************************************************)
(* docs/ENTERPRISE_INTEGRATIONS.md: "Retry attempts are finite".  Every    *)
(* call ends, with a result or an exception, whatever the destination      *)
(* answers and however its answers and its silences alternate, unless one  *)
(* of its posts is never over.                                             *)
(***************************************************************************)
Returns ==
  \A w \in Worker : []<>(job[w] = Idle) \/ <>[](job[w].at = "posting")
==============================================================================
