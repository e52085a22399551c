-------------------------------- MODULE Alerts --------------------------------
(***************************************************************************)
(* core/alert_dedup.py and alerts/: an alert that repeats one of the last  *)
(* seconds is suppressed, another goes to the providers the policy names   *)
(* for its severity, one after the other.  The repository leaves the order *)
(* of the two to whoever calls them; here a result passes through both,    *)
(* and what the dispatcher could not send its caller may dispatch again.   *)
(*                                                                         *)
(* time.time() is the wall clock: it is read anew for every entry that is  *)
(* stored, and may be set back.  The providers are external: any may fail. *)
(***************************************************************************)
EXTENDS Integers, Sequences, FiniteSets

CONSTANTS
  Pattern,      \* what the fingerprint is made of: confidence, technique, fade start, rules
  window_sec,
  max_cache,
  MaxClock,     \* bound on the wall clock
  MaxSends      \* bound on how often one provider gets one result

ASSUME AlertsAssumption == window_sec \in Int /\ max_cache \in Int /\ MaxClock \in Nat /\ MaxSends \in Nat

VARIABLES
  time,         \* the wall clock
  cache,        \* _cache: fingerprint -> time
  alert,        \* the result being handled
  raised,       \* history: when each pattern was last let through, -1 if never
  forgotten,    \* history: patterns cleared or pushed out of the full cache since
  setBack,      \* history: the clock was set back
  sent          \* history: how often each provider has this result

alertVars == <<time, cache, alert, raised, forgotten, setBack, sent>>

\* Two policies' lists; the dispatcher knows the first three of the providers.
Provider == {"slack", "email", "telegram", "pager"}
Listed == {<<"slack", "telegram", "email">>, <<"email", "pager", "slack">>, << >>}
NoAlert == [at |-> "none"]
None == [p \in Provider |-> 0]

AlertInit == /\ time = 0
             /\ cache = << >>
             /\ alert = NoAlert
             /\ raised = [p \in Pattern |-> -1]
             /\ forgotten = {} /\ setBack = FALSE
             /\ sent = None

-----------------------------------------------------------------------------
\* Mutant: an entry as old as the window is old enough.
ExpiredEarly(p) == time - cache[p] >= window_sec

Expired(p) == time - cache[p] > window_sec

Kept == [p \in {q \in DOMAIN cache : ~ Expired(q)} |-> cache[p]]

\* is_duplicate of a detection, whatever its source: the expired go, by the clock as it is now.
Comes(p) ==
  /\ alert = NoAlert
  /\ cache' = Kept
  /\ alert' = [at |-> "looking", pattern |-> p, expiredAt |-> time]
  /\ UNCHANGED <<time, raised, forgotten, setBack, sent>>

\* The entry to make room for: min() takes the first of the oldest.
Oldest == {p \in DOMAIN cache : \A q \in DOMAIN cache : cache[p] <= cache[q]}

\* A repetition is suppressed, and its entry keeps its time.
Suppresses == /\ alert.at = "looking" /\ alert.pattern \in DOMAIN cache
              /\ alert' = [alert EXCEPT !.at = "suppressed"]
              /\ UNCHANGED <<time, cache, raised, forgotten, setBack, sent>>

LetsThrough(evicted) ==
  /\ alert.at = "looking" /\ alert.pattern \notin DOMAIN cache
  /\ IF Cardinality(DOMAIN cache) >= max_cache THEN evicted \in Oldest ELSE evicted = alert.pattern
  /\ cache' = [p \in (DOMAIN cache \ {evicted}) \cup {alert.pattern} |->
                  IF p = alert.pattern THEN time ELSE cache[p]]
  /\ raised' = [raised EXCEPT ![alert.pattern] = time]
  /\ forgotten' = (forgotten \cup {evicted}) \ {alert.pattern}
  /\ alert' = [at |-> "raised", pattern |-> alert.pattern]
  /\ UNCHANGED <<time, setBack, sent>>

\* What is not a detection is neither suppressed nor looked up; cache_size evicts as well.
CountsCache == /\ alert = NoAlert
               /\ cache' = Kept
               /\ UNCHANGED <<time, alert, raised, forgotten, setBack, sent>>

\* clear, between two results.
Clears == /\ alert = NoAlert
          /\ cache' = << >>
          /\ forgotten' = forgotten \cup DOMAIN cache
          /\ UNCHANGED <<time, alert, raised, setBack, sent>>

-----------------------------------------------------------------------------
\* dispatch: the providers for the severity, or the default ones.
Dispatches(list) == /\ alert.at \in {"raised", "failed"}
                    /\ alert.at = "failed" => list = alert.list
                    /\ alert' = [at |-> "sending", list |-> list, next |-> 1, results |-> << >>]
                    /\ UNCHANGED <<time, cache, raised, forgotten, setBack, sent>>

Current == alert.list[alert.next]
Gets(p) == sent[p] < MaxSends /\ sent' = [sent EXCEPT ![p] = @ + 1]
IsSending == alert.at = "sending" /\ alert.next <= Len(alert.list)

\* The URL is https and allowed, the provider answers 2xx; telegram is passed over.
Sends == /\ IsSending /\ Current \in {"slack", "email", "telegram"}
         /\ IF Current = "telegram"
            THEN alert' = [alert EXCEPT !.next = @ + 1] /\ UNCHANGED sent
            ELSE /\ alert' = [alert EXCEPT !.next = @ + 1, !.results = Append(@, Current)]
                 /\ Gets(Current)
         /\ UNCHANGED <<time, cache, raised, forgotten, setBack>>

\* Mutant: a provider that fails is skipped, and dispatch returns without it.
BreaksSkipping == /\ IsSending /\ Current # "telegram"
                  /\ alert' = [alert EXCEPT !.next = @ + 1]
                  /\ UNCHANGED <<time, cache, raised, forgotten, setBack, sent>>

\* No credential, a URL that is refused, an unknown provider, another answer or
\* none, to what the provider may have taken: the exception ends dispatch, and
\* the results so far are lost.
Breaks == /\ IsSending /\ Current # "telegram"
          /\ alert' = [at |-> "failed", list |-> alert.list]
          /\ \/ UNCHANGED sent
             \/ Current # "pager" /\ Gets(Current)
          /\ UNCHANGED <<time, cache, raised, forgotten, setBack>>

\* send_telegram_alert, outside dispatch: a failure is logged and is no exception.
TelegramAlert == /\ alert.at = "raised" /\ Gets("telegram")
                 /\ UNCHANGED <<time, cache, alert, raised, forgotten, setBack>>

\* dispatch returns its results; or the caller has done with this result.
Done == /\ \/ alert.at \in {"suppressed", "failed"}
           \/ alert.at = "sending" /\ alert.next > Len(alert.list)
        /\ alert' = NoAlert
        /\ sent' = None
        /\ UNCHANGED <<time, cache, raised, forgotten, setBack>>

\* The wall clock goes on, or is set back.
Clock == /\ time' \in {time + 1, 0} /\ time' <= MaxClock /\ time' # time
         /\ setBack' = (setBack \/ time' < time)
         /\ UNCHANGED <<cache, alert, raised, forgotten, sent>>

AlertNext == \/ \E p \in Pattern : Comes(p)
             \/ Suppresses
             \/ \E p \in Pattern : LetsThrough(p)
             \/ CountsCache \/ Clears
             \/ \E list \in Listed : Dispatches(list)
             \/ Sends \/ Breaks \/ TelegramAlert \/ Done \/ Clock

AlertSpec == AlertInit /\ [][AlertNext]_alertVars

-----------------------------------------------------------------------------
WasRaised(p, at) == raised[p] # -1 /\ at - raised[p] <= window_sec

(***************************************************************************)
(* "Prevents duplicate alerts": a detection is suppressed only if an equal *)
(* one was let through and, by the clock when the expired entries were     *)
(* removed, no more than window_sec before; and always then, unless the    *)
(* cache was cleared, or full and forgot that one, or the clock set back.  *)
(***************************************************************************)
SuppressedHadAlert ==
  /\ alert.at = "suppressed" => WasRaised(alert.pattern, alert.expiredAt)
  /\ alert.at = "looking" /\ WasRaised(alert.pattern, alert.expiredAt)
        => alert.pattern \in DOMAIN cache \cup forgotten \/ setBack

(***************************************************************************)
(* What dispatch returns as delivered was delivered: a provider the list   *)
(* got past has the result, whatever failed before and was dispatched      *)
(* again, and has it at least as often as those behind it.                 *)
(***************************************************************************)
ReturnedWasSent ==
  alert.at = "sending" =>
    \A k \in 1..(alert.next - 1) : alert.list[k] # "telegram" =>
      /\ sent[alert.list[k]] > 0
      /\ alert.list[k] \in {alert.results[i] : i \in DOMAIN alert.results}
      /\ \A j \in (k + 1)..Len(alert.list) :
           alert.list[j] # "telegram" => sent[alert.list[j]] <= sent[alert.list[k]]
==============================================================================
