---------------------------- MODULE Analysis_proofs ----------------------------
(***************************************************************************)
(* The parts of the detection side, for any number of packs, patterns,     *)
(* flows, threads and calls.                                               *)
(***************************************************************************)
EXTENDS DetectionPacks, Alerts, Intake, ApiRequests, AnalystWorkflow,
        FiniteSetTheorems, SequenceTheorems, TLAPS

-----------------------------------------------------------------------------
(***************************************************************************)
(* Detection packs.                                                        *)
(***************************************************************************)
\* The two facts together are inductive: a transition starts from research,
\* or from a stage that is vouched for already.
PacksInv == PacksTypeOK /\ DeployedWasValidated

LEMMA PacksInitially == PacksInit => PacksInv
BY DEF PacksInit, PacksInv, PacksTypeOK, DeployedWasValidated

LEMMA MakeKeeps == ASSUME PacksInv, NEW i \in PackIdentity, MakeIdentity(i) PROVE PacksInv'
<1>1. PacksTypeOK'
  <2>1. Named(i) \in Pack \X Version \X Content
    BY DEF PackIdentity, Named
  <2> QED BY <2>1 DEF PacksInv, PacksTypeOK, MakeIdentity, Returns
<1>2. DeployedWasValidated'
  BY DEF PacksInv, DeployedWasValidated, MakeIdentity, Returns
<1> QED BY <1>1, <1>2 DEF PacksInv

LEMMA TransitionKeeps ==
    ASSUME PacksInv, NEW i \in held, NEW target \in LIFECYCLE, Transition(i, target) PROVE PacksInv'
<1> DEFINE moved == [i EXCEPT !.lifecycle = target]
<1>1. i \in PackIdentity
  BY DEF PacksInv, PacksTypeOK
<1>2. /\ moved \in PackIdentity /\ moved.lifecycle = target /\ Named(moved) = Named(i)
      /\ Named(i) \in Pack \X Version \X Content
  BY <1>1 DEF PackIdentity, Named
<1>3. held' = held \cup {moved}
  BY DEF Transition, Returns
<1>4. vouched' = (IF target = "validated" THEN vouched \cup {Named(i)} ELSE vouched)
  BY DEF Transition
<1>5. i.lifecycle = "research" => target = "validated"
  BY DEF Transition, TRANSITIONS
<1> HIDE DEF moved
<1>6. PacksTypeOK'
  BY <1>2, <1>3, <1>4 DEF PacksInv, PacksTypeOK
<1>7. DeployedWasValidated'
  BY <1>2, <1>3, <1>4, <1>5 DEF PacksInv, DeployedWasValidated
<1> QED BY <1>6, <1>7 DEF PacksInv

LEMMA RollbackKeeps ==
    ASSUME PacksInv, NEW i \in held, NEW previous \in held, Rollback(i, previous) PROVE PacksInv'
<1> DEFINE back == [previous EXCEPT !.lifecycle = "production"]
<1>1. previous \in PackIdentity /\ previous.lifecycle # "research"
  BY DEF PacksInv, PacksTypeOK, Rollback, WasValidated
<1>2. back \in PackIdentity /\ Named(back) = Named(previous)
  BY <1>1 DEF PackIdentity, LIFECYCLE, Named
<1>3. held' = held \cup {back} /\ vouched' = vouched
  BY DEF Rollback, Returns
<1> HIDE DEF back
<1>4. PacksTypeOK'
  BY <1>2, <1>3 DEF PacksInv, PacksTypeOK
<1>5. DeployedWasValidated'
  BY <1>1, <1>2, <1>3 DEF PacksInv, DeployedWasValidated
<1> QED BY <1>4, <1>5 DEF PacksInv

LEMMA PacksInductive == PacksInv /\ [PacksNext]_packVars => PacksInv'
<1> SUFFICES ASSUME PacksInv, [PacksNext]_packVars PROVE PacksInv'
  OBVIOUS
<1>1. CASE \E i \in PackIdentity : MakeIdentity(i)
  BY <1>1, MakeKeeps
<1>2. CASE \E i \in held, target \in LIFECYCLE : Transition(i, target)
  BY <1>2, TransitionKeeps
<1>3. CASE \E i \in held, previous \in held : Rollback(i, previous)
  BY <1>3, RollbackKeeps
<1>4. CASE UNCHANGED packVars
  BY <1>4 DEF PacksInv, PacksTypeOK, DeployedWasValidated, packVars
<1> QED BY <1>1, <1>2, <1>3, <1>4 DEF PacksNext

\* Nothing is ever deployed whose content was not validated or declared to be.
THEOREM NothingDeployedUnvalidated == PacksSpec => []DeployedWasValidated
<1>1. PacksSpec => []PacksInv
  BY PacksInitially, PacksInductive, PTL DEF PacksSpec
<1> QED BY <1>1, PTL DEF PacksInv

-----------------------------------------------------------------------------
(***************************************************************************)
(* Alerts: the deduplication.                                              *)
(***************************************************************************)
AlertTypeOK ==
  /\ time \in Nat
  /\ alert \in {NoAlert} \cup [at : {"looking", "suppressed"}, pattern : Pattern, expiredAt : Nat]
               \cup [at : {"raised"}, pattern : Pattern] \cup [at : {"failed"}, list : Listed]
               \cup [at : {"sending"}, list : Listed, next : Nat, results : Seq(Provider)]
  /\ DOMAIN cache \subseteq Pattern
  /\ raised \in [Pattern -> Nat \cup {-1}]
  /\ setBack \in BOOLEAN
  /\ sent \in [Provider -> Nat]

\* The cache tells when a pattern was last let through, and while one is looked
\* up holds nothing that had expired.
CacheIsTrue ==
  /\ \A p \in DOMAIN cache : raised[p] # -1 /\ cache[p] = raised[p]
  /\ alert.at = "looking" => \A p \in DOMAIN cache : alert.expiredAt - cache[p] <= window_sec

\* What was let through and is in neither the cache nor forgotten has expired.
GoneHaveExpired ==
  ~ setBack => \A p \in Pattern : WasRaised(p, time) => p \in DOMAIN cache \cup forgotten

DedupInv == AlertTypeOK /\ CacheIsTrue /\ GoneHaveExpired /\ SuppressedHadAlert

LEMMA DedupInitially == AlertInit => DedupInv
<1> SUFFICES ASSUME AlertInit PROVE DedupInv
  OBVIOUS
<1>1. DOMAIN cache = {}
  BY DEF AlertInit
<1>2. \A p \in Pattern : ~ WasRaised(p, time)
  BY DEF AlertInit, WasRaised
<1>3. AlertTypeOK
  BY <1>1 DEF AlertInit, AlertTypeOK, None
<1> QED BY <1>1, <1>2, <1>3 DEF AlertInit, DedupInv, CacheIsTrue, GoneHaveExpired, SuppressedHadAlert, NoAlert

\* Where the result stands says which fields its record has.
LEMMA AlertCases ==
  ASSUME AlertTypeOK
  PROVE  /\ alert.at = "none" <=> alert = NoAlert
         /\ alert.at \in {"looking", "suppressed"} =>
              /\ alert = [at |-> alert.at, pattern |-> alert.pattern, expiredAt |-> alert.expiredAt]
              /\ alert.pattern \in Pattern /\ alert.expiredAt \in Nat
         /\ alert.at = "raised" => alert.pattern \in Pattern
         /\ alert.at = "failed" => alert = [at |-> "failed", list |-> alert.list] /\ alert.list \in Listed
         /\ alert.at = "sending" =>
              /\ alert = [at |-> "sending", list |-> alert.list, next |-> alert.next, results |-> alert.results]
              /\ alert.list \in Listed /\ alert.next \in Nat /\ alert.results \in Seq(Provider)
BY DEF AlertTypeOK, NoAlert

LEMMA ComesKeeps == ASSUME DedupInv, NEW p \in Pattern, Comes(p) PROVE DedupInv'
<1>1. /\ alert' = [at |-> "looking", pattern |-> p, expiredAt |-> time]
      /\ cache' = Kept /\ time' = time /\ raised' = raised /\ forgotten' = forgotten
      /\ setBack' = setBack /\ sent' = sent
  BY DEF Comes
<1>2. /\ DOMAIN Kept = {q \in DOMAIN cache : ~ Expired(q)}
      /\ \A q \in DOMAIN Kept : Kept[q] = cache[q] /\ time - cache[q] <= window_sec
  <2>1. \A q \in DOMAIN cache : cache[q] \in Int
    BY DEF DedupInv, AlertTypeOK, CacheIsTrue
  <2> QED BY <2>1, AlertsAssumption DEF Kept, Expired, DedupInv, AlertTypeOK
<1>3. AlertTypeOK'
  BY <1>1, <1>2 DEF DedupInv, AlertTypeOK
<1>4. CacheIsTrue'
  BY <1>1, <1>2 DEF DedupInv, CacheIsTrue
<1>5. GoneHaveExpired'
  <2> SUFFICES ASSUME ~ setBack, NEW q \in Pattern, WasRaised(q, time)
               PROVE  q \in DOMAIN Kept \cup forgotten
    BY <1>1 DEF GoneHaveExpired, WasRaised
  <2>1. q \in DOMAIN cache \cup forgotten
    BY DEF DedupInv, GoneHaveExpired
  <2>2. q \in DOMAIN cache => ~ Expired(q)
    BY AlertsAssumption DEF DedupInv, CacheIsTrue, AlertTypeOK, WasRaised, Expired
  <2> QED BY <2>1, <2>2, <1>2
<1>6. SuppressedHadAlert'
  BY <1>1, <1>5 DEF SuppressedHadAlert, GoneHaveExpired, WasRaised
<1> QED BY <1>3, <1>4, <1>5, <1>6 DEF DedupInv

LEMMA LetsThroughKeeps == ASSUME DedupInv, NEW evicted \in Pattern, LetsThrough(evicted) PROVE DedupInv'
<1> DEFINE p == alert.pattern
<1>1. p \in Pattern /\ alert.at = "looking"
  BY AlertCases DEF DedupInv, LetsThrough
<1>2. /\ alert' = [at |-> "raised", pattern |-> p]
      /\ cache' = [q \in (DOMAIN cache \ {evicted}) \cup {p} |-> IF q = p THEN time ELSE cache[q]]
      /\ raised' = [raised EXCEPT ![p] = time] /\ forgotten' = (forgotten \cup {evicted}) \ {p}
      /\ time' = time /\ setBack' = setBack /\ sent' = sent
  BY DEF LetsThrough
<1> HIDE DEF p
<1>3. /\ DOMAIN cache' = {p} \cup (DOMAIN cache \ {evicted})
      /\ \A q \in DOMAIN cache' : cache'[q] = IF q = p THEN time ELSE cache[q]
  BY <1>2
<1>4. /\ raised' \in [Pattern -> Nat \cup {-1}]
      /\ \A q \in Pattern : raised'[q] = IF q = p THEN time ELSE raised[q]
      /\ time \in Nat
  BY <1>1, <1>2 DEF DedupInv, AlertTypeOK
<1>5. AlertTypeOK'
  BY <1>1, <1>2, <1>3, <1>4 DEF DedupInv, AlertTypeOK
<1>6. CacheIsTrue'
  <2> SUFFICES ASSUME NEW q \in DOMAIN cache' PROVE raised'[q] # -1 /\ cache'[q] = raised'[q]
    BY <1>2 DEF CacheIsTrue
  <2>1. CASE q = p
    BY <2>1, <1>1, <1>3, <1>4
  <2>2. CASE q # p
    <3>1. q \in DOMAIN cache /\ q \in Pattern
      BY <2>2, <1>3 DEF DedupInv, AlertTypeOK
    <3> QED BY <2>2, <3>1, <1>3, <1>4 DEF DedupInv, CacheIsTrue
  <2> QED BY <2>1, <2>2
<1>7. GoneHaveExpired'
  <2> SUFFICES ASSUME ~ setBack, NEW q \in Pattern, WasRaised(q, time)', q # p
               PROVE  q \in DOMAIN cache' \cup forgotten'
    BY <1>2, <1>3 DEF GoneHaveExpired
  <2>1. WasRaised(q, time)
    BY <1>2, <1>4 DEF WasRaised
  <2>2. q \in DOMAIN cache \cup forgotten
    BY <2>1 DEF DedupInv, GoneHaveExpired
  <2> QED BY <2>2, <1>2, <1>3
<1>8. SuppressedHadAlert'
  BY <1>2 DEF SuppressedHadAlert
<1> QED BY <1>5, <1>6, <1>7, <1>8 DEF DedupInv

\* The dispatch does not touch the cache, and a result it handles was let through.
LEMMA OthersKeepDedup ==
  ASSUME DedupInv, AlertTypeOK',
         UNCHANGED <<cache, raised, forgotten>>,
         (setBack' = setBack /\ time' = time) \/ setBack' \/ (setBack' = setBack /\ time' >= time),
         alert' = alert \/ alert'.at \in {"none", "raised", "sending", "failed"}
                        \/ (alert.at = "looking" /\ alert.pattern \in DOMAIN cache
                              /\ alert' = [alert EXCEPT !.at = "suppressed"])
  PROVE  DedupInv'
<1>1. /\ cache' = cache /\ raised' = raised /\ forgotten' = forgotten
      /\ time \in Nat /\ time' \in Nat /\ raised \in [Pattern -> Nat \cup {-1}] /\ DOMAIN cache \subseteq Pattern
  BY DEF DedupInv, AlertTypeOK
<1>2. alert.at \in {"looking", "suppressed"} =>
        /\ alert = [at |-> alert.at, pattern |-> alert.pattern, expiredAt |-> alert.expiredAt]
        /\ alert.pattern \in Pattern /\ alert.expiredAt \in Nat
  BY AlertCases DEF DedupInv
<1>3. CacheIsTrue'
  BY <1>1, <1>2 DEF DedupInv, CacheIsTrue
<1>4. GoneHaveExpired'
  <2> SUFFICES ASSUME ~ setBack', NEW p \in Pattern, WasRaised(p, time)' PROVE p \in DOMAIN cache \cup forgotten
    BY <1>1 DEF GoneHaveExpired
  <2>1. ~ setBack /\ time' >= time
    BY <1>1
  <2>2. WasRaised(p, time)
    BY <1>1, <2>1, AlertsAssumption DEF WasRaised
  <2> QED BY <2>1, <2>2 DEF DedupInv, GoneHaveExpired
<1>5. SuppressedHadAlert'
  <2>1. CASE alert' = alert
    BY <1>1, <2>1 DEF DedupInv, SuppressedHadAlert, WasRaised
  <2>2. CASE alert'.at \in {"none", "raised", "sending", "failed"}
    BY <2>2 DEF SuppressedHadAlert
  <2>3. CASE /\ alert.at = "looking" /\ alert.pattern \in DOMAIN cache
             /\ alert' = [alert EXCEPT !.at = "suppressed"]
    <3>1. alert' = [at |-> "suppressed", pattern |-> alert.pattern, expiredAt |-> alert.expiredAt]
      BY <1>2, <2>3
    <3>2. WasRaised(alert.pattern, alert.expiredAt)
      BY <2>3, <1>1 DEF DedupInv, CacheIsTrue, WasRaised
    <3> QED BY <3>1, <3>2, <1>1 DEF SuppressedHadAlert, WasRaised
  <2> QED BY <2>1, <2>2, <2>3
<1> QED BY <1>3, <1>4, <1>5 DEF DedupInv

-----------------------------------------------------------------------------
(***************************************************************************)
(* Alerts: the dispatch.                                                   *)
(***************************************************************************)
IsServed(list, k) == k \in DOMAIN list /\ list[k] # "telegram"

\* An earlier provider has the result as often as a later one, and once more
\* while the dispatch is between the two.
ServedInOrder(list, next) ==
  \A k, j \in DOMAIN list : IsServed(list, k) /\ IsServed(list, j) /\ k < j =>
    sent[list[j]] + (IF k < next /\ next <= j THEN 1 ELSE 0) <= sent[list[k]]

DispatchInv ==
  /\ alert.at \in {"none", "looking", "suppressed", "raised"} =>
       \A p \in Provider \ {"telegram"} : sent[p] = 0
  /\ alert.at = "failed" => ServedInOrder(alert.list, 1)
  /\ alert.at = "sending" =>
       /\ alert.next \in 1..(Len(alert.list) + 1)
       /\ ServedInOrder(alert.list, alert.next)
       /\ \A k \in 1..(alert.next - 1) : IsServed(alert.list, k) =>
            sent[alert.list[k]] > 0 /\ alert.list[k] \in {alert.results[i] : i \in DOMAIN alert.results}

LEMMA NobodyIsListedTwice ==
  \A list \in Listed : /\ list \in Seq(Provider)
                       /\ \A k, j \in DOMAIN list : list[k] = list[j] => k = j
<1> SUFFICES ASSUME NEW list \in Listed
             PROVE  /\ list \in Seq(Provider)
                    /\ \A k, j \in DOMAIN list : list[k] = list[j] => k = j
  OBVIOUS
<1>1. CASE list = <<"slack", "telegram", "email">>
  BY <1>1 DEF Provider
<1>2. CASE list = <<"email", "pager", "slack">>
  BY <1>2 DEF Provider
<1>3. CASE list = << >>
  BY <1>3
<1> QED BY <1>1, <1>2, <1>3 DEF Listed

LEMMA DispatchesKeeps ==
  ASSUME AlertTypeOK, DispatchInv, NEW list \in Listed, Dispatches(list) PROVE AlertTypeOK' /\ DispatchInv'
<1>1. /\ alert' = [at |-> "sending", list |-> list, next |-> 1, results |-> << >>]
      /\ UNCHANGED <<time, cache, raised, forgotten, setBack, sent>>
  BY DEF Dispatches
<1>2. AlertTypeOK'
  BY <1>1 DEF AlertTypeOK
<1>3. list \in Seq(Provider)
  BY NobodyIsListedTwice
<1>4. ServedInOrder(list, 1)
  <2>1. CASE alert.at = "raised"
    <3>1. \A k \in DOMAIN list : IsServed(list, k) => sent[list[k]] = 0
      BY <2>1, <1>3 DEF DispatchInv, IsServed
    <3> QED BY <3>1, <1>3 DEF ServedInOrder
  <2>2. CASE alert.at = "failed"
    BY <2>2 DEF DispatchInv, Dispatches
  <2> QED BY <2>1, <2>2 DEF Dispatches
<1>5. DispatchInv'
  BY <1>1, <1>3, <1>4 DEF DispatchInv, ServedInOrder
<1> QED BY <1>2, <1>5

\* A provider further on that gets the result, as the one at hand does, has it
\* no more often than those before it.
LEMMA OneMoreServed ==
  ASSUME AlertTypeOK, DispatchInv, IsSending, Current # "telegram",
         sent' = [sent EXCEPT ![Current] = @ + 1]
  PROVE  /\ sent' \in [Provider -> Nat]
         /\ \A k, j \in DOMAIN alert.list :
              IsServed(alert.list, k) /\ IsServed(alert.list, j) /\ k < j =>
                sent'[alert.list[j]] + (IF k < alert.next + 1 /\ alert.next + 1 <= j THEN 1 ELSE 0)
                  <= sent'[alert.list[k]]
         /\ \A k \in 1..(alert.next - 1) : IsServed(alert.list, k) => sent'[alert.list[k]] = sent[alert.list[k]]
         /\ sent'[Current] > 0
<1> DEFINE list == alert.list  at == alert.next
<1>1. /\ list \in Seq(Provider) /\ at \in 1..Len(list) /\ DOMAIN list = 1..Len(list)
      /\ \A k, j \in DOMAIN list : list[k] = list[j] => k = j
  BY AlertCases, NobodyIsListedTwice DEF DispatchInv, IsSending
<1>2. Current = list[at] /\ IsServed(list, at)
  BY <1>1 DEF Current, IsServed
<1>3. ServedInOrder(list, at)
  BY DEF DispatchInv, IsSending
<1> HIDE DEF list, at
<1>4. \A k \in DOMAIN list : sent'[list[k]] = sent[list[k]] + (IF k = at THEN 1 ELSE 0)
  BY <1>1, <1>2 DEF AlertTypeOK
<1>5. \A k \in DOMAIN list : sent[list[k]] \in Nat
  BY <1>1 DEF AlertTypeOK
<1>6. sent' \in [Provider -> Nat]
  BY <1>1, <1>2 DEF AlertTypeOK
<1>7. ASSUME NEW k \in DOMAIN list, NEW j \in DOMAIN list, IsServed(list, k), IsServed(list, j), k < j
      PROVE  sent'[list[j]] + (IF k < at + 1 /\ at + 1 <= j THEN 1 ELSE 0) <= sent'[list[k]]
  <2>1. sent[list[j]] + (IF k < at /\ at <= j THEN 1 ELSE 0) <= sent[list[k]]
    BY <1>3, <1>7 DEF ServedInOrder
  <2> QED BY <2>1, <1>1, <1>4, <1>5, <1>7
<1>8. \A k \in 1..(at - 1) : sent'[list[k]] = sent[list[k]]
  BY <1>1, <1>4, <1>5
<1>9. sent'[Current] > 0
  BY <1>1, <1>2, <1>4, <1>5
<1> QED BY <1>6, <1>7, <1>8, <1>9 DEF list, at

LEMMA SendsKeeps == ASSUME AlertTypeOK, DispatchInv, Sends PROVE AlertTypeOK' /\ DispatchInv'
<1> DEFINE list == alert.list  at == alert.next  results == alert.results
<1>1. /\ alert = [at |-> "sending", list |-> list, next |-> at, results |-> results]
      /\ list \in Listed /\ list \in Seq(Provider) /\ at \in 1..Len(list) /\ DOMAIN list = 1..Len(list)
      /\ results \in Seq(Provider) /\ Current = list[at] /\ Current \in Provider
  BY AlertCases, NobodyIsListedTwice DEF DispatchInv, Sends, IsSending, Current
<1>2. UNCHANGED <<time, cache, raised, forgotten, setBack>>
  BY DEF Sends
<1>3. /\ ServedInOrder(list, at)
      /\ \A k \in 1..(at - 1) : IsServed(list, k) =>
           sent[list[k]] > 0 /\ list[k] \in {results[i] : i \in DOMAIN results}
  BY <1>1 DEF DispatchInv
<1>4. IsServed(list, at) <=> Current # "telegram"
  BY <1>1 DEF IsServed
<1> HIDE DEF list, at, results
<1>5. CASE Current = "telegram"
  <2>1. alert' = [at |-> "sending", list |-> list, next |-> at + 1, results |-> results] /\ sent' = sent
    BY <1>1, <1>5 DEF Sends
  <2>2. AlertTypeOK'
    BY <1>1, <1>2, <2>1 DEF AlertTypeOK
  <2>3. ASSUME NEW k \in DOMAIN list, NEW j \in DOMAIN list, IsServed(list, k), IsServed(list, j), k < j
        PROVE  sent[list[j]] + (IF k < at + 1 /\ at + 1 <= j THEN 1 ELSE 0) <= sent[list[k]]
    <3>1. k # at /\ j # at
      BY <1>4, <1>5, <2>3
    <3>2. sent[list[j]] + (IF k < at /\ at <= j THEN 1 ELSE 0) <= sent[list[k]]
      BY <1>3, <2>3 DEF ServedInOrder
    <3> QED BY <3>1, <3>2, <1>1
  <2>4. \A k \in 1..at : IsServed(list, k) =>
           sent[list[k]] > 0 /\ list[k] \in {results[i] : i \in DOMAIN results}
    <3> SUFFICES ASSUME NEW k \in 1..at, IsServed(list, k)
                 PROVE  sent[list[k]] > 0 /\ list[k] \in {results[i] : i \in DOMAIN results}
      OBVIOUS
    <3>1. k \in 1..(at - 1)
      BY <1>1, <1>4, <1>5
    <3> QED BY <3>1, <1>3
  <2>5. DispatchInv'
    BY <1>1, <2>1, <2>3, <2>4 DEF DispatchInv, ServedInOrder, IsServed
  <2> QED BY <2>2, <2>5
<1>6. CASE Current # "telegram"
  <2>1. /\ alert' = [at |-> "sending", list |-> list, next |-> at + 1, results |-> Append(results, Current)]
        /\ sent' = [sent EXCEPT ![Current] = @ + 1]
    BY <1>1, <1>6 DEF Sends, Gets
  <2>2. /\ sent' \in [Provider -> Nat]
        /\ \A k, j \in DOMAIN list : IsServed(list, k) /\ IsServed(list, j) /\ k < j =>
             sent'[list[j]] + (IF k < at + 1 /\ at + 1 <= j THEN 1 ELSE 0) <= sent'[list[k]]
        /\ \A k \in 1..(at - 1) : IsServed(list, k) => sent'[list[k]] = sent[list[k]]
        /\ sent'[Current] > 0
    BY <1>6, <2>1, OneMoreServed DEF list, at, Sends
  <2>3. AlertTypeOK'
    BY <1>1, <1>2, <2>1, <2>2 DEF AlertTypeOK
  <2>4. /\ Append(results, Current) \in Seq(Provider)
        /\ Current \in {Append(results, Current)[i] : i \in DOMAIN Append(results, Current)}
        /\ {results[i] : i \in DOMAIN results} \subseteq
             {Append(results, Current)[i] : i \in DOMAIN Append(results, Current)}
    <3>1. /\ DOMAIN results = 1..Len(results) /\ DOMAIN Append(results, Current) = 1..(Len(results) + 1)
          /\ \A i \in 1..Len(results) : Append(results, Current)[i] = results[i]
          /\ Append(results, Current)[Len(results) + 1] = Current
          /\ Len(results) \in Nat
      BY <1>1
    <3> QED BY <3>1, <1>1
  <2>5. \A k \in 1..at : IsServed(list, k) =>
           /\ sent'[list[k]] > 0
           /\ list[k] \in {Append(results, Current)[i] : i \in DOMAIN Append(results, Current)}
    <3> SUFFICES ASSUME NEW k \in 1..at, IsServed(list, k)
                 PROVE  /\ sent'[list[k]] > 0
                        /\ list[k] \in {Append(results, Current)[i] : i \in DOMAIN Append(results, Current)}
      OBVIOUS
    <3>1. CASE k = at
      BY <3>1, <1>1, <2>2, <2>4
    <3>2. CASE k # at
      <4>1. k \in 1..(at - 1)
        BY <3>2, <1>1
      <4> QED BY <4>1, <1>3, <2>2, <2>4
    <3> QED BY <3>1, <3>2
  <2>6. DispatchInv'
    BY <1>1, <2>1, <2>2, <2>5 DEF DispatchInv, ServedInOrder, IsServed
  <2> QED BY <2>3, <2>6
<1> QED BY <1>5, <1>6

LEMMA BreaksKeeps == ASSUME AlertTypeOK, DispatchInv, Breaks PROVE AlertTypeOK' /\ DispatchInv'
<1> DEFINE list == alert.list  at == alert.next
<1>1. /\ list \in Listed /\ list \in Seq(Provider) /\ DOMAIN list = 1..Len(list) /\ at \in 1..Len(list)
      /\ alert' = [at |-> "failed", list |-> list]
      /\ Current # "telegram" /\ IsSending
      /\ UNCHANGED <<time, cache, raised, forgotten, setBack>>
  BY AlertCases, NobodyIsListedTwice DEF DispatchInv, Breaks, IsSending
<1>2. ServedInOrder(list, at)
  BY DEF DispatchInv, Breaks, IsSending
<1>3. \A k \in DOMAIN list : sent[list[k]] \in Nat
  BY <1>1 DEF AlertTypeOK
<1> HIDE DEF list, at
<1>4. /\ sent' \in [Provider -> Nat]
      /\ \A k, j \in DOMAIN list : IsServed(list, k) /\ IsServed(list, j) /\ k < j =>
           sent'[list[j]] <= sent'[list[k]]
  <2>1. CASE sent' = sent
    BY <2>1, <1>1, <1>2, <1>3 DEF ServedInOrder, AlertTypeOK
  <2>2. CASE Gets(Current)
    <3>1. /\ sent' \in [Provider -> Nat]
          /\ \A k, j \in DOMAIN list : IsServed(list, k) /\ IsServed(list, j) /\ k < j =>
               sent'[list[j]] + (IF k < at + 1 /\ at + 1 <= j THEN 1 ELSE 0) <= sent'[list[k]]
      BY <1>1, <2>2, OneMoreServed DEF Gets, list, at
    <3>2. \A k \in DOMAIN list : sent'[list[k]] \in Nat
      BY <1>1, <3>1
    <3>3. ASSUME NEW k \in DOMAIN list, NEW j \in DOMAIN list, IsServed(list, k), IsServed(list, j), k < j
          PROVE  sent'[list[j]] <= sent'[list[k]]
      <4>1. sent'[list[j]] + (IF k < at + 1 /\ at + 1 <= j THEN 1 ELSE 0) <= sent'[list[k]]
        BY <3>1, <3>3
      <4> QED BY <4>1, <3>2
    <3> QED BY <3>1, <3>3
  <2> QED BY <2>1, <2>2 DEF Breaks
<1>5. AlertTypeOK'
  BY <1>1, <1>4 DEF AlertTypeOK
<1>6. \A k \in DOMAIN list : sent'[list[k]] \in Nat
  BY <1>1, <1>4
<1>7. DispatchInv'
  BY <1>1, <1>4, <1>6 DEF DispatchInv, ServedInOrder, IsServed
<1> QED BY <1>5, <1>7

AlertInv == DedupInv /\ DispatchInv

LEMMA AlertInitially == AlertInit => AlertInv
<1> SUFFICES ASSUME AlertInit PROVE AlertInv
  OBVIOUS
<1>1. DispatchInv
  BY DEF AlertInit, DispatchInv, NoAlert, None
<1> QED BY <1>1, DedupInitially DEF AlertInv

LEMMA AlertInductive == AlertInv /\ [AlertNext]_alertVars => AlertInv'
<1> SUFFICES ASSUME AlertInv, [AlertNext]_alertVars PROVE AlertInv'
  OBVIOUS
<1>0. AlertTypeOK /\ DedupInv /\ DispatchInv
  BY DEF AlertInv, DedupInv
<1>1. ASSUME NEW p \in Pattern, Comes(p) PROVE AlertInv'
  <2>1. DispatchInv'
    BY <1>0, <1>1 DEF DispatchInv, Comes, NoAlert
  <2> QED BY <2>1, <1>0, <1>1, ComesKeeps DEF AlertInv
<1>2. ASSUME NEW p \in Pattern, LetsThrough(p) PROVE AlertInv'
  <2>1. DispatchInv'
    BY <1>0, <1>2 DEF DispatchInv, LetsThrough
  <2> QED BY <2>1, <1>0, <1>2, LetsThroughKeeps DEF AlertInv
<1>3. CASE Suppresses
  <2>1. alert' = [at |-> "suppressed", pattern |-> alert.pattern, expiredAt |-> alert.expiredAt]
        /\ alert.pattern \in Pattern /\ alert.expiredAt \in Nat
    BY <1>0, <1>3, AlertCases DEF Suppresses
  <2>2. AlertTypeOK'
    BY <1>0, <1>3, <2>1 DEF Suppresses, AlertTypeOK
  <2>3. DispatchInv'
    BY <1>0, <1>3, <2>1 DEF Suppresses, DispatchInv
  <2> QED BY <1>0, <1>3, <2>2, <2>3, OthersKeepDedup DEF AlertInv, Suppresses
<1>4. CASE CountsCache
  <2>1. /\ DOMAIN cache' = {q \in DOMAIN cache : ~ Expired(q)}
        /\ \A q \in DOMAIN cache' : cache'[q] = cache[q]
        /\ UNCHANGED <<time, alert, raised, forgotten, setBack, sent>> /\ alert.at = "none"
    BY <1>4 DEF CountsCache, Kept, NoAlert
  <2>2. AlertTypeOK'
    BY <1>0, <2>1 DEF AlertTypeOK
  <2>3. CacheIsTrue'
    BY <1>0, <2>1 DEF DedupInv, CacheIsTrue
  <2>4. GoneHaveExpired'
    <3> SUFFICES ASSUME ~ setBack, NEW q \in Pattern, WasRaised(q, time)
                 PROVE  q \in DOMAIN cache' \cup forgotten
      BY <2>1 DEF GoneHaveExpired, WasRaised
    <3>1. q \in DOMAIN cache \cup forgotten
      BY <1>0 DEF DedupInv, GoneHaveExpired
    <3>2. q \in DOMAIN cache => ~ Expired(q)
      BY <1>0, AlertsAssumption DEF DedupInv, CacheIsTrue, AlertTypeOK, WasRaised, Expired
    <3> QED BY <3>1, <3>2, <2>1
  <2>5. SuppressedHadAlert'
    BY <2>1 DEF SuppressedHadAlert
  <2>6. DispatchInv'
    BY <1>0, <2>1 DEF DispatchInv
  <2> QED BY <2>2, <2>3, <2>4, <2>5, <2>6 DEF AlertInv, DedupInv
<1>12. CASE Clears
  <2>1. /\ DOMAIN cache' = {} /\ forgotten' = forgotten \cup DOMAIN cache
        /\ UNCHANGED <<time, alert, raised, setBack, sent>> /\ alert.at = "none"
    BY <1>12 DEF Clears, NoAlert
  <2>2. AlertTypeOK'
    BY <1>0, <2>1 DEF AlertTypeOK
  <2>3. CacheIsTrue'
    BY <1>0, <2>1 DEF DedupInv, CacheIsTrue
  <2>4. GoneHaveExpired'
    BY <1>0, <2>1 DEF DedupInv, GoneHaveExpired, WasRaised
  <2>5. SuppressedHadAlert'
    BY <2>1 DEF SuppressedHadAlert
  <2>6. DispatchInv'
    BY <1>0, <2>1 DEF DispatchInv
  <2> QED BY <2>2, <2>3, <2>4, <2>5, <2>6 DEF AlertInv, DedupInv
<1>5. ASSUME NEW list \in Listed, Dispatches(list) PROVE AlertInv'
  <2>1. AlertTypeOK' /\ DispatchInv'
    BY <1>0, <1>5, DispatchesKeeps
  <2> QED BY <1>0, <1>5, <2>1, OthersKeepDedup DEF AlertInv, Dispatches
<1>6. CASE Sends
  <2>1. AlertTypeOK' /\ DispatchInv'
    BY <1>0, <1>6, SendsKeeps
  <2>2. alert'.at = "sending"
    BY <1>0, <1>6, AlertCases DEF Sends, IsSending
  <2> QED BY <1>0, <1>6, <2>1, <2>2, OthersKeepDedup DEF AlertInv, Sends
<1>7. CASE Breaks
  <2>1. AlertTypeOK' /\ DispatchInv'
    BY <1>0, <1>7, BreaksKeeps
  <2> QED BY <1>0, <1>7, <2>1, OthersKeepDedup DEF AlertInv, Breaks
<1>8. CASE TelegramAlert
  <2>1. /\ UNCHANGED <<time, cache, alert, raised, forgotten, setBack>>
        /\ alert.at = "raised"
        /\ sent' \in [Provider -> Nat]
        /\ \A p \in Provider \ {"telegram"} : sent'[p] = sent[p]
    BY <1>0, <1>8 DEF TelegramAlert, Gets, AlertTypeOK, Provider
  <2>2. AlertTypeOK' /\ DispatchInv'
    BY <1>0, <2>1 DEF AlertTypeOK, DispatchInv
  <2> QED BY <1>0, <2>1, <2>2, OthersKeepDedup DEF AlertInv
<1>9. CASE Done
  <2>1. AlertTypeOK' /\ DispatchInv'
    BY <1>0, <1>9 DEF Done, AlertTypeOK, DispatchInv, None, NoAlert
  <2> QED BY <1>0, <1>9, <2>1, OthersKeepDedup DEF AlertInv, Done, NoAlert
<1>10. CASE Clock
  <2>1. /\ UNCHANGED <<cache, alert, raised, forgotten, sent>> /\ time' \in Nat /\ setBack' \in BOOLEAN
    BY <1>0, <1>10 DEF Clock, AlertTypeOK
  <2>2. setBack' \/ (setBack' = setBack /\ time' >= time)
    <3>1. (time' < time) \/ (time' >= time)
      BY <1>0, <2>1 DEF AlertTypeOK
    <3>2. setBack' = (setBack \/ time' < time) /\ setBack \in BOOLEAN
      BY <1>0, <1>10 DEF Clock, AlertTypeOK
    <3>3. CASE time' < time
      BY <3>2, <3>3
    <3>4. CASE time' >= time
      <4>1. ~ (time' < time)
        BY <1>0, <2>1, <3>4 DEF AlertTypeOK
      <4> QED BY <3>2, <3>4, <4>1
    <3> QED BY <3>1, <3>3, <3>4
  <2>3. AlertTypeOK' /\ DispatchInv'
    BY <1>0, <2>1 DEF AlertTypeOK, DispatchInv, ServedInOrder
  <2> QED BY <1>0, <2>1, <2>2, <2>3, OthersKeepDedup DEF AlertInv
<1>11. CASE UNCHANGED alertVars
  BY <1>0, <1>11 DEF AlertInv, DedupInv, AlertTypeOK, CacheIsTrue, GoneHaveExpired, SuppressedHadAlert,
     DispatchInv, ServedInOrder, IsServed, WasRaised, alertVars
<1> QED BY <1>1, <1>2, <1>3, <1>4, <1>5, <1>6, <1>7, <1>8, <1>9, <1>10, <1>11, <1>12 DEF AlertNext

LEMMA AlertInvariance == AlertSpec => []AlertInv
BY AlertInitially, AlertInductive, PTL DEF AlertSpec

\* A detection is suppressed only after an equal one was let through in the
\* window, and always then, but for a full or cleared cache and a clock set back.
THEOREM OnlyRepetitionsAreSuppressed == AlertSpec => []SuppressedHadAlert
<1>1. AlertInv => SuppressedHadAlert
  BY DEF AlertInv, DedupInv
<1> QED BY <1>1, AlertInvariance, PTL

\* Whatever failed before and was dispatched again, what dispatch returns was sent.
THEOREM ResultsAreDeliveries == AlertSpec => []ReturnedWasSent
<1>1. ASSUME AlertInv, alert.at = "sending",
             NEW k \in 1..(alert.next - 1), alert.list[k] # "telegram"
      PROVE  /\ sent[alert.list[k]] > 0
             /\ alert.list[k] \in {alert.results[i] : i \in DOMAIN alert.results}
             /\ \A j \in (k + 1)..Len(alert.list) :
                  alert.list[j] # "telegram" => sent[alert.list[j]] <= sent[alert.list[k]]
  <2> DEFINE list == alert.list
  <2>1. /\ list \in Seq(Provider) /\ alert.next \in 1..(Len(list) + 1)
        /\ DOMAIN list = 1..Len(list) /\ Len(list) \in Nat
    BY <1>1, AlertCases, NobodyIsListedTwice DEF AlertInv, DedupInv, DispatchInv
  <2>2. k \in DOMAIN list /\ IsServed(list, k)
    BY <1>1, <2>1 DEF IsServed
  <2>3. ASSUME NEW j \in (k + 1)..Len(list), list[j] # "telegram" PROVE sent[list[j]] <= sent[list[k]]
    <3>1. j \in DOMAIN list /\ IsServed(list, j) /\ k < j
      BY <2>1, <2>3 DEF IsServed
    <3>2. sent[list[j]] + (IF k < alert.next /\ alert.next <= j THEN 1 ELSE 0) <= sent[list[k]]
      BY <1>1, <2>2, <3>1 DEF AlertInv, DispatchInv, ServedInOrder
    <3>3. sent[list[j]] \in Nat /\ sent[list[k]] \in Nat
      BY <1>1, <2>1, <2>2, <3>1 DEF AlertInv, DedupInv, AlertTypeOK
    <3> QED BY <3>2, <3>3
  <2> QED BY <1>1, <2>2, <2>3 DEF AlertInv, DispatchInv
<1>2. AlertInv => ReturnedWasSent
  BY <1>1 DEF ReturnedWasSent
<1> QED BY <1>2, AlertInvariance, PTL

-----------------------------------------------------------------------------
(***************************************************************************)
(* Intake.                                                                 *)
(***************************************************************************)
Arrived == [activity : {0, 1}, at : Nat]

\* The last events of a flow, as many as its window holds.
LastOf(s) == SubSeq(s, IF Len(s) > window_size THEN Len(s) - window_size + 1 ELSE 1, Len(s))

LEMMA WindowHolds ==
  ASSUME NEW s \in Seq(Arrived)
  PROVE  /\ LastOf(s) \in Seq(Arrived)
         /\ Len(LastOf(s)) = IF Len(s) > window_size THEN window_size ELSE Len(s)
         /\ \A i \in 1..Len(LastOf(s)) : LastOf(s)[i] = s[Len(s) - Len(LastOf(s)) + i]
<1> DEFINE n == Len(s)
           from == IF n > window_size THEN n - window_size + 1 ELSE 1
<1>1. n \in Nat /\ window_size \in Nat
  BY IntakeAssumption
<1>2. from \in Int /\ (n > window_size => from = n - window_size + 1) /\ (~ (n > window_size) => from = 1)
  BY <1>1
<1>3. LastOf(s) = SubSeq(s, from, n)
  BY DEF LastOf
<1>4. \A i \in from..n : s[i] \in Arrived
  BY <1>1, <1>2
<1> HIDE DEF from
<1>5. /\ SubSeq(s, from, n) \in Seq(Arrived)
      /\ Len(SubSeq(s, from, n)) = IF from <= n THEN n - from + 1 ELSE 0
      /\ \A i \in 1..(n - from + 1) : SubSeq(s, from, n)[i] = s[from + i - 1]
  BY <1>1, <1>2, <1>4, SubSeqProperties
<1> HIDE DEF n
<1>6. Len(LastOf(s)) = n - from + 1
  BY <1>1, <1>2, <1>3, <1>5
<1>7. ASSUME NEW i \in 1..Len(LastOf(s)) PROVE LastOf(s)[i] = s[n - Len(LastOf(s)) + i]
  <2>1. i \in 1..(n - from + 1) /\ n - Len(LastOf(s)) + i = from + i - 1
    BY <1>1, <1>2, <1>6
  <2> QED BY <2>1, <1>3, <1>5
<1>8. Len(LastOf(s)) = IF n > window_size THEN window_size ELSE n
  BY <1>1, <1>2, <1>6
<1> QED BY <1>3, <1>5, <1>7, <1>8 DEF n

LEMMA WindowMoves ==
  ASSUME NEW s \in Seq(Arrived), NEW e \in Arrived
  PROVE  Trimmed(Append(LastOf(s), e)) = LastOf(Append(s, e))
<1> DEFINE n == Len(s)
           old == LastOf(s)
           m == Len(old)
           long == Append(old, e)
           next == Append(s, e)
           new == LastOf(next)
           k == Len(new)
<1>1. n \in Nat /\ window_size \in Nat
  BY IntakeAssumption
<1>2. /\ old \in Seq(Arrived) /\ m \in Nat /\ m = IF n > window_size THEN window_size ELSE n
      /\ \A i \in 1..m : old[i] = s[n - m + i]
  BY WindowHolds
<1> HIDE DEF old
<1>3. /\ long \in Seq(Arrived) /\ Len(long) = m + 1 /\ long[m + 1] = e
      /\ \A i \in 1..m : long[i] = old[i]
  BY <1>2
<1>4. /\ next \in Seq(Arrived) /\ Len(next) = n + 1 /\ next[n + 1] = e
      /\ \A i \in 1..n : next[i] = s[i]
  BY <1>1
<1> HIDE DEF n, next, long, m
<1>5. /\ new \in Seq(Arrived) /\ k \in Nat /\ k = IF n + 1 > window_size THEN window_size ELSE n + 1
      /\ \A i \in 1..k : new[i] = next[n + 1 - k + i]
  <2>1. /\ LastOf(next) \in Seq(Arrived)
        /\ Len(LastOf(next)) = IF Len(next) > window_size THEN window_size ELSE Len(next)
        /\ \A i \in 1..Len(LastOf(next)) : LastOf(next)[i] = next[Len(next) - Len(LastOf(next)) + i]
    BY <1>4, WindowHolds
  <2> HIDE DEF new
  <2>2. k \in Nat
    BY <2>1 DEF new
  <2>3. /\ new \in Seq(Arrived) /\ k = IF Len(next) > window_size THEN window_size ELSE Len(next)
        /\ \A i \in 1..k : new[i] = next[Len(next) - k + i]
    BY <2>1 DEF new
  <2>4. Len(next) = n + 1
    BY <1>4
  <2> HIDE DEF k
  <2> QED BY <1>1, <2>2, <2>3, <2>4
<1> HIDE DEF new, k
<1>6. \A i \in 1..(m + 1) : long[i] = next[n - m + i]
  <2> SUFFICES ASSUME NEW i \in 1..(m + 1) PROVE long[i] = next[n - m + i]
    OBVIOUS
  <2>1. m <= n
    BY <1>1, <1>2
  <2>2. CASE i = m + 1
    <3>1. n - m + i = n + 1
      BY <1>1, <1>2, <2>2
    <3> QED BY <3>1, <2>2, <1>3, <1>4
  <2>3. CASE i \in 1..m
    <3>1. n - m + i \in 1..n
      BY <1>1, <1>2, <2>1, <2>3
    <3> QED BY <3>1, <2>3, <1>2, <1>3, <1>4
  <2> QED BY <2>2, <2>3, <1>2
<1>7. CASE m = window_size
  <2>1. k = m /\ long # << >>
    BY <1>1, <1>2, <1>3, <1>5, <1>7
  <2>2. /\ Tail(long) \in Seq(Arrived) /\ Len(Tail(long)) = m
        /\ \A i \in 1..m : Tail(long)[i] = long[i + 1]
    BY <2>1, <1>2, <1>3, HeadTailProperties
  <2>3. ASSUME NEW i \in 1..m PROVE Tail(long)[i] = new[i]
    <3>1. i + 1 \in 1..(m + 1) /\ n - m + (i + 1) = n + 1 - k + i
      BY <1>1, <1>2, <2>1
    <3> QED BY <3>1, <1>5, <1>6, <2>1, <2>2
  <2>4. Tail(long) = new
    BY <2>1, <2>2, <2>3, <1>5, SeqEqual DEF k
  <2>5. Len(long) > window_size
    BY <1>1, <1>3, <1>7
  <2> QED BY <2>4, <2>5 DEF Trimmed, long, old, next, new
<1>8. CASE m # window_size
  <2>1. m = n /\ n + 1 <= window_size /\ k = n + 1
    BY <1>1, <1>2, <1>5, <1>8
  <2>2. ASSUME NEW i \in 1..k PROVE long[i] = new[i]
    <3>1. i \in 1..(m + 1) /\ n - m + i = n + 1 - k + i
      BY <1>1, <1>2, <2>1
    <3> QED BY <3>1, <1>5, <1>6
  <2>3. long = new
    BY <2>1, <2>2, <1>3, <1>5, SeqEqual DEF k
  <2>4. ~ (Len(long) > window_size)
    BY <1>1, <1>3, <2>1
  <2> QED BY <2>3, <2>4 DEF Trimmed, long, old, next, new
<1> QED BY <1>7, <1>8

IntakeTypeOK ==
  /\ capturing \in [sniffing : BOOLEAN, running : BOOLEAN, packets : Nat, dropped : Nat]
  /\ unconverted \in Nat
  /\ runtime \in [accepted : Nat, rejected : Nat, detections : Nat]
  /\ seen \in [Flow -> Seq(Arrived)] /\ DOMAIN windows \subseteq Flow
  /\ depth \in Nat /\ taken \in Nat /\ puts \in Nat
  /\ counters \in [accepted : Nat, dropped : Nat]
  /\ producers \in [Producer -> {"idle", "accepted", "dropped"}]

\* Threads whose put is done and not yet counted.
Uncounted(status) == {p \in Producer : producers[p] = status}

NoWindowNothingSeen == \A f \in Flow \ DOMAIN windows : seen[f] = << >>

IntakeInv == IntakeTypeOK /\ NoWindowNothingSeen /\ NothingMiscounted

LEMMA IntakeInitially == IntakeInit => IntakeInv
<1> SUFFICES ASSUME IntakeInit PROVE IntakeInv
  OBVIOUS
<1>1. IntakeTypeOK /\ NoWindowNothingSeen /\ DOMAIN windows = {}
  BY DEF IntakeInit, IntakeTypeOK, NoWindowNothingSeen
<1>2. {p \in Producer : producers[p] = "accepted"} = {} /\ {p \in Producer : producers[p] = "dropped"} = {}
  BY DEF IntakeInit
<1>3. NothingMiscounted
  <2>1. Cardinality({p \in Producer : producers[p] = "accepted"}) = 0
    BY <1>2, FS_EmptySet
  <2>2. Cardinality({p \in Producer : producers[p] = "dropped"}) = 0
    BY <1>2, FS_EmptySet
  <2> QED BY <1>1, <2>1, <2>2 DEF IntakeInit, NothingMiscounted
<1> QED BY <1>1, <1>3 DEF IntakeInv

LEMMA PacketKeeps ==
  ASSUME IntakeInv, NEW f \in Flow, NEW activity \in {0, 1}, NEW verdict \in {"none", "fade", "error"},
         NEW answer \in {"accepted", "rejected", "error"}, OnPacket(f, activity, verdict, answer)
  PROVE  IntakeInv'
<1> DEFINE e == [activity |-> activity, at |-> capturing.packets]
<1>0. IntakeTypeOK /\ NoWindowNothingSeen /\ NothingMiscounted
  BY DEF IntakeInv
<1>1. e \in Arrived
  BY <1>0 DEF IntakeTypeOK, Arrived
<1>2. /\ windows' = Ingested(f, e) /\ seen' = [seen EXCEPT ![f] = Append(@, e)]
      /\ UNCHANGED <<unconverted, depth, counters, producers, taken, puts>>
  BY DEF OnPacket, queueVars
<1>3. seen' \in [Flow -> Seq(Arrived)] /\ seen'[f] = Append(seen[f], e)
      /\ \A g \in Flow \ {f} : seen'[g] = seen[g]
  BY <1>0, <1>1, <1>2 DEF IntakeTypeOK
<1> HIDE DEF e
<1>4. /\ DOMAIN windows' = DOMAIN windows \cup {f}
      /\ windows'[f] = Trimmed(Append(Recent(f), e))
      /\ \A g \in DOMAIN windows \ {f} : windows'[g] = windows[g]
  BY <1>2 DEF Ingested
<1>5. Recent(f) = LastOf(seen[f])
  <2>1. CASE f \in DOMAIN windows
    BY <2>1, <1>0 DEF Recent, NothingMiscounted, LastOf
  <2>2. CASE f \notin DOMAIN windows
    <3>1. seen[f] = << >>
      BY <2>2, <1>0 DEF NoWindowNothingSeen
    <3>2. LastOf(<< >>) \in Seq(Arrived) /\ Len(LastOf(<< >>)) = 0
      <4>1. << >> \in Seq(Arrived) /\ Len(<< >>) = 0
        OBVIOUS
      <4>2. Len(LastOf(<< >>)) = IF Len(<< >>) > window_size THEN window_size ELSE Len(<< >>)
        BY <4>1, WindowHolds
      <4>3. LastOf(<< >>) \in Seq(Arrived)
        BY <4>1, WindowHolds
      <4> QED BY <4>1, <4>2, <4>3, IntakeAssumption
    <3> QED BY <2>2, <3>1, <3>2, EmptySeq DEF Recent
  <2> QED BY <2>1, <2>2
<1>6. \A g \in DOMAIN windows' : windows'[g] = LastOf(seen'[g])
  <2>1. windows'[f] = LastOf(seen'[f])
    BY <1>0, <1>1, <1>3, <1>4, <1>5, WindowMoves DEF IntakeTypeOK
  <2>2. ASSUME NEW g \in DOMAIN windows \ {f} PROVE windows'[g] = LastOf(seen'[g])
    BY <2>2, <1>0, <1>3, <1>4 DEF NothingMiscounted, LastOf, IntakeTypeOK
  <2> QED BY <2>1, <2>2, <1>4
<1>7. NoWindowNothingSeen'
  BY <1>0, <1>3, <1>4 DEF NoWindowNothingSeen
<1>8. /\ capturing' \in [sniffing : BOOLEAN, running : BOOLEAN, packets : Nat, dropped : Nat]
      /\ runtime' \in [accepted : Nat, rejected : Nat, detections : Nat]
      /\ capturing'.packets = runtime'.accepted + capturing'.dropped + unconverted
      /\ runtime'.rejected <= capturing'.dropped
  <2> DEFINE reached == verdict # "error"
             ok == IF reached /\ answer = "accepted" THEN 1 ELSE 0
             no == IF reached /\ answer = "rejected" THEN 1 ELSE 0
             dropped == IF ~ reached \/ answer # "accepted" THEN 1 ELSE 0
             fade == IF verdict = "fade" THEN 1 ELSE 0
  <2>1. /\ runtime' = [accepted |-> runtime.accepted + ok, rejected |-> runtime.rejected + no,
                       detections |-> runtime.detections + fade]
        /\ capturing' = [capturing EXCEPT !.packets = @ + 1, !.dropped = @ + dropped]
    BY DEF OnPacket
  <2>2. {ok, no, dropped, fade} \subseteq {0, 1} /\ ok + dropped = 1 /\ no <= dropped
    OBVIOUS
  <2> HIDE DEF ok, no, dropped, fade
  <2>3. capturing' = [sniffing |-> capturing.sniffing, running |-> capturing.running, packets |-> capturing.packets + 1,
                      dropped |-> capturing.dropped + dropped]
    BY <2>1, <1>0 DEF IntakeTypeOK
  <2>4. /\ capturing.packets = runtime.accepted + capturing.dropped + unconverted
        /\ runtime.rejected <= capturing.dropped
        /\ {unconverted, capturing.packets, capturing.dropped, runtime.accepted, runtime.rejected, runtime.detections}
             \subseteq Nat
        /\ capturing.running \in BOOLEAN /\ capturing.sniffing \in BOOLEAN
    BY <1>0 DEF NothingMiscounted, IntakeTypeOK
  <2>5. /\ runtime.accepted + ok \in Nat /\ runtime.rejected + no \in Nat /\ runtime.detections + fade \in Nat
        /\ capturing.packets + 1 \in Nat /\ capturing.dropped + dropped \in Nat
        /\ capturing.packets + 1 = runtime.accepted + ok + (capturing.dropped + dropped) + unconverted
        /\ runtime.rejected + no <= capturing.dropped + dropped
    BY <2>2, <2>4
  <2> QED BY <2>1, <2>3, <2>4, <2>5
<1>9. IntakeTypeOK'
  BY <1>0, <1>2, <1>3, <1>4, <1>8 DEF IntakeTypeOK
<1>10. NothingMiscounted'
  <2>1. /\ counters.accepted + Cardinality({p \in Producer : producers[p] = "accepted"}) = taken + depth
        /\ counters.dropped + Cardinality({p \in Producer : producers[p] = "dropped"}) = puts - taken - depth
    BY <1>0 DEF NothingMiscounted
  <2> QED BY <2>1, <1>2, <1>6, <1>8 DEF NothingMiscounted, LastOf
<1> QED BY <1>7, <1>9, <1>10 DEF IntakeInv

\* The counters and the threads between their put and its counter add up.
LEMMA CountersKeep ==
  ASSUME IntakeInv, UNCHANGED packetVars,
         depth' \in Nat, taken' \in Nat, puts' \in Nat, counters' \in [accepted : Nat, dropped : Nat],
         producers' \in [Producer -> {"idle", "accepted", "dropped"}],
         counters'.accepted + Cardinality(Uncounted("accepted")') = taken' + depth',
         counters'.dropped + Cardinality(Uncounted("dropped")') = puts' - taken' - depth'
  PROVE  IntakeInv'
<1>1. IntakeTypeOK'
  BY DEF IntakeInv, IntakeTypeOK, packetVars
<1>2. NoWindowNothingSeen'
  BY DEF IntakeInv, NoWindowNothingSeen, packetVars
<1>3. NothingMiscounted'
  BY DEF IntakeInv, NothingMiscounted, packetVars, Uncounted
<1> QED BY <1>1, <1>2, <1>3 DEF IntakeInv

LEMMA ThreadStatus ==
  ASSUME IntakeTypeOK, NEW p \in Producer, NEW status \in {"idle", "accepted", "dropped"},
         producers' = [producers EXCEPT ![p] = status]
  PROVE  \A s \in {"accepted", "dropped"} :
           /\ Cardinality(Uncounted(s)) \in Nat
           /\ producers[p] = "idle" /\ status # "idle" =>
                Cardinality(Uncounted(s)') = Cardinality(Uncounted(s)) + IF s = status THEN 1 ELSE 0
           /\ producers[p] # "idle" /\ status = "idle" =>
                Cardinality(Uncounted(s)') = Cardinality(Uncounted(s)) - IF s = producers[p] THEN 1 ELSE 0
<1> SUFFICES ASSUME NEW s \in {"accepted", "dropped"}
             PROVE  /\ Cardinality(Uncounted(s)) \in Nat
                    /\ producers[p] = "idle" /\ status # "idle" =>
                         Cardinality(Uncounted(s)') = Cardinality(Uncounted(s)) + IF s = status THEN 1 ELSE 0
                    /\ producers[p] # "idle" /\ status = "idle" =>
                         Cardinality(Uncounted(s)')
                           = Cardinality(Uncounted(s)) - IF s = producers[p] THEN 1 ELSE 0
  OBVIOUS
<1>1. IsFiniteSet(Uncounted(s)) /\ Cardinality(Uncounted(s)) \in Nat
  BY IntakeAssumption, FS_Subset, FS_CardinalityType DEF Uncounted
<1>2. /\ s = status => Uncounted(s)' = Uncounted(s) \cup {p}
      /\ s # status => Uncounted(s)' = Uncounted(s) \ {p}
      /\ p \in Uncounted(s) <=> producers[p] = s
  BY DEF Uncounted, IntakeTypeOK
<1>3. /\ Cardinality(Uncounted(s) \cup {p}) = IF p \in Uncounted(s) THEN Cardinality(Uncounted(s))
                                              ELSE Cardinality(Uncounted(s)) + 1
      /\ Cardinality(Uncounted(s) \ {p}) = IF p \in Uncounted(s) THEN Cardinality(Uncounted(s)) - 1
                                           ELSE Cardinality(Uncounted(s))
  BY <1>1, FS_AddElement, FS_RemoveElement
<1>4. s # "idle"
  OBVIOUS
<1>5. CASE s = status
  BY <1>1, <1>2, <1>3, <1>4, <1>5
<1>6. CASE s # status
  <2>1. Uncounted(s)' = Uncounted(s) \ {p}
    BY <1>2, <1>6
  <2>2. CASE producers[p] = s
    BY <2>1, <2>2, <1>1, <1>2, <1>3, <1>4
  <2>3. CASE producers[p] # s
    <3>1. Cardinality(Uncounted(s)') = Cardinality(Uncounted(s))
      BY <2>1, <2>3, <1>2, <1>3
    <3> QED BY <3>1, <2>3, <1>1, <1>6
  <2> QED BY <2>2, <2>3
<1> QED BY <1>5, <1>6

LEMMA QueueKeeps == ASSUME IntakeInv, QueueNext PROVE IntakeInv'
<1>0. /\ IntakeTypeOK /\ depth \in Nat /\ taken \in Nat /\ puts \in Nat
      /\ counters \in [accepted : Nat, dropped : Nat] /\ maxsize \in Nat
      /\ counters.accepted + Cardinality(Uncounted("accepted")) = taken + depth
      /\ counters.dropped + Cardinality(Uncounted("dropped")) = puts - taken - depth
  BY IntakeAssumption DEF IntakeInv, IntakeTypeOK, NothingMiscounted, Uncounted
<1>1. CASE TakesOne
  <2>1. /\ UNCHANGED <<packetVars, counters, producers, puts>>
        /\ depth' \in Nat /\ taken' \in Nat /\ taken' + depth' = taken + depth
        /\ puts' - taken' - depth' = puts - taken - depth
    BY <1>0, <1>1 DEF TakesOne
  <2>2. Uncounted("accepted")' = Uncounted("accepted") /\ Uncounted("dropped")' = Uncounted("dropped")
    BY <2>1 DEF Uncounted
  <2> QED BY <1>0, <2>1, <2>2, CountersKeep DEF IntakeTypeOK
<1>2. ASSUME NEW p \in Producer, PutsOne(p) PROVE IntakeInv'
  <2>1. PICK status \in {"accepted", "dropped"} :
          /\ producers' = [producers EXCEPT ![p] = status]
          /\ depth' = depth + IF status = "accepted" THEN 1 ELSE 0
    BY <1>0, <1>2 DEF PutsOne
  <2>2. /\ producers[p] = "idle" /\ puts' = puts + 1 /\ UNCHANGED <<packetVars, counters, taken>>
    BY <1>2 DEF PutsOne
  <2>3. /\ Cardinality(Uncounted("accepted")') = Cardinality(Uncounted("accepted"))
                                                   + IF status = "accepted" THEN 1 ELSE 0
        /\ Cardinality(Uncounted("dropped")') = Cardinality(Uncounted("dropped"))
                                                  + IF status = "dropped" THEN 1 ELSE 0
        /\ Cardinality(Uncounted("accepted")) \in Nat /\ Cardinality(Uncounted("dropped")) \in Nat
    BY <1>0, <2>1, <2>2, ThreadStatus
  <2>4. producers' \in [Producer -> {"idle", "accepted", "dropped"}]
    BY <1>0, <2>1 DEF IntakeTypeOK
  <2>5. /\ depth' \in Nat /\ puts' \in Nat /\ taken' \in Nat
        /\ counters'.accepted + Cardinality(Uncounted("accepted")') = taken' + depth'
        /\ counters'.dropped + Cardinality(Uncounted("dropped")') = puts' - taken' - depth'
    <3> DEFINE a == Cardinality(Uncounted("accepted"))  d == Cardinality(Uncounted("dropped"))
               more == IF status = "accepted" THEN 1 ELSE 0
    <3>1. /\ Cardinality(Uncounted("accepted")') = a + more /\ a \in Nat /\ d \in Nat /\ more \in {0, 1}
          /\ Cardinality(Uncounted("dropped")') = d + (1 - more) /\ depth' = depth + more
      BY <2>1, <2>3
    <3>2. counters.accepted + a = taken + depth /\ counters.dropped + d = puts - taken - depth
          /\ counters.accepted \in Nat /\ counters.dropped \in Nat
      BY <1>0
    <3> HIDE DEF a, d, more
    <3> QED BY <1>0, <2>2, <3>1, <3>2
  <2> QED BY <1>0, <2>2, <2>4, <2>5, CountersKeep
<1>3. ASSUME NEW p \in Producer, CountsOne(p) PROVE IntakeInv'
  <2> DEFINE status == producers[p]
  <2>1. status \in {"accepted", "dropped"}
    BY <1>0, <1>3 DEF CountsOne, IntakeTypeOK
  <2>2. /\ counters' = [counters EXCEPT ![status] = @ + 1]
        /\ producers' = [producers EXCEPT ![p] = "idle"]
        /\ UNCHANGED <<packetVars, depth, taken, puts>>
    BY <1>3 DEF CountsOne
  <2>3. /\ Cardinality(Uncounted("accepted")') = Cardinality(Uncounted("accepted"))
                                                   - IF status = "accepted" THEN 1 ELSE 0
        /\ Cardinality(Uncounted("dropped")') = Cardinality(Uncounted("dropped"))
                                                  - IF status = "dropped" THEN 1 ELSE 0
        /\ Cardinality(Uncounted("accepted")) \in Nat /\ Cardinality(Uncounted("dropped")) \in Nat
    BY <1>0, <2>1, <2>2, ThreadStatus
  <2>4. producers' \in [Producer -> {"idle", "accepted", "dropped"}]
    BY <1>0, <2>2 DEF IntakeTypeOK
  <2>5. /\ counters' \in [accepted : Nat, dropped : Nat]
        /\ counters'.accepted = counters.accepted + IF status = "accepted" THEN 1 ELSE 0
        /\ counters'.dropped = counters.dropped + IF status = "dropped" THEN 1 ELSE 0
    BY <1>0, <2>1, <2>2
  <2>6. /\ counters'.accepted + Cardinality(Uncounted("accepted")') = taken' + depth'
        /\ counters'.dropped + Cardinality(Uncounted("dropped")') = puts' - taken' - depth'
    <3> DEFINE a == Cardinality(Uncounted("accepted"))  d == Cardinality(Uncounted("dropped"))
               one == IF status = "accepted" THEN 1 ELSE 0  other == IF status = "dropped" THEN 1 ELSE 0
    <3>1. /\ Cardinality(Uncounted("accepted")') = a - one /\ a \in Nat /\ d \in Nat
          /\ Cardinality(Uncounted("dropped")') = d - other /\ one \in {0, 1} /\ other \in {0, 1}
          /\ counters'.accepted = counters.accepted + one /\ counters'.dropped = counters.dropped + other
      BY <2>3, <2>5
    <3>2. counters.accepted + a = taken + depth /\ counters.dropped + d = puts - taken - depth
          /\ counters.accepted \in Nat /\ counters.dropped \in Nat
      BY <1>0
    <3>3. taken' = taken /\ depth' = depth /\ puts' = puts
      BY <2>2
    <3> HIDE DEF a, d, one, other
    <3> QED BY <1>0, <3>1, <3>2, <3>3
  <2> QED BY <1>0, <2>2, <2>4, <2>5, <2>6, CountersKeep
<1> QED BY <1>1, <1>2, <1>3 DEF QueueNext

\* No packet is seen twice, lost uncounted or judged out of order, whatever the
\* detector and the queue answer and however the threads are interleaved.
THEOREM PacketsAreCounted == IntakeSpec => []NothingMiscounted
<1>1. IntakeInv /\ [PacketNext \/ QueueNext]_<<packetVars, queueVars>> => IntakeInv'
  <2> SUFFICES ASSUME IntakeInv, [PacketNext \/ QueueNext]_<<packetVars, queueVars>> PROVE IntakeInv'
    OBVIOUS
  <2>1. CASE Runs \/ Stops
    <3>1. /\ UNCHANGED <<runtime, windows, seen, unconverted, depth, counters, producers, taken, puts>>
          /\ capturing' \in [sniffing : BOOLEAN, running : BOOLEAN, packets : Nat, dropped : Nat]
          /\ capturing'.packets = capturing.packets /\ capturing'.dropped = capturing.dropped
      <4>1. capturing \in [sniffing : BOOLEAN, running : BOOLEAN, packets : Nat, dropped : Nat]
        BY DEF IntakeInv, IntakeTypeOK
      <4>2. UNCHANGED <<runtime, windows, seen, unconverted, depth, counters, producers, taken, puts>>
        BY <2>1 DEF Runs, Stops, queueVars
      <4>3. \/ capturing' = [capturing EXCEPT !.sniffing = ~ capturing.sniffing, !.running = ~ capturing.sniffing]
            \/ capturing' = [capturing EXCEPT !.running = FALSE]
        BY <2>1 DEF Runs, Stops
      <4>4. PICK s \in BOOLEAN, r \in BOOLEAN :
              capturing' = [sniffing |-> s, running |-> r, packets |-> capturing.packets, dropped |-> capturing.dropped]
        <5>1. CASE capturing' = [capturing EXCEPT !.sniffing = ~ capturing.sniffing, !.running = ~ capturing.sniffing]
          BY <4>1, <5>1
        <5>2. CASE capturing' = [capturing EXCEPT !.running = FALSE]
          BY <4>1, <5>2
        <5> QED BY <4>3, <5>1, <5>2
      <4> QED BY <4>1, <4>2, <4>4
    <3> QED BY <3>1 DEF IntakeInv, IntakeTypeOK, NoWindowNothingSeen, NothingMiscounted
  <2>2. CASE \E f \in Flow, activity \in {0, 1}, verdict \in {"none", "fade", "error"},
                answer \in {"accepted", "rejected", "error"} : OnPacket(f, activity, verdict, answer)
    BY <2>2, PacketKeeps
  <2>5. CASE Misconverts
    <3>1. /\ UNCHANGED <<runtime, windows, seen, depth, counters, producers, taken, puts>>
          /\ capturing' \in [sniffing : BOOLEAN, running : BOOLEAN, packets : Nat, dropped : Nat]
          /\ capturing'.packets = capturing.packets + 1 /\ capturing'.dropped = capturing.dropped
          /\ unconverted' = unconverted + 1 /\ unconverted \in Nat
      <4>1. /\ capturing' = [capturing EXCEPT !.sniffing = FALSE, !.running = FALSE, !.packets = @ + 1]
            /\ unconverted' = unconverted + 1
            /\ UNCHANGED <<runtime, windows, seen, depth, counters, producers, taken, puts>>
        BY <2>5 DEF Misconverts, queueVars
      <4>2. /\ capturing \in [sniffing : BOOLEAN, running : BOOLEAN, packets : Nat, dropped : Nat]
            /\ unconverted \in Nat
        BY DEF IntakeInv, IntakeTypeOK
      <4>3. capturing.packets + 1 \in Nat
        BY <4>2
      <4>4. capturing' = [sniffing |-> FALSE, running |-> FALSE, packets |-> capturing.packets + 1,
                          dropped |-> capturing.dropped]
        BY <4>1, <4>2
      <4> QED BY <4>1, <4>2, <4>3, <4>4
    <3>2. capturing'.packets = runtime'.accepted + capturing'.dropped + unconverted'
      <4>1. capturing.packets = runtime.accepted + capturing.dropped + unconverted
        BY DEF IntakeInv, NothingMiscounted
      <4>2. runtime.accepted \in Nat /\ capturing.dropped \in Nat
        BY DEF IntakeInv, IntakeTypeOK
      <4> QED BY <3>1, <4>1, <4>2
    <3> QED BY <3>1, <3>2 DEF IntakeInv, IntakeTypeOK, NoWindowNothingSeen, NothingMiscounted
  <2>3. CASE QueueNext
    BY <2>3, QueueKeeps
  <2>4. CASE UNCHANGED <<packetVars, queueVars>>
    BY <2>4 DEF IntakeInv, IntakeTypeOK, NoWindowNothingSeen, NothingMiscounted, packetVars, queueVars
  <2> QED BY <2>1, <2>2, <2>3, <2>4, <2>5 DEF PacketNext
<1>2. IntakeInv => NothingMiscounted
  BY DEF IntakeInv
<1> QED BY <1>1, <1>2, IntakeInitially, PTL DEF IntakeSpec

-----------------------------------------------------------------------------
(***************************************************************************)
(* The analysts' workflow.                                                 *)
(***************************************************************************)
LEMMA OneMore ==
  ASSUME NEW S, NEW s \in Seq(S), NEW e
  PROVE  /\ Len(s) \in Nat /\ DOMAIN s = 1..Len(s) /\ DOMAIN Append(s, e) = 1..(Len(s) + 1)
         /\ Len(Append(s, e)) = Len(s) + 1 /\ Append(s, e)[Len(s) + 1] = e
         /\ \A j \in 1..Len(s) : Append(s, e)[j] = s[j]
<1>1. s \in Seq(S \cup {e}) /\ e \in S \cup {e}
  BY SeqMonotonic
<1> QED BY <1>1

LEMMA OneMoreOrOld ==
  ASSUME NEW S, NEW s \in Seq(S), NEW e
  PROVE  \A k \in DOMAIN Append(s, e) : Append(s, e)[k] = e \/ (k \in DOMAIN s /\ Append(s, e)[k] = s[k])
<1>1. /\ Len(s) \in Nat /\ DOMAIN s = 1..Len(s) /\ DOMAIN Append(s, e) = 1..(Len(s) + 1)
      /\ Append(s, e)[Len(s) + 1] = e
      /\ \A j \in 1..Len(s) : Append(s, e)[j] = s[j]
  BY OneMore
<1>2. \A k \in 1..(Len(s) + 1) : k = Len(s) + 1 \/ k \in 1..Len(s)
  BY <1>1
<1> QED BY <1>1, <1>2

TablesAreSequences ==
  /\ DOMAIN tables = DOMAIN Defaults /\ tables = [table \in DOMAIN Defaults |-> tables[table]]
  /\ \A table \in DOMAIN Defaults : \E Row : tables[table] \in Seq(Row)
  /\ DOMAIN calls = Call /\ calls = [c \in Call |-> calls[c]]

LEMMA EveryRequestHasATable == \A q : Table(q) \in DOMAIN Defaults
BY DEF Table, Defaults

\* What a commit makes of a table: no row goes, and only the columns asked for change.
LEMMA RowsStay ==
  ASSUME NEW t, NEW Row, tables[Table(t.asked)] \in Seq(Row)
  PROVE  /\ \E More : Rows(t) \in Seq(More)
         /\ \A r \in DOMAIN tables[Table(t.asked)] :
              /\ r \in DOMAIN Rows(t)
              /\ \/ Rows(t)[r] = tables[Table(t.asked)][r]
                 \/ Rows(t)[r] = Updated(t, tables[Table(t.asked)][r])
<1> DEFINE rows == tables[Table(t.asked)]
<1> HIDE DEF rows
<1>0. rows \in Seq(Row) /\ DOMAIN rows = 1..Len(rows) /\ Len(rows) \in Nat
  BY LenProperties DEF rows
<1>1. CASE t.row = 0
  <2> DEFINE new == Inserted(t)  More == Row \cup {new}
  <2>1. Rows(t) = Append(rows, new)
    BY <1>1 DEF Rows, rows
  <2> HIDE DEF new
  <2>2. rows \in Seq(More) /\ new \in More
    BY <1>0, SeqMonotonic
  <2>3. Append(rows, new) \in Seq(More)
    BY <2>2
  <2>4. \A r \in DOMAIN rows : r \in DOMAIN Append(rows, new) /\ Append(rows, new)[r] = rows[r]
    BY <1>0
  <2> QED BY <2>1, <2>3, <2>4 DEF rows
<1>2. CASE t.row # 0
  <2> DEFINE new == Updated(t, rows[t.row])  More == Row \cup {new}
  <2>1. Rows(t) = [rows EXCEPT ![t.row] = new]
    BY <1>2 DEF Rows, rows
  <2>2. \A r \in DOMAIN rows :
          r \in DOMAIN Rows(t) /\ (Rows(t)[r] = rows[r] \/ Rows(t)[r] = Updated(t, rows[r]))
    BY <2>1
  <2> HIDE DEF new
  <2>3. rows \in Seq(More) /\ new \in More
    BY <1>0, SeqMonotonic
  <2>4. CASE t.row \in 1..Len(rows)
    <3>1. [rows EXCEPT ![t.row] = new] \in Seq(More)
      BY <2>3, <2>4, ExceptSeq
    <3> QED BY <2>1, <2>2, <3>1 DEF rows
  <2>5. CASE t.row \notin 1..Len(rows)
    <3>1. rows = [i \in DOMAIN rows |-> rows[i]]
      BY <1>0
    <3>2. Rows(t) = rows
      BY <1>0, <2>1, <2>5, <3>1
    <3> QED BY <1>0, <2>2, <3>2 DEF rows
  <2> QED BY <2>4, <2>5
<1> QED BY <1>1, <1>2

\* One commit: the other tables stay, and its own keeps its rows.
LEMMA CommitIsLocal ==
  ASSUME TablesAreSequences, NEW c \in Call, Commits(c)
  PROVE  /\ TablesAreSequences'
         /\ \A d \in Call \ {c} : calls'[d] = calls[d]
         /\ \A table \in DOMAIN tables : \A r \in DOMAIN tables[table] :
              \/ tables'[table][r] = tables[table][r]
              \/ tables'[table][r] = Updated(calls[c], tables[table][r])
<1> DEFINE t == calls[c]  own == Table(t.asked)
<1>1. /\ tables' = [tables EXCEPT ![own] = Rows(t)] /\ calls' = [calls EXCEPT ![c] = NoCall]
      /\ own \in DOMAIN Defaults
  BY EveryRequestHasATable DEF Commits
<1> HIDE DEF t
<1>2. PICK Row : tables[own] \in Seq(Row)
  BY <1>1 DEF TablesAreSequences
<1>3. /\ \E More : Rows(t) \in Seq(More)
      /\ \A r \in DOMAIN tables[own] : \/ Rows(t)[r] = tables[own][r]
                                       \/ Rows(t)[r] = Updated(t, tables[own][r])
  BY <1>2, RowsStay
<1> HIDE DEF own
<1>4. /\ DOMAIN tables' = DOMAIN Defaults /\ tables' = [table \in DOMAIN Defaults |-> tables'[table]]
      /\ tables'[own] = Rows(t)
      /\ \A table \in DOMAIN Defaults \ {own} : tables'[table] = tables[table]
  BY <1>1 DEF TablesAreSequences
<1>5. /\ DOMAIN calls' = Call /\ calls' = [d \in Call |-> calls'[d]]
      /\ \A d \in Call \ {c} : calls'[d] = calls[d]
  BY <1>1 DEF TablesAreSequences
<1>6. ASSUME NEW table \in DOMAIN Defaults PROVE \E Some : tables'[table] \in Seq(Some)
  BY <1>3, <1>4 DEF TablesAreSequences
<1>7. TablesAreSequences'
  BY <1>4, <1>5, <1>6 DEF TablesAreSequences, Defaults
<1>8. ASSUME NEW table \in DOMAIN tables, NEW r \in DOMAIN tables[table]
      PROVE  \/ tables'[table][r] = tables[table][r]
             \/ tables'[table][r] = Updated(t, tables[table][r])
  BY <1>3, <1>4 DEF TablesAreSequences
<1> QED BY <1>5, <1>7, <1>8 DEF t

\* The history of one column: what an event says of it, and what the log says.
Speaks(e, table, r, col) ==
  /\ CASE table = "workflow" -> e.type \in {"detection.workflow", "detection.disposition"}
       [] table = "feedback" -> e.type = "detection.feedback"
       [] OTHER -> e.case = r /\ e.type \in {"case.created", "detection.linked", "case.updated"}
  /\ col \in DOMAIN Said(e) /\ (col = "priority" => Said(e)[col] # Null)
Witnessed(log, table, r, col, value) ==
  \/ value = Defaults[table][col]
  \/ \E k \in DOMAIN log : Speaks(log[k], table, r, col) /\ Said(log[k])[col] = value
  \/ Unrecorded(log, table, r, col)
LastSaid(log, table, r, col, value) ==
  \/ \A k \in DOMAIN log : ~ Speaks(log[k], table, r, col)
  \/ \E k \in DOMAIN log : /\ Speaks(log[k], table, r, col) /\ Said(log[k])[col] = value
                           /\ \A j \in DOMAIN log : Speaks(log[j], table, r, col) => j <= k

LEMMA TheColumns ==
  /\ DOMAIN Defaults = {"workflow", "feedback", "settings", "cases"}
  /\ Defaults["workflow"] = [status |-> "new", assignee |-> "none", priority |-> 50, updated_by |-> "none"]
  /\ Defaults["feedback"] = [disposition |-> "none", note |-> "", subject |-> "none"]
  /\ Defaults["settings"] = [value |-> 0]
  /\ Defaults["cases"] = [status |-> "open", owner |-> "none"]
BY DEF Defaults

LEMMA HistoryGrows ==
  ASSUME NEW E, NEW log \in Seq(E), NEW e, NEW table, NEW r, NEW col, NEW value
  PROVE  /\ Witnessed(log, table, r, col, value) => Witnessed(Append(log, e), table, r, col, value)
         /\ Speaks(e, table, r, col) /\ Said(e)[col] = value =>
              Witnessed(Append(log, e), table, r, col, value) /\ LastSaid(Append(log, e), table, r, col, value)
         /\ ~ Speaks(e, table, r, col) /\ LastSaid(log, table, r, col, value) =>
              LastSaid(Append(log, e), table, r, col, value)
<1> DEFINE n == Len(log)  more == Append(log, e)
<1>1. /\ n \in Nat /\ DOMAIN log = 1..n /\ DOMAIN more = 1..(n + 1)
      /\ more[n + 1] = e /\ \A j \in 1..n : more[j] = log[j]
  BY OneMore
<1> HIDE DEF n, more
<1>2. /\ \A j \in 1..n : j \in 1..(n + 1) /\ j <= n + 1
      /\ n + 1 \in 1..(n + 1)
      /\ \A j \in 1..(n + 1) : (j = n + 1 \/ j \in 1..n) /\ j <= n + 1
  BY <1>1
<1>3. Witnessed(log, table, r, col, value) => Witnessed(more, table, r, col, value)
  <2>1. Unrecorded(log, table, r, col) => Unrecorded(more, table, r, col)
    BY <1>1, <1>2 DEF Unrecorded
  <2> QED BY <1>1, <1>2, <2>1 DEF Witnessed
<1>4. ASSUME Speaks(e, table, r, col), Said(e)[col] = value
      PROVE  Witnessed(more, table, r, col, value) /\ LastSaid(more, table, r, col, value)
  BY <1>1, <1>2, <1>4 DEF Witnessed, LastSaid
<1>5. ASSUME ~ Speaks(e, table, r, col), LastSaid(log, table, r, col, value)
      PROVE  LastSaid(more, table, r, col, value)
  <2>1. CASE \A k \in 1..n : ~ Speaks(log[k], table, r, col)
    <3>1. \A k \in 1..(n + 1) : ~ Speaks(more[k], table, r, col)
      BY <1>1, <1>2, <1>5, <2>1
    <3> QED BY <3>1, <1>1 DEF LastSaid
  <2>2. ASSUME NEW k \in 1..n, Speaks(log[k], table, r, col), Said(log[k])[col] = value,
               \A j \in 1..n : Speaks(log[j], table, r, col) => j <= k
        PROVE  LastSaid(more, table, r, col, value)
    <3>1. \A j \in 1..(n + 1) : Speaks(more[j], table, r, col) => j <= k
      BY <1>1, <1>2, <1>5, <2>2
    <3>2. k \in 1..(n + 1) /\ Speaks(more[k], table, r, col) /\ Said(more[k])[col] = value
      BY <1>1, <1>2, <2>2
    <3> QED BY <3>1, <3>2, <1>1 DEF LastSaid
  <2> QED BY <1>1, <1>5, <2>1, <2>2 DEF LastSaid
<1> QED BY <1>3, <1>4, <1>5 DEF more

LEMMA EntriesGrow ==
  ASSUME NEW E, NEW log \in Seq(E), NEW e, NEW type, NEW case
  PROVE  /\ Entries(log, type, case) \in Nat
         /\ e.type = type /\ e.case = case => Entries(Append(log, e), type, case) = Entries(log, type, case) + 1
         /\ ~ (e.type = type /\ e.case = case) => Entries(Append(log, e), type, case) = Entries(log, type, case)
<1> DEFINE n == Len(log)  more == Append(log, e)
           like == {k \in DOMAIN log : log[k].type = type /\ log[k].case = case}
           after == {k \in DOMAIN more : more[k].type = type /\ more[k].case = case}
<1>1. /\ n \in Nat /\ DOMAIN log = 1..n /\ DOMAIN more = 1..(n + 1)
      /\ more[n + 1] = e /\ \A j \in 1..n : more[j] = log[j]
  BY OneMore
<1> HIDE DEF n, more
<1>2. /\ \A j \in 1..n : j \in 1..(n + 1)
      /\ n + 1 \in 1..(n + 1) /\ n + 1 \notin 1..n
      /\ \A j \in 1..(n + 1) : j = n + 1 \/ j \in 1..n
  BY <1>1
<1>3. IsFiniteSet(like) /\ Cardinality(like) \in Nat
  <2>1. like \in SUBSET (1..n) /\ IsFiniteSet(1..n)
    BY <1>1, FS_Interval
  <2> HIDE DEF like
  <2> QED BY <2>1, FS_Subset, FS_CardinalityType
<1>4. CASE e.type = type /\ e.case = case
  <2>1. after = like \cup {n + 1} /\ n + 1 \notin like
    BY <1>1, <1>2, <1>4
  <2> HIDE DEF like, after
  <2>2. Cardinality(after) = Cardinality(like) + 1
    BY <2>1, <1>3, FS_AddElement
  <2> QED BY <1>3, <1>4, <2>2 DEF like, after, more, Entries
<1>5. CASE ~ (e.type = type /\ e.case = case)
  <2>1. after = like
    BY <1>1, <1>2, <1>5
  <2> HIDE DEF like, after
  <2> QED BY <1>3, <1>5, <2>1 DEF like, after, more, Entries
<1> QED BY <1>4, <1>5

LEMMA SetsAreColumns ==
  ASSUME NEW q \in Request
  PROVE  DOMAIN Sets(q) \subseteq DOMAIN Defaults[Table(q)]
<1>1. q.op \in Operation /\ DOMAIN q.sets \subseteq Columns(q.op)
  BY WorkflowAssumption
<1>2. CASE q.op = "detection.workflow"
  <2>1. Sets(q) = Over(q.sets, [updated_by |-> q.actor]) /\ Table(q) = "workflow"
    BY <1>2 DEF Sets, Table
  <2>2. DOMAIN Sets(q) = DOMAIN q.sets \cup {"updated_by"}
    BY <2>1 DEF Over
  <2>3. DOMAIN q.sets \subseteq {"status", "assignee", "priority"}
    BY <1>1, <1>2 DEF Columns
  <2>4. DOMAIN Defaults["workflow"] = {"status", "assignee", "priority", "updated_by"}
    BY TheColumns
  <2> QED BY <2>1, <2>2, <2>3, <2>4
<1>3. CASE q.op = "detection.disposition"
  BY <1>1, <1>3, TheColumns DEF Sets, Table
<1>4. CASE q.op = "detection.feedback"
  <2>1. Sets(q) = Over(q.sets, [note |-> "", subject |-> q.actor]) /\ Table(q) = "feedback"
    BY <1>4 DEF Sets, Table
  <2>2. DOMAIN Sets(q) = DOMAIN q.sets \cup {"note", "subject"}
    BY <2>1 DEF Over
  <2>3. DOMAIN q.sets \subseteq {"disposition", "note"}
    BY <1>1, <1>4 DEF Columns
  <2>4. DOMAIN Defaults["feedback"] = {"disposition", "note", "subject"}
    BY TheColumns
  <2> QED BY <2>1, <2>2, <2>3, <2>4
<1>5. CASE q.op = "tenant.config.updated"
  BY <1>1, <1>5, TheColumns DEF Sets, Table, Columns
<1>6. CASE q.op = "case.created"
  <2>1. Sets(q) = Over(q.sets, [owner |-> q.actor]) /\ Table(q) = "cases"
    BY <1>6 DEF Sets, Table
  <2>2. DOMAIN Sets(q) = DOMAIN q.sets \cup {"owner"}
    BY <2>1 DEF Over
  <2>3. DOMAIN q.sets \subseteq {"owner"}
    BY <1>1, <1>6 DEF Columns
  <2>4. DOMAIN Defaults["cases"] = {"status", "owner"}
    BY TheColumns
  <2> QED BY <2>1, <2>2, <2>3, <2>4
<1>7. CASE q.op = "detection.linked"
  BY <1>7, TheColumns DEF Sets, Table
<1>8. CASE q.op = "case.updated"
  BY <1>1, <1>8, TheColumns DEF Sets, Table, Columns
<1>9. CASE q.op = "case.comment"
  BY <1>1, <1>9, TheColumns DEF Sets, Table, Columns
<1> QED BY <1>1, <1>2, <1>3, <1>4, <1>5, <1>6, <1>7, <1>8, <1>9 DEF Operation

\* What the calls set and no event says.
Silent(t, col) == \/ t.asked.op = "detection.feedback" /\ col = "note"
                  \/ t.asked.op = "case.created" /\ col = "owner"

\* The event of a call says of a column what the call sets it to, or what it read;
\* when it is silent about a column, the call does not set it, but for two.
LEMMA EventSays ==
  ASSUME NEW t, t.asked \in Request, Table(t.asked) # "settings",
         DOMAIN t.loaded = DOMAIN Defaults[Table(t.asked)],
         t.row = 0 => t.loaded = Defaults[Table(t.asked)],
         IsInsert(t.asked) => t.row = 0,
         NEW e, e.type = t.asked.op, e.payload = Payload(t), e.actor = t.asked.actor,
         NEW r, Table(t.asked) = "cases" => e.case = r,
         NEW col \in DOMAIN Defaults[Table(t.asked)]
  PROVE  IF Speaks(e, Table(t.asked), r, col)
         THEN Said(e)[col] = IF col \in DOMAIN Sets(t.asked) THEN Sets(t.asked)[col] ELSE t.loaded[col]
         ELSE col \notin DOMAIN Sets(t.asked) \/ Silent(t, col)
<1> DEFINE q == t.asked  own == Table(q)
<1>1. q.op \in Operation /\ DOMAIN q.sets \subseteq Columns(q.op)
      /\ ("priority" \in DOMAIN q.sets => q.sets["priority"] # Null)
  BY WorkflowAssumption
<1>2. CASE q.op = "detection.workflow"
  <2> DEFINE sets == Sets(q)  by == [updated_by |-> q.actor]
             ld == IF t.row = 0 THEN [t.loaded EXCEPT !.priority = Null] ELSE t.loaded
             stated == [c \in {"status", "assignee", "priority"} |-> IF c \in DOMAIN q.sets THEN q.sets[c] ELSE ld[c]]
  <2>1. /\ own = "workflow" /\ sets = Over(q.sets, by) /\ DOMAIN q.sets \subseteq {"status", "assignee", "priority"}
        /\ DOMAIN Defaults[own] = {"status", "assignee", "priority", "updated_by"}
        /\ DOMAIN by = {"updated_by"} /\ by["updated_by"] = q.actor
    BY <1>1, <1>2, TheColumns DEF Table, Sets, Columns
  <2>2. Payload(t) = stated
    BY <1>2 DEF Payload
  <2>3. Said(e) = Over(stated, by)
    BY <1>2, <2>2 DEF Said
  <2>4. DOMAIN ld = DOMAIN t.loaded /\ (col # "priority" => ld[col] = t.loaded[col])
        /\ (t.row = 0 => ld["priority"] = Null) /\ (t.row # 0 => ld = t.loaded)
    BY <2>1
  <2> HIDE DEF ld, by, sets
  <2>5. /\ DOMAIN stated = {"status", "assignee", "priority"}
        /\ \A c \in {"status", "assignee", "priority"} : stated[c] = IF c \in DOMAIN q.sets THEN q.sets[c] ELSE ld[c]
    OBVIOUS
  <2> HIDE DEF stated
  <2>6. /\ DOMAIN Said(e) = {"status", "assignee", "priority", "updated_by"} /\ Said(e)["updated_by"] = q.actor
        /\ \A c \in {"status", "assignee", "priority"} : Said(e)[c] = stated[c]
    BY <2>1, <2>3, <2>5 DEF Over
  <2>7. /\ DOMAIN sets = DOMAIN q.sets \cup {"updated_by"} /\ sets["updated_by"] = q.actor
        /\ \A c \in DOMAIN q.sets : sets[c] = q.sets[c]
    BY <2>1 DEF Over
  <2>8. Speaks(e, own, r, col) <=> (col = "priority" => Said(e)[col] # Null)
    BY <1>2, <2>1, <2>6 DEF Speaks
  <2> HIDE DEF q, own
  <2>9. CASE col = "updated_by"
    BY <2>6, <2>7, <2>8, <2>9 DEF q, own, sets
  <2>10. CASE col \in DOMAIN q.sets
    <3>1. col \in {"status", "assignee", "priority"} /\ Said(e)[col] = q.sets[col] /\ sets[col] = q.sets[col]
      BY <2>1, <2>5, <2>6, <2>7, <2>10
    <3> QED BY <1>1, <2>7, <2>8, <2>10, <3>1 DEF q, own, sets
  <2>11. CASE col # "updated_by" /\ col \notin DOMAIN q.sets
    <3>1. col \in {"status", "assignee", "priority"} /\ Said(e)[col] = ld[col] /\ col \notin DOMAIN sets
      BY <2>1, <2>5, <2>6, <2>7, <2>11 DEF q, own
    <3>2. Speaks(e, own, r, col) => Said(e)[col] = t.loaded[col]
      BY <2>4, <2>8, <3>1
    <3> QED BY <3>1, <3>2 DEF q, own, sets
  <2> QED BY <2>9, <2>10, <2>11
<1>3. CASE q.op = "detection.disposition"
  <2>1. own = "workflow" /\ Sets(q) = [status |-> StatusAfter(q.sets.reason), updated_by |-> q.actor]
    BY <1>3 DEF Table, Sets
  <2>2. Said(e) = [status |-> IF q.sets.reason = "needs_tuning" THEN "investigating" ELSE "resolved", updated_by |-> q.actor]
    BY <1>3 DEF Said, Payload
  <2>3. Sets(q) = Said(e)
    BY <2>1, <2>2 DEF StatusAfter
  <2>4. DOMAIN Said(e) = {"status", "updated_by"}
    BY <2>2
  <2>5. Speaks(e, own, r, col) <=> col \in DOMAIN Said(e)
    BY <1>3, <2>1, <2>4 DEF Speaks
  <2> QED BY <2>3, <2>4, <2>5
<1>4. CASE q.op = "detection.feedback"
  <2> DEFINE sets == Sets(q)  stated == [disposition |-> q.sets.disposition]  by == [subject |-> q.actor]
             also == [note |-> "", subject |-> q.actor]
  <2>1. /\ own = "feedback" /\ sets = Over(q.sets, also) /\ DOMAIN q.sets \subseteq {"disposition", "note"}
        /\ "disposition" \in DOMAIN q.sets /\ DOMAIN Defaults[own] = {"disposition", "note", "subject"}
    BY <1>1, <1>4, WorkflowAssumption, TheColumns DEF Table, Sets, Columns
  <2>2. Said(e) = Over(stated, by)
    BY <1>4 DEF Said, Payload
  <2>3. /\ DOMAIN stated = {"disposition"} /\ stated["disposition"] = q.sets["disposition"]
        /\ DOMAIN by = {"subject"} /\ by["subject"] = q.actor
        /\ DOMAIN also = {"note", "subject"} /\ also["subject"] = q.actor
    OBVIOUS
  <2> HIDE DEF stated, by, also, sets
  <2>4. /\ DOMAIN Said(e) = {"disposition", "subject"} /\ Said(e)["subject"] = q.actor
        /\ Said(e)["disposition"] = q.sets["disposition"]
    BY <2>2, <2>3 DEF Over
  <2>5. /\ DOMAIN sets = DOMAIN q.sets \cup {"note", "subject"} /\ sets["subject"] = q.actor
        /\ sets["disposition"] = q.sets["disposition"]
    BY <2>1, <2>3 DEF Over
  <2>6. Speaks(e, own, r, col) <=> col \in {"disposition", "subject"}
    BY <1>4, <2>1, <2>4 DEF Speaks
  <2>7. CASE col = "note"
    BY <1>4, <2>6, <2>7 DEF Silent
  <2>8. CASE col # "note"
    BY <2>1, <2>4, <2>5, <2>6, <2>8 DEF sets
  <2> QED BY <2>7, <2>8
<1>5. CASE q.op = "tenant.config.updated"
  BY <1>5 DEF Table
<1>6. CASE q.op = "case.created"
  <2>1. own = "cases" /\ DOMAIN q.sets \subseteq {"owner"} /\ Sets(q) = Over(q.sets, [owner |-> q.actor])
        /\ DOMAIN Defaults[own] = {"status", "owner"} /\ t.loaded = Defaults["cases"]
    BY <1>1, <1>6, TheColumns DEF Table, Sets, Columns, IsInsert
  <2>2. Said(e) = [status |-> "open"]
    BY <1>6 DEF Said
  <2>3. Speaks(e, own, r, col) <=> col = "status"
    BY <1>6, <2>1, <2>2 DEF Speaks
  <2>4. DOMAIN Sets(q) = {"owner"}
    BY <2>1 DEF Over
  <2>5. t.loaded["status"] = "open"
    <3>1. t.loaded = [status |-> "open", owner |-> "none"]
      BY <2>1, TheColumns
    <3> QED BY <3>1
  <2> QED BY <1>6, <2>1, <2>2, <2>3, <2>4, <2>5 DEF Silent
<1>7. CASE q.op = "detection.linked"
  <2>1. own = "cases" /\ Sets(q) = [status |-> "investigating", owner |-> q.actor]
        /\ Said(e) = [status |-> "investigating", owner |-> q.actor]
    BY <1>7 DEF Table, Sets, Said
  <2>2. Speaks(e, own, r, col) <=> col \in DOMAIN Said(e)
    BY <1>7, <2>1 DEF Speaks
  <2> QED BY <2>1, <2>2
<1>8. CASE q.op = "case.updated"
  <2>1. own = "cases" /\ Sets(q) = q.sets /\ Said(e) = q.sets /\ DOMAIN Defaults[own] = {"status", "owner"}
    BY <1>8, TheColumns DEF Table, Sets, Said, Payload
  <2>2. Speaks(e, own, r, col) <=> col \in DOMAIN q.sets
    BY <1>8, <2>1 DEF Speaks
  <2> QED BY <2>1, <2>2
<1>9. CASE q.op = "case.comment"
  <2>1. Sets(q) = q.sets /\ DOMAIN q.sets = {} /\ own = "cases"
    BY <1>1, <1>9 DEF Sets, Columns, Table
  <2>2. ~ Speaks(e, own, r, col)
    BY <1>9, <2>1 DEF Speaks
  <2> QED BY <2>1, <2>2
<1> QED BY <1>1, <1>2, <1>3, <1>4, <1>5, <1>6, <1>7, <1>8, <1>9 DEF Operation

RowsHaveColumns ==
  \A table \in DOMAIN Defaults : \A r \in DOMAIN tables[table] :
    /\ DOMAIN tables[table][r] = DOMAIN Defaults[table]
    /\ tables[table][r] = [col \in DOMAIN tables[table][r] |-> tables[table][r][col]]
LogsAreSequences == (\E E : events \in Seq(E)) /\ (\E A : attached \in Seq(A))

\* What a running call has read: its row, if it found one, is there to stay.
Sound(t) ==
  /\ t.asked \in Request /\ t.row \in {0} \cup DOMAIN tables[Table(t.asked)]
  /\ IsInsert(t.asked) => t.row = 0
  /\ IsOfCase(t.asked) => t.row = t.asked.case /\ t.row # 0
  /\ DOMAIN t.loaded = DOMAIN Defaults[Table(t.asked)]
  /\ t.row = 0 => t.loaded = Defaults[Table(t.asked)]
Fresh(t) == IF t.row = 0 THEN IsInsert(t.asked) \/ tables[Table(t.asked)] = << >>
                         ELSE t.loaded = tables[Table(t.asked)][t.row]

CallsAreSound == \A c \in Call : calls[c] # NoCall => Sound(calls[c])
OneWorkflowRow == Len(tables["workflow"]) <= 1
EventHasRow(e, rows) ==
  /\ e.type \in {"detection.workflow", "detection.disposition"} => rows["workflow"] # << >>
  /\ e.type = "detection.feedback" => rows["feedback"] # << >> /\ "note" \notin DOMAIN Said(e)
  /\ e.type \in {"case.created", "detection.linked", "case.updated"} => e.case \in DOMAIN rows["cases"]
EventsHaveRows == \A k \in DOMAIN events : EventHasRow(events[k], tables)
AttachedWithEvents ==
  /\ \A k \in DOMAIN attached : attached[k].type \in {"detection.disposition", "case.comment", "detection.linked"}
  /\ \A type \in {"detection.disposition", "case.comment", "detection.linked"} : \A case :
       Entries(attached, type, case) = Entries(events, type, case)
ColumnsExplained ==
  \A table \in {"workflow", "feedback", "cases"} : \A r \in DOMAIN tables[table] :
    \A col \in DOMAIN Defaults[table] :
      /\ Witnessed(events, table, r, col, tables[table][r][col])
      /\ ~ overlapped => LastSaid(events, table, r, col, tables[table][r][col])
OneAtATime ==
  ~ overlapped =>
    /\ \A c, d \in Call : calls[c] # NoCall /\ calls[d] # NoCall => c = d
    /\ \A c \in Call : calls[c] # NoCall => Fresh(calls[c])
    /\ Len(tables["feedback"]) <= 1 /\ Len(tables["settings"]) <= 1

WorkflowInv ==
  /\ TablesAreSequences /\ RowsHaveColumns /\ LogsAreSequences /\ CallsAreSound
  /\ OneWorkflowRow /\ EventsHaveRows /\ AttachedWithEvents /\ ColumnsExplained /\ OneAtATime

\* What a commit makes of its table.
LEMMA RowsAfter ==
  ASSUME NEW t, NEW Row, tables[Table(t.asked)] \in Seq(Row)
  PROVE  LET rows == tables[Table(t.asked)]  n == Len(rows)
         IN  /\ n \in Nat /\ DOMAIN rows = 1..n
             /\ t.row = 0 => /\ DOMAIN Rows(t) = 1..(n + 1) /\ Len(Rows(t)) = n + 1
                             /\ Rows(t)[n + 1] = Inserted(t)
                             /\ \A r \in 1..n : Rows(t)[r] = rows[r]
             /\ t.row \in 1..n => /\ DOMAIN Rows(t) = 1..n /\ Len(Rows(t)) = n
                                  /\ Rows(t)[t.row] = Updated(t, rows[t.row])
                                  /\ \A r \in (1..n) \ {t.row} : Rows(t)[r] = rows[r]
<1> DEFINE rows == tables[Table(t.asked)]  n == Len(rows)
<1>1. n \in Nat /\ DOMAIN rows = 1..n /\ rows \in Seq(Row)
  BY LenProperties
<1>2. ASSUME t.row = 0
      PROVE  /\ DOMAIN Rows(t) = 1..(n + 1) /\ Len(Rows(t)) = n + 1
             /\ Rows(t)[n + 1] = Inserted(t)
             /\ \A r \in 1..n : Rows(t)[r] = rows[r]
  <2>1. Rows(t) = Append(rows, Inserted(t))
    BY <1>2 DEF Rows
  <2> HIDE DEF rows
  <2> QED BY <1>1, <2>1, OneMore
<1>3. ASSUME t.row \in 1..n
      PROVE  /\ DOMAIN Rows(t) = 1..n /\ Len(Rows(t)) = n
             /\ Rows(t)[t.row] = Updated(t, rows[t.row])
             /\ \A r \in (1..n) \ {t.row} : Rows(t)[r] = rows[r]
  <2> DEFINE new == Updated(t, rows[t.row])
  <2>1. Rows(t) = [rows EXCEPT ![t.row] = new]
    BY <1>1, <1>3 DEF Rows
  <2> HIDE DEF rows, new
  <2>2. rows \in Seq(Row \cup {new}) /\ new \in Row \cup {new}
    BY <1>1, SeqMonotonic
  <2>3. [rows EXCEPT ![t.row] = new] \in Seq(Row \cup {new}) /\ Len([rows EXCEPT ![t.row] = new]) = n
    BY <1>1, <1>3, <2>2, ExceptSeq DEF n
  <2>4. /\ DOMAIN Rows(t) = 1..n /\ Rows(t)[t.row] = new
        /\ \A r \in (1..n) \ {t.row} : Rows(t)[r] = rows[r]
    BY <1>1, <1>3, <2>1
  <2> QED BY <2>1, <2>3, <2>4 DEF new
<1> QED BY <1>1, <1>2, <1>3

\* The new value of a column of the row a call writes is what its event says, if
\* the event says anything, as long as the call has read the row as it is.
LEMMA WrittenIsSaid ==
  ASSUME NEW t, t.asked \in Request, Table(t.asked) # "settings",
         DOMAIN t.loaded = DOMAIN Defaults[Table(t.asked)],
         t.row = 0 => t.loaded = Defaults[Table(t.asked)],
         IsInsert(t.asked) => t.row = 0,
         NEW e, e.type = t.asked.op, e.payload = Payload(t), e.actor = t.asked.actor,
         NEW r, Table(t.asked) = "cases" => e.case = r,
         NEW col \in DOMAIN Defaults[Table(t.asked)],
         NEW E, NEW log \in Seq(E), NEW now, NEW value,
         IF t.row = 0 THEN value = Inserted(t)[col] ELSE value = Written(t, col, now),
         Silent(t, col) /\ t.row # 0 => \A k \in DOMAIN log : ~ Speaks(log[k], Table(t.asked), r, col)
  PROVE  /\ t.row = 0 => Witnessed(Append(log, e), Table(t.asked), r, col, value)
         /\ t.row = 0 /\ (\A k \in DOMAIN log : ~ Speaks(log[k], Table(t.asked), r, col)) =>
              LastSaid(Append(log, e), Table(t.asked), r, col, value)
         /\ t.row # 0 /\ Witnessed(log, Table(t.asked), r, col, now) =>
              Witnessed(Append(log, e), Table(t.asked), r, col, value)
         /\ t.row # 0 /\ LastSaid(log, Table(t.asked), r, col, now) /\ t.loaded[col] = now =>
              LastSaid(Append(log, e), Table(t.asked), r, col, value)
<1> DEFINE own == Table(t.asked)  sets == Sets(t.asked)
<1>1. IF Speaks(e, own, r, col)
      THEN Said(e)[col] = IF col \in DOMAIN sets THEN sets[col] ELSE t.loaded[col]
      ELSE col \notin DOMAIN sets \/ Silent(t, col)
  BY EventSays
<1>2. t.row = 0 => value = IF col \in DOMAIN sets THEN sets[col] ELSE t.loaded[col]
  BY DEF Inserted, Over
<1>3. t.row # 0 => value = IF col \in DOMAIN sets /\ sets[col] # t.loaded[col] THEN sets[col] ELSE now
  BY DEF Written
<1>4. t.row = 0 => t.loaded[col] = Defaults[own][col]
  OBVIOUS
<1>8. Silent(t, col) => Unrecorded(Append(log, e), own, r, col) /\ (own = "cases" => t.row = 0)
  <2>1. Len(log) + 1 \in DOMAIN Append(log, e) /\ Append(log, e)[Len(log) + 1] = e
    BY OneMore
  <2>2. CASE t.asked.op = "detection.feedback"
    BY <2>2 DEF Silent, Unrecorded, Table
  <2>3. CASE t.asked.op = "case.created"
    BY <2>1, <2>3 DEF Silent, Unrecorded, Table, IsInsert
  <2> QED BY <2>2, <2>3 DEF Silent
<1> HIDE DEF own, sets
<1>5. /\ \A v : Witnessed(log, own, r, col, v) => Witnessed(Append(log, e), own, r, col, v)
      /\ Speaks(e, own, r, col) /\ Said(e)[col] = value =>
           Witnessed(Append(log, e), own, r, col, value) /\ LastSaid(Append(log, e), own, r, col, value)
      /\ \A v : ~ Speaks(e, own, r, col) /\ LastSaid(log, own, r, col, v) =>
           LastSaid(Append(log, e), own, r, col, v)
  BY HistoryGrows
<1>6. CASE t.row = 0
  <2>1. CASE Speaks(e, own, r, col)
    BY <1>1, <1>2, <1>5, <1>6, <2>1 DEF own
  <2>2. CASE ~ Speaks(e, own, r, col)
    <3>1. value = Defaults[own][col] \/ Silent(t, col)
      BY <1>1, <1>2, <1>4, <1>6, <2>2
    <3>2. Witnessed(Append(log, e), own, r, col, value)
      BY <1>8, <3>1 DEF Witnessed
    <3>3. (\A k \in DOMAIN log : ~ Speaks(log[k], own, r, col)) => LastSaid(log, own, r, col, value)
      BY DEF LastSaid
    <3> QED BY <1>5, <1>6, <2>2, <3>2, <3>3 DEF own
  <2> QED BY <2>1, <2>2
<1>7. CASE t.row # 0
  <2>1. CASE value = now
    <3>1. Witnessed(log, own, r, col, now) => Witnessed(Append(log, e), own, r, col, value)
      BY <1>5, <2>1
    <3>2. LastSaid(log, own, r, col, now) /\ t.loaded[col] = now => LastSaid(Append(log, e), own, r, col, value)
      <4>1. CASE Speaks(e, own, r, col)
        BY <1>1, <1>3, <1>5, <1>7, <2>1, <4>1
      <4>2. CASE ~ Speaks(e, own, r, col)
        BY <1>5, <2>1, <4>2
      <4> QED BY <4>1, <4>2
    <3> QED BY <1>7, <3>1, <3>2 DEF own
  <2>2. CASE value # now
    <3>1. col \in DOMAIN sets /\ value = sets[col]
      BY <1>3, <1>7, <2>2
    <3>2. CASE Speaks(e, own, r, col)
      <4>1. Said(e)[col] = value
        BY <1>1, <3>1, <3>2
      <4> QED BY <1>5, <1>7, <3>2, <4>1 DEF own
    <3>3. CASE ~ Speaks(e, own, r, col)
      <4>1. Silent(t, col)
        BY <1>1, <3>1, <3>3
      <4>2. Witnessed(Append(log, e), own, r, col, value)
        BY <1>8, <4>1 DEF Witnessed
      <4>3. LastSaid(log, own, r, col, value)
        BY <1>7, <4>1 DEF LastSaid, own
      <4> QED BY <1>5, <1>7, <3>3, <4>2, <4>3 DEF own
    <3> QED BY <3>2, <3>3
  <2> QED BY <2>1, <2>2
<1> QED BY <1>6, <1>7

LEMMA WorkflowCommits ==
  ASSUME WorkflowInv, NEW c \in Call, Commits(c)
  PROVE  WorkflowInv'
<1> DEFINE t == calls[c]  own == Table(t.asked)
           e == [type |-> t.asked.op, case |-> CaseOf(t), actor |-> t.asked.actor, payload |-> Payload(t)]
           n == Len(tables[own])
<1>1. /\ t # NoCall
      /\ ~ (t.row = 0 /\ own \in UniqueTables /\ tables[own] # << >>)
      /\ tables' = [tables EXCEPT ![own] = Rows(t)]
      /\ attached' = attached \o Attachments(t)
      /\ events' = IF own = "settings" THEN events ELSE Append(events, e)
      /\ calls' = [calls EXCEPT ![c] = NoCall]
      /\ overlapped' = overlapped
  BY DEF Commits
<1>2. Sound(t) /\ own \in DOMAIN Defaults
  BY <1>1, EveryRequestHasATable DEF WorkflowInv, CallsAreSound
<1>3. e.type = t.asked.op /\ e.case = CaseOf(t) /\ e.payload = Payload(t) /\ e.actor = t.asked.actor
  OBVIOUS
<1> HIDE DEF t, e
<1>4. PICK Row : tables[own] \in Seq(Row)
  BY <1>2 DEF WorkflowInv, TablesAreSequences
<1>5. /\ n \in Nat /\ DOMAIN tables[own] = 1..n
      /\ t.row = 0 => /\ DOMAIN Rows(t) = 1..(n + 1) /\ Len(Rows(t)) = n + 1
                      /\ Rows(t)[n + 1] = Inserted(t)
                      /\ \A r \in 1..n : Rows(t)[r] = tables[own][r]
      /\ t.row \in 1..n => /\ DOMAIN Rows(t) = 1..n /\ Len(Rows(t)) = n
                           /\ Rows(t)[t.row] = Updated(t, tables[own][t.row])
                           /\ \A r \in (1..n) \ {t.row} : Rows(t)[r] = tables[own][r]
  BY <1>4, RowsAfter
<1>6. t.row = 0 \/ t.row \in 1..n
  BY <1>2, <1>5 DEF Sound
<1>7. /\ DOMAIN tables' = DOMAIN Defaults /\ tables'[own] = Rows(t)
      /\ \A table \in DOMAIN Defaults \ {own} : tables'[table] = tables[table]
  BY <1>1, <1>2 DEF WorkflowInv, TablesAreSequences
<1>8. /\ DOMAIN calls = Call /\ calls'[c] = NoCall
      /\ \A d \in Call \ {c} : calls'[d] = calls[d]
  BY <1>1 DEF WorkflowInv, TablesAreSequences
<1> HIDE DEF own, n
\* No row goes, and a table that has one keeps one.
<1>9. /\ \A table \in DOMAIN Defaults : DOMAIN tables[table] \subseteq DOMAIN tables'[table]
      /\ \A table \in DOMAIN Defaults : tables[table] # << >> => tables'[table] # << >>
      /\ tables'[own] # << >>
  <2>1. \A r \in 1..n : r \in 1..(n + 1)
    BY <1>5
  <2>2. DOMAIN tables[own] \subseteq DOMAIN Rows(t)
    BY <1>5, <1>6, <2>1
  <2>3. Rows(t) # << >>
    BY <1>5, <1>6
  <2> QED BY <1>7, <2>2, <2>3
<1>10. TablesAreSequences'
  BY CommitIsLocal DEF WorkflowInv
<1>11. RowsHaveColumns'
  <2>1. /\ DOMAIN Inserted(t) = DOMAIN Defaults[own]
        /\ Inserted(t) = [col \in DOMAIN Inserted(t) |-> Inserted(t)[col]]
    <3>1. DOMAIN Sets(t.asked) \subseteq DOMAIN Defaults[own] /\ DOMAIN t.loaded = DOMAIN Defaults[own]
      BY <1>2, SetsAreColumns DEF Sound, own
    <3> QED BY <3>1 DEF Inserted, Over
  <2>2. ASSUME NEW r \in 1..n PROVE /\ DOMAIN Updated(t, tables[own][r]) = DOMAIN Defaults[own]
                                    /\ Updated(t, tables[own][r])
                                         = [col \in DOMAIN Updated(t, tables[own][r]) |-> Updated(t, tables[own][r])[col]]
    <3>1. DOMAIN tables[own][r] = DOMAIN Defaults[own]
      BY <1>2, <1>5 DEF WorkflowInv, RowsHaveColumns
    <3> QED BY <3>1 DEF Updated
  <2>3. ASSUME NEW r \in DOMAIN Rows(t)
        PROVE  DOMAIN Rows(t)[r] = DOMAIN Defaults[own] /\ Rows(t)[r] = [col \in DOMAIN Rows(t)[r] |-> Rows(t)[r][col]]
    <3>1. \A k \in 1..n : /\ DOMAIN tables[own][k] = DOMAIN Defaults[own]
                          /\ tables[own][k] = [col \in DOMAIN tables[own][k] |-> tables[own][k][col]]
      BY <1>2, <1>5 DEF WorkflowInv, RowsHaveColumns
    <3>2. CASE t.row = 0
      <4>1. r = n + 1 \/ r \in 1..n
        BY <1>5, <3>2
      <4> QED BY <1>5, <2>1, <3>1, <3>2, <4>1
    <3>3. CASE t.row \in 1..n
      <4>1. r \in 1..n /\ (r = t.row \/ r \in (1..n) \ {t.row})
        BY <1>5, <3>3
      <4> QED BY <1>5, <2>2, <3>1, <3>3, <4>1
    <3> QED BY <1>6, <3>2, <3>3
  <2>4. \A r \in DOMAIN tables'[own] :
          DOMAIN tables'[own][r] = DOMAIN Defaults[own] /\ tables'[own][r] = [col \in DOMAIN tables'[own][r] |-> tables'[own][r][col]]
    BY <1>7, <2>3
  <2>5. ASSUME NEW table \in DOMAIN Defaults \ {own}, NEW r \in DOMAIN tables'[table]
        PROVE  /\ DOMAIN tables'[table][r] = DOMAIN Defaults[table]
               /\ tables'[table][r] = [col \in DOMAIN tables'[table][r] |-> tables'[table][r][col]]
    <3>1. tables'[table] = tables[table]
      BY <1>7
    <3>2. /\ DOMAIN tables[table][r] = DOMAIN Defaults[table]
          /\ tables[table][r] = [col \in DOMAIN tables[table][r] |-> tables[table][r][col]]
      BY <3>1 DEF WorkflowInv, RowsHaveColumns
    <3> QED BY <3>1, <3>2
  <2> QED BY <2>4, <2>5 DEF RowsHaveColumns
<1>12. PICK E, A : events \in Seq(E) /\ attached \in Seq(A)
  BY DEF WorkflowInv, LogsAreSequences
<1>13. /\ t.asked.op \in {"detection.disposition", "case.comment", "detection.linked"} =>
            attached' = Append(attached, [type |-> t.asked.op, case |-> CaseOf(t)])
       /\ t.asked.op \notin {"detection.disposition", "case.comment", "detection.linked"} => attached' = attached
  <2>1. CASE t.asked.op \in {"detection.disposition", "case.comment", "detection.linked"}
    <3> DEFINE x == [type |-> t.asked.op, case |-> CaseOf(t)]
    <3>1. attached' = attached \o <<x>>
      BY <1>1, <2>1 DEF Attachments
    <3> HIDE DEF x
    <3>2. attached \in Seq(A \cup {x}) /\ x \in A \cup {x}
      BY <1>12, SeqMonotonic
    <3>3. attached \o <<x>> = Append(attached, x)
      BY <3>2, AppendIsConcat
    <3> QED BY <2>1, <3>1, <3>3 DEF x
  <2>2. CASE t.asked.op \notin {"detection.disposition", "case.comment", "detection.linked"}
    <3>1. attached' = attached \o << >>
      BY <1>1, <2>2 DEF Attachments
    <3> QED BY <1>12, <2>2, <3>1, ConcatEmptySeq
  <2> QED BY <2>1, <2>2
<1>14. LogsAreSequences'
  <2>1. \E F : Append(events, e) \in Seq(F)
    <3>1. events \in Seq(E \cup {e}) /\ e \in E \cup {e}
      BY <1>12, SeqMonotonic
    <3>2. Append(events, e) \in Seq(E \cup {e})
      BY <3>1
    <3> QED BY <3>2
  <2>2. \A x : \E B : Append(attached, x) \in Seq(B)
    <3> TAKE x
    <3>1. attached \in Seq(A \cup {x}) /\ x \in A \cup {x}
      BY <1>12, SeqMonotonic
    <3>2. Append(attached, x) \in Seq(A \cup {x})
      BY <3>1
    <3> QED BY <3>2
  <2> QED BY <1>1, <1>12, <1>13, <2>1, <2>2 DEF LogsAreSequences
<1>15. CallsAreSound'
  <2>1. ASSUME NEW d \in Call \ {c}, calls[d] # NoCall PROVE Sound(calls[d])'
    <3>1. Sound(calls[d]) /\ calls'[d] = calls[d] /\ Table(calls[d].asked) \in DOMAIN Defaults
      BY <1>8, <2>1, EveryRequestHasATable DEF WorkflowInv, CallsAreSound
    <3> QED BY <1>9, <3>1 DEF Sound
  <2> QED BY <1>8, <2>1 DEF CallsAreSound
<1>16. OneWorkflowRow'
  <2>1. CASE own = "workflow"
    <3>1. t.row = 0 => n = 0
      BY <1>1, <1>4, <1>5, <2>1 DEF UniqueTables, n
    <3>2. n <= 1
      BY <2>1 DEF WorkflowInv, OneWorkflowRow, n
    <3> QED BY <1>5, <1>6, <1>7, <2>1, <3>1, <3>2 DEF OneWorkflowRow
  <2>2. CASE own # "workflow"
    BY <1>7, <2>2, TheColumns DEF WorkflowInv, OneWorkflowRow
  <2> QED BY <2>1, <2>2
\* The case of the event is the row the call writes.
<1>17. own = "cases" => IF t.row = 0 THEN IsInsert(t.asked) /\ e.case = n + 1 ELSE e.case = t.row
  <2>1. CASE t.row = 0 /\ own = "cases"
    <3>1. IsInsert(t.asked)
      BY <1>2, <2>1, WorkflowAssumption DEF Sound, own, IsOfCase, IsInsert, Table, Operation
    <3> QED BY <1>3, <2>1, <3>1 DEF CaseOf, NewCase, n
  <2>2. CASE t.row # 0 /\ own = "cases"
    <3>1. IsOfCase(t.asked) /\ ~ IsInsert(t.asked)
      BY <1>2, <2>2, WorkflowAssumption DEF Sound, own, IsOfCase, IsInsert, Table, Operation
    <3> QED BY <1>2, <1>3, <2>2, <3>1 DEF CaseOf, Sound
  <2> QED BY <2>1, <2>2
<1>18. EventsHaveRows'
  <2>1. ASSUME NEW f, EventHasRow(f, tables) PROVE EventHasRow(f, tables')
    BY <1>9, <2>1, TheColumns DEF EventHasRow
  <2>2. own # "settings" => EventHasRow(e, tables')
    <3>1. e.type \in {"detection.workflow", "detection.disposition"} => own = "workflow"
      BY <1>3 DEF own, Table
    <3>2. e.type = "detection.feedback" => own = "feedback" /\ "note" \notin DOMAIN Said(e)
      <4> SUFFICES ASSUME e.type = "detection.feedback" PROVE own = "feedback" /\ "note" \notin DOMAIN Said(e)
        OBVIOUS
      <4>1. Said(e) = Over([disposition |-> t.asked.sets.disposition], [subject |-> e.actor])
        BY <1>3 DEF Said, Payload
      <4>2. DOMAIN Said(e) = {"disposition", "subject"}
        BY <4>1 DEF Over
      <4> QED BY <1>3, <4>2 DEF own, Table
    <3>3. e.type \in {"case.created", "detection.linked", "case.updated"} => own = "cases"
      BY <1>3 DEF own, Table
    <3>4. own = "cases" => e.case \in DOMAIN Rows(t)
      BY <1>5, <1>6, <1>17
    <3> QED BY <1>7, <1>9, <3>1, <3>2, <3>3, <3>4 DEF EventHasRow
  <2>3. \A k \in DOMAIN events : EventHasRow(events[k], tables')
    BY <2>1 DEF WorkflowInv, EventsHaveRows
  <2>4. CASE own = "settings"
    BY <1>1, <2>3, <2>4 DEF EventsHaveRows
  <2>5. CASE own # "settings"
    <3>1. \A k \in DOMAIN Append(events, e) : Append(events, e)[k] = e \/ (k \in DOMAIN events /\ Append(events, e)[k] = events[k])
      BY <1>12, OneMoreOrOld
    <3> QED BY <1>1, <2>2, <2>3, <2>5, <3>1 DEF EventsHaveRows
  <2> QED BY <2>4, <2>5
<1>19. AttachedWithEvents'
  <2>1. ASSUME NEW type \in {"detection.disposition", "case.comment", "detection.linked"}, NEW case
        PROVE  Entries(attached', type, case) = Entries(events', type, case)
    <3> DEFINE x == [type |-> t.asked.op, case |-> CaseOf(t)]
    <3>1. x.type = t.asked.op /\ x.case = CaseOf(t)
      OBVIOUS
    <3> HIDE DEF x
    <3>2. Entries(attached, type, case) = Entries(events, type, case)
      BY DEF WorkflowInv, AttachedWithEvents
    <3>3. /\ e.type = type /\ e.case = case => Entries(Append(events, e), type, case) = Entries(events, type, case) + 1
          /\ ~ (e.type = type /\ e.case = case) => Entries(Append(events, e), type, case) = Entries(events, type, case)
      BY <1>12, EntriesGrow
    <3>4. /\ x.type = type /\ x.case = case => Entries(Append(attached, x), type, case) = Entries(attached, type, case) + 1
          /\ ~ (x.type = type /\ x.case = case) => Entries(Append(attached, x), type, case) = Entries(attached, type, case)
      BY <1>12, EntriesGrow
    <3>5. CASE t.asked.op \in {"detection.disposition", "case.comment", "detection.linked"}
      <4>1. own # "settings"
        BY <3>5 DEF own, Table
      <4>2. attached' = Append(attached, x) /\ events' = Append(events, e)
        BY <1>1, <1>13, <3>5, <4>1 DEF x
      <4> QED BY <1>3, <3>1, <3>2, <3>3, <3>4, <4>2
    <3>6. CASE t.asked.op \notin {"detection.disposition", "case.comment", "detection.linked"}
      <4>1. attached' = attached /\ e.type # type
        BY <1>3, <1>13, <3>6
      <4> QED BY <1>1, <3>2, <3>3, <4>1
    <3> QED BY <3>5, <3>6
  <2>2. ASSUME NEW k \in DOMAIN attached'
        PROVE  attached'[k].type \in {"detection.disposition", "case.comment", "detection.linked"}
    <3> DEFINE x == [type |-> t.asked.op, case |-> CaseOf(t)]
    <3>1. x.type = t.asked.op
      OBVIOUS
    <3> HIDE DEF x
    <3>2. \A j \in DOMAIN Append(attached, x) : Append(attached, x)[j] = x \/ (j \in DOMAIN attached /\ Append(attached, x)[j] = attached[j])
      BY <1>12, OneMoreOrOld
    <3>3. \A j \in DOMAIN attached : attached[j].type \in {"detection.disposition", "case.comment", "detection.linked"}
      BY DEF WorkflowInv, AttachedWithEvents
    <3> QED BY <1>13, <3>1, <3>2, <3>3 DEF x
  <2> QED BY <2>1, <2>2 DEF AttachedWithEvents
<1>20. t.asked \in Request /\ overlapped' = overlapped /\ (~ overlapped => Fresh(t))
  BY <1>1, <1>2 DEF WorkflowInv, OneAtATime, Sound, t
\* Without an overlap a call inserts the first row of its kind, or a case of its own.
<1>21. ~ overlapped /\ t.row = 0 /\ own # "cases" => n = 0 /\ tables[own] = << >>
  <2>1. own # "cases" => ~ IsInsert(t.asked)
    BY DEF own, Table, IsInsert
  <2> QED BY <1>5, <1>20, <2>1 DEF Fresh, own, n
<1>22. ColumnsExplained'
  <2>1. ASSUME NEW table \in {"workflow", "feedback", "cases"}, NEW r \in DOMAIN tables'[table], NEW col \in DOMAIN Defaults[table]
        PROVE  /\ Witnessed(events', table, r, col, tables'[table][r][col])
               /\ ~ overlapped => LastSaid(events', table, r, col, tables'[table][r][col])
    <3> DEFINE now == tables[table][r][col]  value == tables'[table][r][col]
    <3>1. /\ table \in DOMAIN Defaults
          /\ r \in DOMAIN tables[table] =>
               Witnessed(events, table, r, col, now) /\ (~ overlapped => LastSaid(events, table, r, col, now))
      BY TheColumns DEF WorkflowInv, ColumnsExplained
    <3>2. table = own => events' = Append(events, e) /\ own # "settings"
      BY <1>1
    <3>3. CASE r \in DOMAIN tables[table] /\ value = now /\ (~ overlapped => ~ Speaks(e, table, r, col))
      <4>1. /\ Witnessed(events, table, r, col, now) => Witnessed(Append(events, e), table, r, col, now)
            /\ ~ Speaks(e, table, r, col) /\ LastSaid(events, table, r, col, now) =>
                 LastSaid(Append(events, e), table, r, col, now)
        BY <1>12, HistoryGrows
      <4>2. events' = events \/ events' = Append(events, e)
        BY <1>1
      <4> HIDE DEF now, value
      <4>3. Witnessed(events', table, r, col, value) /\ (~ overlapped => LastSaid(events', table, r, col, value))
        BY <3>1, <3>3, <4>1, <4>2
      <4> QED BY <4>3 DEF value
    <3>4. CASE table # own
      <4>1. tables'[table] = tables[table]
        BY <1>7, <3>1, <3>4
      <4>2. ~ Speaks(e, table, r, col)
        BY <1>3, <3>4 DEF Speaks, own, Table
      <4> QED BY <3>3, <4>1, <4>2
    <3>5. CASE table = own /\ r \in 1..n /\ r # t.row
      <4>1. r \in DOMAIN tables[table] /\ tables'[table][r] = tables[table][r]
        BY <1>5, <1>6, <1>7, <3>5
      <4>2. ~ overlapped => ~ Speaks(e, table, r, col)
        <5> SUFFICES ASSUME ~ overlapped PROVE ~ Speaks(e, table, r, col)
          OBVIOUS
        <5>1. CASE own = "cases"
          <6>1. e.case # r
            BY <1>5, <1>6, <1>17, <3>5, <5>1
          <6> QED BY <3>5, <5>1, <6>1 DEF Speaks
        <5>2. CASE own # "cases"
          <6>1. n <= 1
            BY <3>5, <5>2 DEF WorkflowInv, OneWorkflowRow, OneAtATime, n
          <6>2. t.row # 0
            BY <1>5, <1>21, <3>5, <5>2
          <6> QED BY <1>5, <1>6, <3>5, <6>1, <6>2
        <5> QED BY <5>1, <5>2
      <4> QED BY <3>3, <4>1, <4>2
    <3>6. CASE table = own /\ (IF t.row = 0 THEN r = n + 1 ELSE r = t.row)
      <4>1. own = "cases" => e.case = r
        BY <1>17, <3>6
      <4>2. /\ DOMAIN t.loaded = DOMAIN Defaults[own]
            /\ t.row = 0 => t.loaded = Defaults[own]
            /\ IsInsert(t.asked) => t.row = 0
        BY <1>2 DEF Sound, own
      <4>3. IF t.row = 0 THEN value = Inserted(t)[col] ELSE value = Written(t, col, now)
        <5>1. CASE t.row = 0
          BY <1>5, <1>7, <3>6, <5>1
        <5>2. CASE t.row # 0
          <6>1. r \in 1..n /\ tables'[table][r] = Updated(t, tables[table][r])
            BY <1>5, <1>6, <1>7, <3>6, <5>2
          <6>2. col \in DOMAIN tables[table][r]
            BY <1>5, <3>1, <3>6, <6>1 DEF WorkflowInv, RowsHaveColumns
          <6> QED BY <5>2, <6>1, <6>2 DEF Updated
        <5> QED BY <5>1, <5>2
      <4>7. Silent(t, col) /\ t.row # 0 => \A k \in DOMAIN events : ~ Speaks(events[k], own, r, col)
        <5>1. t.asked.op = "case.created" => t.row = 0
          BY <4>2 DEF IsInsert
        <5>2. t.asked.op = "detection.feedback" => own = "feedback"
          BY DEF own, Table
        <5>3. \A k \in DOMAIN events : EventHasRow(events[k], tables)
          BY DEF WorkflowInv, EventsHaveRows
        <5>4. ASSUME own = "feedback", col = "note", NEW k \in DOMAIN events PROVE ~ Speaks(events[k], own, r, col)
          BY <5>3, <5>4 DEF Speaks, EventHasRow
        <5> QED BY <5>1, <5>2, <5>4 DEF Silent
      <4> HIDE DEF now, value
      <4>4. /\ t.row = 0 => Witnessed(Append(events, e), own, r, col, value)
            /\ t.row = 0 /\ (\A k \in DOMAIN events : ~ Speaks(events[k], own, r, col)) =>
                 LastSaid(Append(events, e), own, r, col, value)
            /\ t.row # 0 /\ Witnessed(events, own, r, col, now) => Witnessed(Append(events, e), own, r, col, value)
            /\ t.row # 0 /\ LastSaid(events, own, r, col, now) /\ t.loaded[col] = now =>
                 LastSaid(Append(events, e), own, r, col, value)
        BY <1>3, <1>12, <1>20, <3>2, <3>6, <4>1, <4>2, <4>3, <4>7, WrittenIsSaid DEF own
      <4>5. CASE t.row = 0
        <5>1. ASSUME ~ overlapped, NEW k \in DOMAIN events PROVE ~ Speaks(events[k], own, r, col)
          <6>1. EventHasRow(events[k], tables)
            BY DEF WorkflowInv, EventsHaveRows
          <6>2. CASE own = "cases"
            <7>1. r \notin DOMAIN tables["cases"]
              BY <1>5, <3>6, <4>5, <6>2
            <7> QED BY <6>1, <6>2, <7>1 DEF Speaks, EventHasRow
          <6>3. CASE own # "cases"
            <7>1. tables[own] = << >> /\ (own = "workflow" \/ own = "feedback")
              BY <1>21, <3>6, <4>5, <5>1, <6>3
            <7> QED BY <6>1, <7>1 DEF Speaks, EventHasRow
          <6> QED BY <6>2, <6>3
        <5>2. Witnessed(Append(events, e), own, r, col, value) /\ (~ overlapped => LastSaid(Append(events, e), own, r, col, value))
          BY <4>4, <4>5, <5>1
        <5> QED BY <3>2, <3>6, <5>2 DEF value
      <4>6. CASE t.row # 0
        <5>1. r \in DOMAIN tables[table]
          BY <1>5, <1>6, <3>6, <4>6
        <5>2. ~ overlapped => t.loaded[col] = now
          BY <1>20, <3>6, <4>6 DEF Fresh, own, now
        <5>3. Witnessed(Append(events, e), own, r, col, value) /\ (~ overlapped => LastSaid(Append(events, e), own, r, col, value))
          BY <3>1, <3>6, <4>4, <4>6, <5>1, <5>2
        <5> QED BY <3>2, <3>6, <5>3 DEF value
      <4> QED BY <4>5, <4>6
    <3>7. table = own => (r \in 1..n /\ r # t.row) \/ (IF t.row = 0 THEN r = n + 1 ELSE r = t.row)
      BY <1>5, <1>6, <1>7
    <3> QED BY <3>4, <3>5, <3>6, <3>7
  <2> QED BY <1>20, <2>1 DEF ColumnsExplained
<1>23. OneAtATime'
  <2> SUFFICES ASSUME ~ overlapped
               PROVE  /\ \A d \in Call : calls'[d] = NoCall
                      /\ Len(tables'["feedback"]) <= 1 /\ Len(tables'["settings"]) <= 1
    BY <1>20 DEF OneAtATime
  <2>1. \A d \in Call : calls'[d] = NoCall
    BY <1>1, <1>8 DEF WorkflowInv, OneAtATime, t
  <2>2. ASSUME NEW table \in {"feedback", "settings"} PROVE Len(tables'[table]) <= 1
    <3>1. Len(tables[table]) <= 1 /\ table \in DOMAIN Defaults
      BY TheColumns DEF WorkflowInv, OneAtATime
    <3>2. CASE table # own
      BY <1>7, <3>1, <3>2
    <3>3. CASE table = own
      <4>1. n <= 1 /\ (t.row = 0 => n = 0)
        BY <1>21, <3>1, <3>3 DEF n
      <4> QED BY <1>5, <1>6, <1>7, <3>3, <4>1
    <3> QED BY <3>2, <3>3
  <2> QED BY <2>1, <2>2
<1> QED BY <1>10, <1>11, <1>14, <1>15, <1>16, <1>18, <1>19, <1>22, <1>23 DEF WorkflowInv

LEMMA WorkflowStarts == WorkflowInit => WorkflowInv
<1> SUFFICES ASSUME WorkflowInit PROVE WorkflowInv
  OBVIOUS
<1>1. /\ DOMAIN tables = DOMAIN Defaults /\ tables = [table \in DOMAIN Defaults |-> tables[table]]
      /\ \A table \in DOMAIN Defaults : tables[table] = << >>
      /\ DOMAIN calls = Call /\ calls = [c \in Call |-> calls[c]] /\ \A c \in Call : calls[c] = NoCall
      /\ events = << >> /\ attached = << >>
  BY DEF WorkflowInit
<1>2. \A table \in DOMAIN Defaults : tables[table] \in Seq({}) /\ Len(tables[table]) = 0 /\ DOMAIN tables[table] = {}
  <2>1. << >> \in Seq({}) /\ Len(<< >>) = 0 /\ DOMAIN << >> = {}
    OBVIOUS
  <2> QED BY <1>1, <2>1
<1>3. TablesAreSequences
  BY <1>1, <1>2 DEF TablesAreSequences
<1>4. \A table \in {"workflow", "feedback", "cases"} : table \in DOMAIN Defaults
  BY TheColumns
<1>5. events \in Seq({}) /\ attached \in Seq({}) /\ DOMAIN events = {}
  BY <1>1
<1>6. RowsHaveColumns /\ ColumnsExplained
  BY <1>2, <1>4 DEF RowsHaveColumns, ColumnsExplained
<1>7. LogsAreSequences /\ EventsHaveRows
  BY <1>5 DEF LogsAreSequences, EventsHaveRows
<1>8. AttachedWithEvents
  BY <1>1 DEF AttachedWithEvents, Entries
<1>9. CallsAreSound
  BY <1>1 DEF CallsAreSound
<1>10. OneWorkflowRow /\ OneAtATime
  <2>1. Len(tables["workflow"]) = 0 /\ Len(tables["feedback"]) = 0 /\ Len(tables["settings"]) = 0
    BY <1>2, TheColumns
  <2> QED BY <1>1, <2>1 DEF OneWorkflowRow, OneAtATime
<1> QED BY <1>3, <1>6, <1>7, <1>8, <1>9, <1>10 DEF WorkflowInv

\* What a call reads is sound, and as it is as long as nothing commits in between.
LEMMA WorkflowReads ==
  ASSUME WorkflowInv, NEW c \in Call, NEW q \in Request, NEW r \in Reading(q), Reads(c, q, r)
  PROVE  WorkflowInv'
<1> DEFINE own == Table(q)
           t == [at |-> "read", asked |-> q, row |-> r, loaded |-> IF r = 0 THEN Defaults[own] ELSE tables[own][r]]
<1>1. /\ calls' = [calls EXCEPT ![c] = t] /\ overlapped' = (overlapped \/ \E d \in Call \ {c} : calls[d] # NoCall)
      /\ tables' = tables /\ attached' = attached /\ events' = events
  BY DEF Reads
<1>2. t.asked = q /\ t.row = r /\ t.loaded = IF r = 0 THEN Defaults[own] ELSE tables[own][r]
  OBVIOUS
<1> HIDE DEF t
<1>3. own \in DOMAIN Defaults
  BY EveryRequestHasATable
<1>4. /\ DOMAIN calls' = Call /\ calls' = [d \in Call |-> calls'[d]] /\ calls'[c] = t
      /\ \A d \in Call \ {c} : calls'[d] = calls[d]
  BY <1>1 DEF WorkflowInv, TablesAreSequences
<1>5. /\ r \in {0} \cup DOMAIN tables[own] /\ (IsInsert(q) => r = 0)
      /\ (IsOfCase(q) => r = q.case /\ r \in DOMAIN tables["cases"])
  <2>1. IsOfCase(q) => ~ IsInsert(q) /\ own = "cases"
    BY DEF IsOfCase, IsInsert, Table
  <2>2. CASE IsInsert(q)
    BY <2>1, <2>2 DEF Reading
  <2>3. CASE IsOfCase(q)
    BY <2>1, <2>3 DEF Reading
  <2>4. CASE ~ IsInsert(q) /\ ~ IsOfCase(q)
    BY <2>4 DEF Reading
  <2> QED BY <2>2, <2>3, <2>4
<1>6. 0 \notin DOMAIN tables["cases"]
  <2>1. PICK Row : tables["cases"] \in Seq(Row)
    BY TheColumns DEF WorkflowInv, TablesAreSequences
  <2> QED BY <2>1
<1>7. Sound(t)
  <2>1. r # 0 => DOMAIN tables[own][r] = DOMAIN Defaults[own]
    BY <1>3, <1>5 DEF WorkflowInv, RowsHaveColumns
  <2> QED BY <1>2, <1>5, <1>6, <2>1 DEF Sound
<1>8. CallsAreSound'
  <2>1. \A d \in Call \ {c} : calls[d] # NoCall => Sound(calls[d])
    BY DEF WorkflowInv, CallsAreSound
  <2>2. \A d \in Call : calls'[d] # NoCall => Sound(calls'[d])
    BY <1>4, <1>7, <2>1
  <2> QED BY <1>1, <2>2 DEF CallsAreSound, Sound
<1>9. Fresh(t)
  <2>1. r = 0 => IsInsert(q) \/ tables[own] = << >>
    <3>1. CASE IsOfCase(q)
      BY <1>5, <1>6, <3>1
    <3>2. CASE IsInsert(q)
      BY <3>2
    <3>3. CASE ~ IsOfCase(q) /\ ~ IsInsert(q)
      <4>1. PICK Row : tables[own] \in Seq(Row)
        BY <1>3 DEF WorkflowInv, TablesAreSequences
      <4>2. 0 \notin DOMAIN tables[own]
        BY <4>1
      <4> QED BY <3>3, <4>2 DEF Reading
    <3> QED BY <3>1, <3>2, <3>3
  <2> QED BY <1>2, <2>1 DEF Fresh
<1>10. OneAtATime'
  <2> SUFFICES ASSUME ~ overlapped'
               PROVE  /\ \A d1, d2 \in Call : calls'[d1] # NoCall /\ calls'[d2] # NoCall => d1 = d2
                      /\ \A d \in Call : calls'[d] # NoCall => Fresh(calls'[d])
                      /\ Len(tables["feedback"]) <= 1 /\ Len(tables["settings"]) <= 1
    BY <1>1 DEF OneAtATime, Fresh
  <2>1. ~ overlapped /\ \A d \in Call \ {c} : calls'[d] = NoCall
    BY <1>1, <1>4
  <2> QED BY <1>4, <1>9, <2>1 DEF WorkflowInv, OneAtATime
<1>11. ColumnsExplained'
  <2>1. ~ overlapped' => ~ overlapped
    BY <1>1
  <2> QED BY <1>1, <2>1 DEF WorkflowInv, ColumnsExplained
<1>12. TablesAreSequences' /\ RowsHaveColumns' /\ LogsAreSequences'
  BY <1>1, <1>4 DEF WorkflowInv, TablesAreSequences, RowsHaveColumns, LogsAreSequences
<1>13. OneWorkflowRow' /\ EventsHaveRows' /\ AttachedWithEvents'
  BY <1>1 DEF WorkflowInv, OneWorkflowRow, EventsHaveRows, AttachedWithEvents
<1> QED BY <1>8, <1>10, <1>11, <1>12, <1>13 DEF WorkflowInv

LEMMA WorkflowGivesUp ==
  ASSUME WorkflowInv, NEW c \in Call, GivesUp(c)
  PROVE  WorkflowInv'
<1>1. /\ calls' = [calls EXCEPT ![c] = NoCall] /\ tables' = tables /\ attached' = attached /\ events' = events
      /\ overlapped' = overlapped
  BY DEF GivesUp
<1>2. /\ DOMAIN calls' = Call /\ calls' = [d \in Call |-> calls'[d]]
      /\ \A d \in Call : calls'[d] # NoCall => calls[d] # NoCall /\ calls'[d] = calls[d]
  BY <1>1 DEF WorkflowInv, TablesAreSequences
<1>3. TablesAreSequences' /\ RowsHaveColumns' /\ LogsAreSequences' /\ ColumnsExplained'
  <2>1. TablesAreSequences'
    BY <1>1, <1>2 DEF WorkflowInv, TablesAreSequences
  <2>2. RowsHaveColumns' /\ LogsAreSequences' /\ ColumnsExplained'
    BY <1>1 DEF WorkflowInv, RowsHaveColumns, LogsAreSequences, ColumnsExplained
  <2> QED BY <2>1, <2>2
<1>4. OneWorkflowRow' /\ EventsHaveRows' /\ AttachedWithEvents'
  BY <1>1 DEF WorkflowInv, OneWorkflowRow, EventsHaveRows, AttachedWithEvents
<1>5. CallsAreSound'
  <2>1. \A d \in Call : calls'[d] # NoCall => Sound(calls'[d])
    BY <1>2 DEF WorkflowInv, CallsAreSound
  <2> QED BY <1>1, <2>1 DEF CallsAreSound, Sound
<1>6. OneAtATime'
  <2>1. ~ overlapped => \A d \in Call : calls'[d] # NoCall => Fresh(calls'[d])
    BY <1>2 DEF WorkflowInv, OneAtATime
  <2>2. ~ overlapped => \A d1, d2 \in Call : calls'[d1] # NoCall /\ calls'[d2] # NoCall => d1 = d2
    BY <1>2 DEF WorkflowInv, OneAtATime
  <2>3. ~ overlapped => Len(tables["feedback"]) <= 1 /\ Len(tables["settings"]) <= 1
    BY DEF WorkflowInv, OneAtATime
  <2> QED BY <1>1, <2>1, <2>2, <2>3 DEF OneAtATime, Fresh
<1> QED BY <1>3, <1>4, <1>5, <1>6 DEF WorkflowInv

LEMMA HistoryInductive == WorkflowInv /\ [WorkflowNext]_workflowVars => WorkflowInv'
<1> SUFFICES ASSUME WorkflowInv, [WorkflowNext]_workflowVars PROVE WorkflowInv'
  OBVIOUS
<1>1. CASE UNCHANGED workflowVars
  <2>1. /\ tables' = tables /\ attached' = attached /\ events' = events /\ calls' = calls /\ overlapped' = overlapped
    BY <1>1 DEF workflowVars
  <2>2. TablesAreSequences' /\ RowsHaveColumns' /\ LogsAreSequences' /\ ColumnsExplained'
    BY <2>1 DEF WorkflowInv, TablesAreSequences, RowsHaveColumns, LogsAreSequences, ColumnsExplained
  <2>3. OneWorkflowRow' /\ EventsHaveRows' /\ AttachedWithEvents'
    BY <2>1 DEF WorkflowInv, OneWorkflowRow, EventsHaveRows, AttachedWithEvents
  <2>4. CallsAreSound' /\ OneAtATime'
    BY <2>1 DEF WorkflowInv, CallsAreSound, Sound, OneAtATime, Fresh
  <2> QED BY <2>2, <2>3, <2>4 DEF WorkflowInv
<1>2. CASE WorkflowNext
  BY <1>2, WorkflowReads, WorkflowCommits, WorkflowGivesUp DEF WorkflowNext
<1> QED BY <1>1, <1>2

LEMMA HistoryExplains == WorkflowInv => EventsExplainRows
<1> SUFFICES ASSUME WorkflowInv PROVE EventsExplainRows
  OBVIOUS
<1>1. /\ Len(tables.workflow) <= 1
      /\ ~ overlapped => Len(tables.feedback) <= 1 /\ Len(tables.settings) <= 1
  BY DEF WorkflowInv, OneWorkflowRow, OneAtATime
<1>2. ASSUME NEW k \in DOMAIN attached
      PROVE  Entries(attached, attached[k].type, attached[k].case) = Entries(events, attached[k].type, attached[k].case)
  <2>1. attached[k].type \in {"detection.disposition", "case.comment", "detection.linked"}
    BY DEF WorkflowInv, AttachedWithEvents
  <2> QED BY <2>1 DEF WorkflowInv, AttachedWithEvents
<1>3. ASSUME NEW table \in {"workflow", "feedback", "cases"}, NEW r \in DOMAIN tables[table], NEW col \in DOMAIN tables[table][r]
      PROVE  LET says == Saying(table, r, col)
                 value == tables[table][r][col]
                 last == CHOOSE k \in says : \A j \in says : j <= k
             IN  /\ \/ value = Defaults[table][col]
                    \/ \E k \in says : Said(events[k])[col] = value
                    \/ Unrecorded(events, table, r, col)
                 /\ ~ overlapped /\ says # {} => value = Said(events[last])[col]
  <2> DEFINE says == Saying(table, r, col)
             value == tables[table][r][col]
             last == CHOOSE k \in says : \A j \in says : j <= k
  <2>1. \A k : k \in says <=> k \in DOMAIN events /\ Speaks(events[k], table, r, col)
    BY DEF Saying, About, Speaks
  <2>2. col \in DOMAIN Defaults[table]
    BY TheColumns DEF WorkflowInv, RowsHaveColumns
  <2>3. Witnessed(events, table, r, col, value) /\ (~ overlapped => LastSaid(events, table, r, col, value))
    BY <2>2 DEF WorkflowInv, ColumnsExplained
  <2>4. PICK E : events \in Seq(E)
    BY DEF WorkflowInv, LogsAreSequences
  <2>5. says \subseteq Nat
    BY <2>1, <2>4
  <2> HIDE DEF says, value
  <2>6. \/ value = Defaults[table][col]
        \/ \E k \in says : Said(events[k])[col] = value
        \/ Unrecorded(events, table, r, col)
    BY <2>1, <2>3 DEF Witnessed
  <2>7. ASSUME ~ overlapped, says # {} PROVE value = Said(events[last])[col]
    <3>1. PICK k \in says : Said(events[k])[col] = value /\ \A j \in says : j <= k
      BY <2>1, <2>3, <2>7 DEF LastSaid
    <3>2. last \in says /\ \A j \in says : j <= last
      BY <3>1
    <3> HIDE DEF last
    <3>3. last = k
      BY <2>5, <3>1, <3>2
    <3> QED BY <3>1, <3>3
  <2> QED BY <2>6, <2>7 DEF says, value
<1> QED BY <1>1, <1>2, <1>3 DEF EventsExplainRows

\* The case_events are the history of the rows, however calls overlap: nobody has
\* two workflow rows; every value was said, but for a feedback's note and the owner
\* a case is created with; and one at a time it was said last.
THEOREM EventsAreTheHistory == WorkflowSpec => []EventsExplainRows
BY WorkflowStarts, HistoryInductive, HistoryExplains, PTL DEF WorkflowSpec

-----------------------------------------------------------------------------
(***************************************************************************)
(* The rate limiter.                                                       *)
(***************************************************************************)
Admission == [by : {"shared", "deque"}, at : Nat]
Stage == InDeque \cup {"upserting", "admitted", "judged", "saving"}

ApiTypeOK ==
  /\ shared \in BOOLEAN /\ production \in BOOLEAN
  /\ clock \in Nat /\ late \in Nat /\ together \in BOOLEAN
  /\ row \in [window : Nat, count : Nat]
  /\ bucket \in Seq(Nat)
  /\ threads \in [Thread -> [at : {"idle"}, reply : {"none", "429", "503", "500", "4xx", "200"}]
                            \cup [at : Stage, now : 0..clock, body : Body, reply : {"none"}]]
  /\ admitted \in Seq(Admission)

\* A thread at work has the request and the time it read.
LEMMA ThreadAtWork ==
  ASSUME ApiTypeOK, NEW t \in Thread, threads[t].at # "idle"
  PROVE  /\ threads[t] = [at |-> threads[t].at, now |-> threads[t].now, body |-> threads[t].body, reply |-> "none"]
         /\ threads[t].at \in Stage /\ threads[t].body \in Body
         /\ threads[t].now \in Nat /\ threads[t].now <= clock
<1>1. threads[t] \in [at : Stage, now : 0..clock, body : Body, reply : {"none"}] /\ clock \in Nat
  BY DEF ApiTypeOK
<1>2. PICK a \in Stage, n \in 0..clock, b \in Body : threads[t] = [at |-> a, now |-> n, body |-> b, reply |-> "none"]
  BY <1>1
<1>3. n \in Nat /\ n <= clock
  BY <1>1
<1> QED BY <1>2, <1>3

\* The requests the database let through for a window.
Passed(window) == {j \in DOMAIN admitted : admitted[j].by = "shared" /\ admitted[j].at = window}

\* A window is begun anew only by a late upsert, or for the first time: what has
\* passed for one is what the row still grants of it, and a whole limit for each
\* late upsert.
Granted(window) == IF window < row.window THEN RATE_LIMIT
                   ELSE IF window = row.window /\ row.count < RATE_LIMIT THEN row.count
                   ELSE IF window = row.window THEN RATE_LIMIT ELSE 0
WindowsAreBounded == \A w \in Nat : Cardinality(Passed(w)) <= RATE_LIMIT * late + Granted(w)

LEMMA PassedGrows ==
  ASSUME admitted \in Seq(Admission), NEW e \in Admission, admitted' = Append(admitted, e), NEW w \in Nat
  PROVE  /\ Cardinality(Passed(w)) \in Nat
         /\ e.by = "shared" /\ e.at = w => Cardinality(Passed(w)') = Cardinality(Passed(w)) + 1
         /\ ~ (e.by = "shared" /\ e.at = w) => Cardinality(Passed(w)') = Cardinality(Passed(w))
<1> DEFINE n == Len(admitted)
<1>1. /\ n \in Nat /\ DOMAIN admitted = 1..n /\ DOMAIN admitted' = 1..(n + 1)
      /\ admitted'[n + 1] = e /\ \A j \in 1..n : admitted'[j] = admitted[j]
  OBVIOUS
<1> HIDE DEF n
<1>2. IsFiniteSet(Passed(w)) /\ Cardinality(Passed(w)) \in Nat /\ n + 1 \notin Passed(w)
  <2>1. Passed(w) \in SUBSET (1..n)
    BY <1>1 DEF Passed
  <2>2. IsFiniteSet(1..n)
    BY <1>1, FS_Interval
  <2>3. IsFiniteSet(Passed(w))
    BY <2>1, <2>2, FS_Subset
  <2> QED BY <2>1, <2>3, <1>1, FS_CardinalityType
<1>3. CASE e.by = "shared" /\ e.at = w
  <2>1. Passed(w)' = Passed(w) \cup {n + 1}
    <3>1. DOMAIN admitted' = DOMAIN admitted \cup {n + 1}
      BY <1>1
    <3> QED BY <1>1, <1>3, <3>1 DEF Passed
  <2> QED BY <2>1, <1>2, <1>3, FS_AddElement
<1>4. CASE ~ (e.by = "shared" /\ e.at = w)
  <2>1. Passed(w)' = Passed(w)
    <3>1. DOMAIN admitted' = DOMAIN admitted \cup {n + 1}
      BY <1>1
    <3> QED BY <1>1, <1>4, <3>1 DEF Passed
  <2> QED BY <2>1, <1>2, <1>4
<1> QED BY <1>3, <1>4

LEMMA UpsertIsBounded ==
  ASSUME ApiTypeOK, WindowsAreBounded, NEW t \in Thread, Upserts(t)
  PROVE  WindowsAreBounded' /\ row' \in [window : Nat, count : Nat] /\ late' \in Nat
<1> DEFINE window == threads[t].now \div RATE_WINDOW_SECONDS
           passes == Count(window) <= RATE_LIMIT
           more == IF window < row.window THEN 1 ELSE 0
<1>1. threads[t].now \in Nat
  BY ThreadAtWork DEF Upserts
<1>2. window \in Nat
  BY <1>1, ApiAssumption
<1>3. /\ row' = [window |-> window, count |-> IF passes THEN Count(window) ELSE RATE_LIMIT + 1]
      /\ late' = late + more
      /\ passes => admitted' = Append(admitted, [by |-> "shared", at |-> window])
      /\ ~ passes => admitted' = admitted
  BY DEF Upserts, Admits
<1>4. /\ Count(window) \in Nat /\ Count(window) = (IF row.window = window THEN row.count + 1 ELSE 1)
      /\ row.window \in Nat /\ row.count \in Nat /\ RATE_LIMIT \in Nat /\ late \in Nat /\ more \in {0, 1}
      /\ admitted \in Seq(Admission)
  <2>1. row.window \in Nat /\ row.count \in Nat /\ late \in Nat /\ admitted \in Seq(Admission)
    BY DEF ApiTypeOK
  <2>2. Count(window) = IF row.window = window THEN row.count + 1 ELSE 1
    BY DEF Count
  <2> QED BY <2>1, <2>2, ApiAssumption
<1> HIDE DEF window
<1>5. row' \in [window : Nat, count : Nat] /\ late' \in Nat
  BY <1>2, <1>3, <1>4
<1>6. RATE_LIMIT * late \in Nat /\ RATE_LIMIT * (late + 1) = RATE_LIMIT * late + RATE_LIMIT
  BY <1>4
<1>7. RATE_LIMIT * late' = RATE_LIMIT * late + (IF more = 1 THEN RATE_LIMIT ELSE 0)
  BY <1>3, <1>4, <1>6
<1>8. ASSUME NEW w \in Nat PROVE Cardinality(Passed(w)') <= RATE_LIMIT * late' + Granted(w)'
  <2> DEFINE c == Cardinality(Passed(w))  d == Cardinality(Passed(w)')
             l == RATE_LIMIT * late  m == RATE_LIMIT * late'
             add == IF passes /\ w = window THEN 1 ELSE 0
  <2>1. c \in Nat /\ d = c + add
    <3>1. CASE passes
      <4>1. [by |-> "shared", at |-> window] \in Admission
        BY <1>2 DEF Admission
      <4> DEFINE e == [by |-> "shared", at |-> window]
      <4>2. admitted' = Append(admitted, e) /\ e \in Admission /\ e.by = "shared" /\ e.at = window
        BY <4>1, <3>1, <1>3
      <4> HIDE DEF e
      <4>3. /\ Cardinality(Passed(w)) \in Nat
            /\ w = window => Cardinality(Passed(w)') = Cardinality(Passed(w)) + 1
            /\ w # window => Cardinality(Passed(w)') = Cardinality(Passed(w))
        BY <4>2, <1>4, PassedGrows
      <4> HIDE DEF passes
      <4> QED BY <4>3, <3>1
    <3>2. CASE ~ passes
      <4>1. Passed(w)' = Passed(w)
        BY <3>2, <1>3 DEF Passed
      <4>2. Cardinality(Passed(w)) \in Nat
        <5>1. Passed(w) \in SUBSET (1..Len(admitted)) /\ Len(admitted) \in Nat
          BY <1>4 DEF Passed
        <5>2. IsFiniteSet(1..Len(admitted))
          BY <5>1, FS_Interval
        <5> QED BY <5>1, <5>2, FS_Subset, FS_CardinalityType
      <4> HIDE DEF passes
      <4> QED BY <3>2, <4>1, <4>2
    <3> QED BY <3>1, <3>2
  <2>2. c <= l + Granted(w)
    BY DEF WindowsAreBounded
  <2>3. Granted(w)' = IF w < window THEN RATE_LIMIT
                      ELSE IF w = window /\ passes THEN Count(window)
                      ELSE IF w = window THEN RATE_LIMIT ELSE 0
    BY <1>2, <1>3, <1>4 DEF Granted
  <2>4. l \in Nat /\ m = l + (IF more = 1 THEN RATE_LIMIT ELSE 0)
    BY <1>6, <1>7
  <2> HIDE DEF c, d, l, m, passes
  <2>5. d <= m + Granted(w)'
    BY <1>2, <1>4, <2>1, <2>2, <2>3, <2>4 DEF Granted
  <2> QED BY <2>5 DEF d, m
<1> QED BY <1>5, <1>8 DEF WindowsAreBounded

\* The deque of a single process, as long as its threads come one at a time: it
\* is sorted, a thread in it is the latest, what it holds was let through, and
\* what it no longer holds is older than the window for whoever looks.
InTheDeque(t) == threads[t].at \in InDeque
Gone(at) == /\ at + RATE_WINDOW_SECONDS < clock
            /\ \A t \in Thread : InTheDeque(t) => at + RATE_WINDOW_SECONDS < threads[t].now
Tells(f) ==
  /\ f \in [1..Len(bucket) -> DOMAIN admitted]
  /\ \A i \in 1..Len(bucket) : admitted[f[i]].by = "deque" /\ admitted[f[i]].at = bucket[i]
  /\ \A j \in DOMAIN admitted : admitted[j].by = "deque" =>
       (\E i \in 1..Len(bucket) : f[i] = j) \/ Gone(admitted[j].at)
Near(k) == {j \in DOMAIN admitted : /\ admitted[j].by = "deque"
                                    /\ admitted[j].at \in admitted[k].at..(admitted[k].at + RATE_WINDOW_SECONDS)}

OneInTheDeque == \A t, u \in Thread : InTheDeque(t) /\ InTheDeque(u) => t = u
DequeIsSorted == \A i \in 1..Len(bucket) :
                   /\ bucket[i] <= clock
                   /\ \A t \in Thread : InTheDeque(t) => bucket[i] <= threads[t].now
                   /\ \A k \in i..Len(bucket) : bucket[i] <= bucket[k]
LookersKnow ==
  \A t \in Thread :
    /\ threads[t].at \in {"counting", "appending"} =>
         \A i \in 1..Len(bucket) : threads[t].now - bucket[i] <= RATE_WINDOW_SECONDS
    /\ threads[t].at = "appending" => Len(bucket) < RATE_LIMIT
    /\ threads[t].at = "popping" => Len(bucket) > 0 /\ threads[t].now - bucket[1] > RATE_WINDOW_SECONDS
DequeIsTold == \E f : Tells(f)
DequeIsBounded == \A k \in DOMAIN admitted : admitted[k].by = "deque" => Cardinality(Near(k)) <= RATE_LIMIT

DequeInOrder == OneInTheDeque /\ DequeIsSorted /\ LookersKnow /\ DequeIsTold /\ DequeIsBounded

\* Threads may leave the deque, time may pass and the database let others through.
LEMMA OutsideTheDeque ==
  ASSUME ApiTypeOK, DequeInOrder, bucket' = bucket, clock' \in Nat, clock' >= clock,
         admitted' = admitted \/ \E w \in Nat : admitted' = Append(admitted, [by |-> "shared", at |-> w]),
         \A u \in Thread : InTheDeque(u)' => InTheDeque(u) /\ threads'[u] = threads[u]
  PROVE  DequeInOrder'
<1> DEFINE n == Len(admitted)
<1>1. /\ n \in Nat /\ DOMAIN admitted = 1..n /\ admitted \in Seq(Admission)
      /\ \A j \in 1..n : admitted[j] \in Admission
      /\ clock \in Nat /\ RATE_WINDOW_SECONDS \in Nat /\ bucket \in Seq(Nat) /\ Len(bucket) \in Nat
  BY ApiAssumption DEF ApiTypeOK
<1> HIDE DEF n
<1>2. /\ DOMAIN admitted \subseteq DOMAIN admitted'
      /\ \A j \in DOMAIN admitted : admitted'[j] = admitted[j]
      /\ \A j \in DOMAIN admitted' : j \in DOMAIN admitted \/ admitted'[j].by = "shared"
  <2>1. CASE admitted' = admitted
    BY <2>1
  <2>2. ASSUME NEW w \in Nat, admitted' = Append(admitted, [by |-> "shared", at |-> w])
        PROVE  /\ DOMAIN admitted' = 1..(n + 1) /\ admitted'[n + 1] = [by |-> "shared", at |-> w]
               /\ \A j \in 1..n : admitted'[j] = admitted[j]
    <3> DEFINE e == [by |-> "shared", at |-> w]
    <3>1. admitted' = Append(admitted, e) /\ e = [by |-> "shared", at |-> w]
      BY <2>2
    <3> HIDE DEF e
    <3>2. /\ DOMAIN Append(admitted, e) = 1..(n + 1) /\ Append(admitted, e)[n + 1] = e
          /\ \A j \in 1..n : Append(admitted, e)[j] = admitted[j]
      BY <1>1, OneMore DEF n
    <3> QED BY <3>1, <3>2
  <2>3. CASE \E w \in Nat : admitted' = Append(admitted, [by |-> "shared", at |-> w])
    <3>0. PICK w \in Nat : admitted' = Append(admitted, [by |-> "shared", at |-> w])
      BY <2>3
    <3>1. /\ DOMAIN admitted' = 1..(n + 1) /\ admitted'[n + 1] = [by |-> "shared", at |-> w]
          /\ \A j \in 1..n : admitted'[j] = admitted[j]
      BY <3>0, <2>2
    <3> QED BY <1>1, <3>1
  <2> QED BY <2>1, <2>3
<1>3. \A i \in 1..Len(bucket) : bucket[i] \in Nat
  BY <1>1
<1>4. OneInTheDeque'
  BY DEF DequeInOrder, OneInTheDeque
<1>5. DequeIsSorted'
  <2> SUFFICES ASSUME NEW i \in 1..Len(bucket)
               PROVE  /\ bucket[i] <= clock'
                      /\ \A t \in Thread : InTheDeque(t)' => bucket[i] <= threads'[t].now
                      /\ \A k \in i..Len(bucket) : bucket[i] <= bucket[k]
    BY DEF DequeIsSorted
  <2>1. /\ bucket[i] <= clock
        /\ \A t \in Thread : InTheDeque(t) => bucket[i] <= threads[t].now
        /\ \A k \in i..Len(bucket) : bucket[i] <= bucket[k]
    BY DEF DequeInOrder, DequeIsSorted
  <2>2. bucket[i] <= clock'
    BY <1>1, <1>3, <2>1
  <2> QED BY <2>1, <2>2
<1>6. LookersKnow'
  BY DEF DequeInOrder, LookersKnow, InTheDeque, InDeque
<1>7. DequeIsTold'
  <2>1. PICK f : Tells(f)
    BY DEF DequeInOrder, DequeIsTold
  <2>2. \A j \in DOMAIN admitted : Gone(admitted[j].at) => Gone(admitted[j].at)'
    <3> SUFFICES ASSUME NEW j \in DOMAIN admitted, Gone(admitted[j].at) PROVE Gone(admitted[j].at)'
      OBVIOUS
    <3>1. admitted[j].at \in Nat /\ admitted'[j] = admitted[j]
      BY <1>1, <1>2 DEF Admission
    <3> QED BY <1>1, <3>1 DEF Gone
  <2>3. Tells(f)'
    BY <1>2, <2>1, <2>2 DEF Tells
  <2> QED BY <2>3 DEF DequeIsTold
<1>8. DequeIsBounded'
  <2> SUFFICES ASSUME NEW k \in DOMAIN admitted', admitted'[k].by = "deque"
               PROVE  Cardinality(Near(k)') <= RATE_LIMIT
    BY DEF DequeIsBounded
  <2>1. k \in DOMAIN admitted /\ admitted'[k] = admitted[k]
    BY <1>2
  <2>2. Near(k)' = Near(k)
    BY <1>2, <2>1 DEF Near
  <2> QED BY <2>1, <2>2 DEF DequeInOrder, DequeIsBounded
<1> QED BY <1>4, <1>5, <1>6, <1>7, <1>8 DEF DequeInOrder

\* A thread that comes to an empty deque reads a time no earlier than any in it.
LEMMA EntersTheDeque ==
  ASSUME ApiTypeOK, DequeInOrder, NEW t \in Thread, ~ Together(t),
         UNCHANGED <<bucket, admitted, clock>>,
         threads'[t].at = "looking", threads'[t].now = clock,
         \A u \in Thread \ {t} : threads'[u] = threads[u]
  PROVE  DequeInOrder'
<1>1. \A u \in Thread : InTheDeque(u)' <=> u = t
  BY DEF Together, InTheDeque, InDeque
<1>2. OneInTheDeque'
  BY <1>1 DEF OneInTheDeque
<1>3. DequeIsSorted'
  <2> SUFFICES ASSUME NEW i \in 1..Len(bucket)
               PROVE  /\ bucket[i] <= clock
                      /\ \A u \in Thread : InTheDeque(u)' => bucket[i] <= threads'[u].now
                      /\ \A k \in i..Len(bucket) : bucket[i] <= bucket[k]
    BY DEF DequeIsSorted
  <2> QED BY <1>1 DEF DequeInOrder, DequeIsSorted
<1>4. LookersKnow'
  BY <1>1 DEF LookersKnow, InTheDeque, InDeque
<1>5. DequeIsTold'
  <2>1. PICK f : Tells(f)
    BY DEF DequeInOrder, DequeIsTold
  <2>2. \A j \in DOMAIN admitted : Gone(admitted[j].at) => Gone(admitted[j].at)'
    BY <1>1 DEF Gone
  <2>3. Tells(f)'
    BY <2>1, <2>2 DEF Tells
  <2> QED BY <2>3 DEF DequeIsTold
<1>6. DequeIsBounded'
  BY DEF DequeInOrder, DequeIsBounded, Near
<1> QED BY <1>2, <1>3, <1>4, <1>5, <1>6 DEF DequeInOrder

\* A thread goes on to what it found out of the deque.
LEMMA StaysInTheDeque ==
  ASSUME ApiTypeOK, DequeInOrder, NEW t \in Thread, InTheDeque(t),
         UNCHANGED <<bucket, admitted, clock>>,
         threads'[t].at \in InDeque, threads'[t].now = threads[t].now,
         \A u \in Thread \ {t} : threads'[u] = threads[u],
         LookersKnow'
  PROVE  DequeInOrder'
<1>1. \A u \in Thread : /\ InTheDeque(u)' <=> InTheDeque(u)
                        /\ InTheDeque(u) => threads'[u].now = threads[u].now
  BY DEF InTheDeque
<1>2. OneInTheDeque' /\ DequeIsSorted' /\ DequeIsBounded'
  BY <1>1 DEF DequeInOrder, OneInTheDeque, DequeIsSorted, DequeIsBounded, Near
<1>3. DequeIsTold'
  <2>1. PICK f : Tells(f)
    BY DEF DequeInOrder, DequeIsTold
  <2>2. \A j \in DOMAIN admitted : Gone(admitted[j].at) => Gone(admitted[j].at)'
    BY <1>1 DEF Gone
  <2>3. Tells(f)'
    BY <2>1, <2>2 DEF Tells
  <2> QED BY <2>3 DEF DequeIsTold
<1> QED BY <1>2, <1>3 DEF DequeInOrder

LEMMA GoesOn ==
  ASSUME ApiTypeOK, NEW t \in Thread, threads[t].at # "idle", NEW at \in Stage, Goes(t, at)
  PROVE  /\ threads'[t] = [at |-> at, now |-> threads[t].now, body |-> threads[t].body, reply |-> "none"]
         /\ \A u \in Thread \ {t} : threads'[u] = threads[u]
         /\ threads' \in [Thread -> [at : {"idle"}, reply : {"none", "429", "503", "500", "4xx", "200"}]
                            \cup [at : Stage, now : 0..clock, body : Body, reply : {"none"}]]
<1>1. threads' = [threads EXCEPT ![t] = [threads[t] EXCEPT !.at = at]]
  BY DEF Goes
<1>2. [threads[t] EXCEPT !.at = at]
        = [at |-> at, now |-> threads[t].now, body |-> threads[t].body, reply |-> "none"]
  <2> DEFINE a == threads[t].at  n == threads[t].now  b == threads[t].body
  <2>1. threads[t] = [at |-> a, now |-> n, body |-> b, reply |-> "none"]
    BY ThreadAtWork
  <2> HIDE DEF a, n, b
  <2>2. [threads[t] EXCEPT !.at = at] = [at |-> at, now |-> n, body |-> b, reply |-> "none"]
    BY <2>1
  <2> QED BY <2>2 DEF n, b
<1>3. threads[t].now \in 0..clock /\ threads[t].body \in Body
  BY ThreadAtWork DEF ApiTypeOK
<1> DEFINE new == [at |-> at, now |-> threads[t].now, body |-> threads[t].body, reply |-> "none"]
<1>4. new \in [at : Stage, now : 0..clock, body : Body, reply : {"none"}]
  BY <1>3
<1>5. threads' = [threads EXCEPT ![t] = new]
  BY <1>1, <1>2
<1>6. new.at = at
  OBVIOUS
<1> HIDE DEF new
<1>7. threads'[t] = new /\ \A u \in Thread \ {t} : threads'[u] = threads[u]
  BY <1>5 DEF ApiTypeOK
<1>8. threads' \in [Thread -> [at : {"idle"}, reply : {"none", "429", "503", "500", "4xx", "200"}]
                            \cup [at : Stage, now : 0..clock, body : Body, reply : {"none"}]]
  BY <1>4, <1>5 DEF ApiTypeOK
<1> QED BY <1>7, <1>8 DEF new

LEMMA RepliesAndIsIdle ==
  ASSUME ApiTypeOK, NEW t \in Thread, NEW status \in {"429", "503", "500", "4xx", "200"}, Replies(t, status)
  PROVE  /\ threads'[t].at = "idle"
         /\ \A u \in Thread \ {t} : threads'[u] = threads[u]
         /\ threads' \in [Thread -> [at : {"idle"}, reply : {"none", "429", "503", "500", "4xx", "200"}]
                            \cup [at : Stage, now : 0..clock, body : Body, reply : {"none"}]]
<1> DEFINE new == [at |-> "idle", reply |-> status]
<1>1. new \in [at : {"idle"}, reply : {"none", "429", "503", "500", "4xx", "200"}] /\ new.at = "idle"
  OBVIOUS
<1>2. threads' = [threads EXCEPT ![t] = new]
  BY DEF Replies
<1> HIDE DEF new
<1> QED BY <1>1, <1>2 DEF ApiTypeOK

LEMMA PopsKeeps ==
  ASSUME ApiTypeOK, DequeInOrder, NEW t \in Thread, Pops(t)
  PROVE  DequeInOrder' /\ bucket' \in Seq(Nat)
<1> DEFINE n == Len(bucket)
<1>1. threads[t].at = "popping" /\ InTheDeque(t) /\ n \in Nat \ {0} /\ bucket \in Seq(Nat)
  BY DEF Pops, DequeInOrder, LookersKnow, InTheDeque, InDeque, ApiTypeOK
<1>2. bucket # << >> /\ UNCHANGED <<admitted, clock>> /\ bucket' = Tail(bucket) /\ Goes(t, "looking")
  BY <1>1 DEF Pops
<1>3. /\ Tail(bucket) \in Seq(Nat) /\ Len(Tail(bucket)) = n - 1 /\ Len(Tail(bucket)) \in Nat
      /\ \A i \in 1..(n - 1) : Tail(bucket)[i] = bucket[i + 1]
  BY <1>1, <1>2, HeadTailProperties
<1>4. /\ threads'[t].at = "looking" /\ threads'[t].now = threads[t].now /\ threads[t].now \in Nat
      /\ threads[t].now <= clock
      /\ \A u \in Thread \ {t} : threads'[u] = threads[u]
  <2>1. threads[t].at # "idle" /\ "looking" \in Stage
    BY <1>1 DEF Stage, InDeque
  <2>2. threads[t].now \in Nat /\ threads[t].now <= clock
    BY <2>1, ThreadAtWork
  <2>3. Goes(t, "looking")
    BY <1>2
  <2>4. /\ threads'[t] = [at |-> "looking", now |-> threads[t].now, body |-> threads[t].body, reply |-> "none"]
        /\ \A u \in Thread \ {t} : threads'[u] = threads[u]
    BY <2>1, <2>3, GoesOn
  <2> QED BY <2>2, <2>4
<1>5. \A u \in Thread : /\ InTheDeque(u) => u = t
                        /\ InTheDeque(u)' => u = t
  BY <1>1, <1>4 DEF DequeInOrder, OneInTheDeque, InTheDeque
<1> HIDE DEF n
<1>6. OneInTheDeque' /\ LookersKnow'
  BY <1>4, <1>5 DEF OneInTheDeque, LookersKnow, InTheDeque, InDeque
<1>7. DequeIsSorted'
  <2> SUFFICES ASSUME NEW i \in 1..(n - 1)
               PROVE  /\ bucket'[i] <= clock'
                      /\ \A u \in Thread : InTheDeque(u)' => bucket'[i] <= threads'[u].now
                      /\ \A k \in i..(n - 1) : bucket'[i] <= bucket'[k]
    BY <1>2, <1>3 DEF DequeIsSorted
  <2>1. i + 1 \in 1..n /\ \A k \in i..(n - 1) : k \in 1..(n - 1) /\ k + 1 \in (i + 1)..n
    BY <1>1 DEF n
  <2>2. /\ bucket[i + 1] <= clock /\ bucket[i + 1] <= threads[t].now
        /\ \A k \in (i + 1)..n : bucket[i + 1] <= bucket[k]
    BY <1>1, <2>1 DEF DequeInOrder, DequeIsSorted, n
  <2>3. bucket'[i] = bucket[i + 1] /\ \A k \in i..(n - 1) : bucket'[k] = bucket[k + 1]
    BY <1>2, <1>3, <2>1
  <2> QED BY <1>2, <1>4, <1>5, <2>1, <2>2, <2>3
<1>8. DequeIsTold'
  <2>1. PICK f : Tells(f)
    BY DEF DequeInOrder, DequeIsTold
  <2>0. PICK g : g = [i \in 1..(n - 1) |-> f[i + 1]]
    OBVIOUS
  <2>2. \A i \in 1..(n - 1) : i + 1 \in 1..n
    BY <1>1 DEF n
  <2>3. g \in [1..(n - 1) -> DOMAIN admitted]
    BY <2>0, <2>1, <2>2 DEF Tells, n
  <2>4. \A i \in 1..(n - 1) : admitted[g[i]].by = "deque" /\ admitted[g[i]].at = Tail(bucket)[i]
    BY <2>0, <2>1, <2>2, <1>3 DEF Tells, n
  <2>5. ASSUME NEW j \in DOMAIN admitted, admitted[j].by = "deque"
        PROVE  (\E i \in 1..(n - 1) : g[i] = j) \/ Gone(admitted[j].at)'
    <3>1. CASE Gone(admitted[j].at)
      BY <3>1, <1>1, <1>2, <1>4, <1>5 DEF Gone
    <3>2. ASSUME NEW i \in 1..n, f[i] = j, i # 1 PROVE \E k \in 1..(n - 1) : g[k] = j
      <4>1. i - 1 \in 1..(n - 1) /\ (i - 1) + 1 = i
        BY <1>1, <3>2 DEF n
      <4>2. g[i - 1] = f[i]
        BY <2>0, <4>1
      <4> QED BY <3>2, <4>1, <4>2
    <3>3. CASE f[1] = j
      <4>1. 1 \in 1..n
        BY <1>1 DEF n
      <4>2. admitted[j].at = bucket[1] /\ bucket[1] \in Nat
        BY <1>1, <2>1, <3>3, <4>1 DEF Tells, n
      <4>3. threads[t].now - bucket[1] > RATE_WINDOW_SECONDS
        BY <1>1 DEF DequeInOrder, LookersKnow
      <4>4. admitted[j].at + RATE_WINDOW_SECONDS < threads[t].now
        BY <1>4, <4>2, <4>3, ApiAssumption
      <4>5. admitted[j].at + RATE_WINDOW_SECONDS < clock
        BY <1>4, <4>2, <4>4, ApiAssumption DEF ApiTypeOK
      <4> QED BY <1>2, <1>4, <1>5, <4>4, <4>5 DEF Gone
    <3> QED BY <2>1, <2>5, <3>1, <3>2, <3>3 DEF Tells, n
  <2>6. Len(bucket') = n - 1 /\ admitted' = admitted /\ bucket' = Tail(bucket)
    BY <1>2, <1>3
  <2>7. Tells(g)'
    BY <2>3, <2>4, <2>5, <2>6 DEF Tells
  <2> QED BY <2>7 DEF DequeIsTold
<1>9. DequeIsBounded'
  BY <1>2 DEF DequeInOrder, DequeIsBounded, Near
<1> QED BY <1>2, <1>3, <1>6, <1>7, <1>8, <1>9 DEF DequeInOrder

\* What may count together with the request at hand is in the deque still, and
\* the deque has room.
LEMMA RecentAreHeld ==
  ASSUME ApiTypeOK, DequeInOrder, NEW t \in Thread, threads[t].at = "appending",
         NEW recent \in SUBSET DOMAIN admitted,
         \A j \in recent : /\ admitted[j].by = "deque"
                           /\ admitted[j].at + RATE_WINDOW_SECONDS >= threads[t].now
  PROVE  IsFiniteSet(recent) /\ Cardinality(recent) \in Nat /\ Cardinality(recent) + 1 <= RATE_LIMIT
<1> DEFINE n == Len(bucket)
<1>1. n \in Nat /\ n < RATE_LIMIT /\ InTheDeque(t) /\ RATE_LIMIT \in Nat
  BY ApiAssumption DEF DequeInOrder, LookersKnow, InTheDeque, InDeque, ApiTypeOK
<1>2. PICK f : Tells(f)
  BY DEF DequeInOrder, DequeIsTold
<1> DEFINE those == {f[i] : i \in 1..n}
<1>3. recent \subseteq those
  <2> SUFFICES ASSUME NEW j \in recent PROVE j \in those
    OBVIOUS
  <2>1. admitted[j].at \in Nat /\ threads[t].now \in Nat
    <3>1. threads[t].at # "idle"
      OBVIOUS
    <3>2. threads[t].now \in Nat
      BY <3>1, ThreadAtWork
    <3>3. admitted[j] \in Admission
      BY DEF ApiTypeOK
    <3> QED BY <3>2, <3>3 DEF Admission
  <2>2. ~ (admitted[j].at + RATE_WINDOW_SECONDS < threads[t].now)
    BY <2>1, ApiAssumption
  <2>3. ~ Gone(admitted[j].at)
    BY <2>2, <1>1 DEF Gone
  <2> QED BY <2>3, <1>2 DEF Tells
<1>4. f \in Surjection(1..n, those)
  BY <1>2 DEF Tells, Surjection
<1>5. IsFiniteSet(1..n) /\ Cardinality(1..n) = n
  <2> HIDE DEF n, those
  <2>1. IsFiniteSet(1..n) /\ Cardinality(1..n) = IF 1 > n THEN 0 ELSE n - 1 + 1
    BY <1>1, FS_Interval
  <2> QED BY <1>1, <2>1
<1> HIDE DEF n, those
<1>6. IsFiniteSet(those) /\ Cardinality(those) <= n
  BY <1>4, <1>5, FS_Surjection
<1>7. IsFiniteSet(recent) /\ Cardinality(recent) <= Cardinality(those)
  BY <1>3, <1>6, FS_Subset
<1>8. Cardinality(recent) \in Nat /\ Cardinality(those) \in Nat
  BY <1>6, <1>7, FS_CardinalityType
<1> QED BY <1>1, <1>6, <1>7, <1>8

LEMMA AppendsKeeps ==
  ASSUME ApiTypeOK, DequeInOrder, NEW t \in Thread, Appends(t)
  PROVE  DequeInOrder' /\ bucket' \in Seq(Nat) /\ admitted' \in Seq(Admission)
<1> DEFINE n == Len(bucket)  m == Len(admitted)  now == threads[t].now
           e == [by |-> "deque", at |-> now]
<1>1. threads[t].at = "appending" /\ threads[t].at # "idle" /\ InTheDeque(t)
  BY DEF Appends, InTheDeque, InDeque
<1>2. /\ now \in Nat /\ now <= clock /\ n \in Nat /\ m \in Nat /\ clock \in Nat
      /\ bucket \in Seq(Nat) /\ admitted \in Seq(Admission) /\ DOMAIN admitted = 1..m
      /\ RATE_WINDOW_SECONDS \in Nat /\ RATE_LIMIT \in Nat
  BY <1>1, ThreadAtWork, ApiAssumption DEF ApiTypeOK
<1>3. bucket' = Append(bucket, now) /\ admitted' = Append(admitted, e) /\ clock' = clock /\ Goes(t, "admitted")
  BY DEF Appends, Admits
<1>4. /\ threads'[t].at = "admitted"
      /\ \A u \in Thread \ {t} : threads'[u] = threads[u]
  <2>1. "admitted" \in Stage
    BY DEF Stage
  <2>2. Goes(t, "admitted")
    BY <1>3
  <2>3. /\ threads'[t] = [at |-> "admitted", now |-> now, body |-> threads[t].body, reply |-> "none"]
        /\ \A u \in Thread \ {t} : threads'[u] = threads[u]
    BY <1>1, <2>1, <2>2, GoesOn
  <2> QED BY <2>3
<1>5. e \in Admission /\ e.by = "deque" /\ e.at = now
  BY <1>2 DEF Admission
<1> HIDE DEF n, m, now, e
<1>6. \A u \in Thread : ~ InTheDeque(u)'
  BY <1>1, <1>4 DEF DequeInOrder, OneInTheDeque, InTheDeque, InDeque
<1>7. /\ bucket' \in Seq(Nat) /\ Len(bucket') = n + 1 /\ bucket'[n + 1] = now
      /\ \A i \in 1..n : bucket'[i] = bucket[i]
  BY <1>2, <1>3 DEF n
<1>8. /\ admitted' \in Seq(Admission) /\ DOMAIN admitted' = 1..(m + 1) /\ admitted'[m + 1] = e
      /\ \A j \in 1..m : admitted'[j] = admitted[j]
  BY <1>2, <1>3, <1>5 DEF m
<1>9. \A i \in 1..n : bucket[i] <= now /\ bucket[i] <= clock /\ \A k \in i..n : bucket[i] <= bucket[k]
  BY <1>1 DEF DequeInOrder, DequeIsSorted, n, now
<1>10. OneInTheDeque' /\ LookersKnow'
  BY <1>6 DEF OneInTheDeque, LookersKnow, InTheDeque, InDeque
<1>11. DequeIsSorted'
  <2> SUFFICES ASSUME NEW i \in 1..(n + 1)
               PROVE  bucket'[i] <= clock /\ \A k \in i..(n + 1) : bucket'[i] <= bucket'[k]
    BY <1>3, <1>6, <1>7 DEF DequeIsSorted
  <2>1. CASE i = n + 1
    <3>1. \A k \in i..(n + 1) : k = n + 1
      BY <1>2, <2>1
    <3> QED BY <2>1, <3>1, <1>2, <1>7
  <2>2. CASE i \in 1..n
    <3>1. \A k \in i..(n + 1) : k = n + 1 \/ (k \in i..n /\ k \in 1..n)
      BY <1>2, <2>2
    <3> QED BY <2>2, <3>1, <1>7, <1>9
  <2> QED BY <2>1, <2>2, <1>2
<1>12. DequeIsTold'
  <2>1. PICK f : Tells(f)
    BY DEF DequeInOrder, DequeIsTold
  <2>2. PICK g : g = [i \in 1..(n + 1) |-> IF i = n + 1 THEN m + 1 ELSE f[i]]
    OBVIOUS
  <2>3. f \in [1..n -> 1..m]
    BY <2>1, <1>2 DEF Tells, n
  <2>4. \A i \in 1..n : i \in 1..(n + 1) /\ i # n + 1 /\ g[i] = f[i] /\ f[i] \in 1..m
    BY <2>2, <2>3, <1>2
  <2>5. g[n + 1] = m + 1 /\ n + 1 \in 1..(n + 1) /\ m + 1 \in 1..(m + 1)
    BY <2>2, <1>2
  <2>6. \A i \in 1..(n + 1) : i = n + 1 \/ i \in 1..n
    BY <1>2
  <2>7. g \in [1..(n + 1) -> 1..(m + 1)]
    <3>1. \A j \in 1..m : j \in 1..(m + 1)
      BY <1>2
    <3> QED BY <2>2, <2>4, <2>5, <2>6, <3>1
  <2>8. \A i \in 1..(n + 1) : admitted'[g[i]].by = "deque" /\ admitted'[g[i]].at = bucket'[i]
    <3>1. \A i \in 1..n : admitted[f[i]].by = "deque" /\ admitted[f[i]].at = bucket[i]
      BY <2>1 DEF Tells, n
    <3> QED BY <3>1, <2>4, <2>5, <2>6, <1>5, <1>7, <1>8
  <2>9. ASSUME NEW j \in 1..(m + 1), admitted'[j].by = "deque"
        PROVE  (\E i \in 1..(n + 1) : g[i] = j) \/ Gone(admitted[j].at)'
    <3>1. CASE j = m + 1
      BY <3>1, <2>5
    <3>2. CASE j \in 1..m
      <4>1. admitted'[j] = admitted[j] /\ ((\E i \in 1..n : f[i] = j) \/ Gone(admitted[j].at))
        BY <2>1, <2>9, <3>2, <1>2, <1>8 DEF Tells, n
      <4>2. Gone(admitted[j].at) => Gone(admitted[j].at)'
        BY <1>3, <1>6, <4>1 DEF Gone
      <4>3. (\E i \in 1..n : f[i] = j) => \E i \in 1..(n + 1) : g[i] = j
        BY <2>4
      <4> QED BY <4>1, <4>2, <4>3
    <3> QED BY <3>1, <3>2, <1>2
  <2>10. Tells(g)'
    BY <1>7, <1>8, <2>7, <2>8, <2>9 DEF Tells
  <2> QED BY <2>10 DEF DequeIsTold
<1>13. DequeIsBounded'
  <2> SUFFICES ASSUME NEW k \in 1..(m + 1), admitted'[k].by = "deque"
               PROVE  Cardinality(Near(k)') <= RATE_LIMIT
    BY <1>8 DEF DequeIsBounded
  <2> DEFINE a == admitted'[k].at
             recent == {j \in DOMAIN admitted : /\ admitted[j].by = "deque"
                                                /\ admitted[j].at + RATE_WINDOW_SECONDS >= now}
  <2>1. a \in Nat /\ \A j \in 1..(m + 1) : admitted'[j].at \in Nat
    <3> HIDE DEF recent
    <3>1. \A j \in 1..(m + 1) : admitted'[j] \in Admission
      <4>1. \A j \in 1..m : admitted[j] \in Admission
        BY <1>2
      <4>2. \A j \in 1..(m + 1) : j = m + 1 \/ j \in 1..m
        BY <1>2
      <4> QED BY <4>1, <4>2, <1>5, <1>8
    <3> QED BY <3>1 DEF Admission
  <2>2. CASE now \in a..(a + RATE_WINDOW_SECONDS)
    <3>1. Near(k)' \subseteq recent \cup {m + 1}
      <4> SUFFICES ASSUME NEW j \in 1..(m + 1), j # m + 1, admitted'[j].by = "deque",
                          admitted'[j].at \in a..(a + RATE_WINDOW_SECONDS)
                   PROVE  j \in recent
        BY <1>8 DEF Near
      <4>1. j \in 1..m
        BY <1>2
      <4>2. admitted'[j].at + RATE_WINDOW_SECONDS >= now
        BY <1>2, <2>1, <2>2
      <4> QED BY <4>1, <4>2, <1>2, <1>8
    <3>2. IsFiniteSet(recent) /\ Cardinality(recent) \in Nat /\ Cardinality(recent) + 1 <= RATE_LIMIT
      BY <1>1, RecentAreHeld DEF now
    <3> HIDE DEF recent
    <3>3. /\ IsFiniteSet(recent \cup {m + 1})
          /\ Cardinality(recent \cup {m + 1}) = IF m + 1 \in recent THEN Cardinality(recent)
                                                ELSE Cardinality(recent) + 1
      BY <3>2, FS_AddElement
    <3>4. /\ IsFiniteSet(Near(k)') /\ Cardinality(Near(k)') <= Cardinality(recent \cup {m + 1})
      BY <3>1, <3>3, FS_Subset
    <3>5. Cardinality(Near(k)') \in Nat
      BY <3>4, FS_CardinalityType
    <3> QED BY <3>2, <3>3, <3>4, <3>5, <1>2
  <2>3. CASE now \notin a..(a + RATE_WINDOW_SECONDS)
    <3>1. k \in 1..m /\ admitted'[k] = admitted[k]
      BY <1>2, <1>5, <1>8, <2>3
    <3>2. Near(k)' = Near(k)
      <4>1. \A j \in 1..(m + 1) : j = m + 1 \/ j \in 1..m
        BY <1>2
      <4>2. \A j \in 1..m : j \in 1..(m + 1)
        BY <1>2
      <4> QED BY <3>1, <4>1, <4>2, <1>2, <1>5, <1>8, <2>3 DEF Near
    <3> QED BY <3>1, <3>2, <1>2 DEF DequeInOrder, DequeIsBounded
  <2> QED BY <2>2, <2>3
<1> QED BY <1>7, <1>8, <1>10, <1>11, <1>12, <1>13 DEF DequeInOrder

ApiInv == ApiTypeOK /\ WindowsAreBounded /\ (~ together => DequeInOrder)

LEMMA ApiInitially == ApiInit => ApiInv
<1> SUFFICES ASSUME ApiInit PROVE ApiInv
  OBVIOUS
<1>1. ApiTypeOK
  <2>1. threads \in [Thread -> [at : {"idle"}, reply : {"none", "429", "503", "500", "4xx", "200"}]
                              \cup [at : Stage, now : 0..clock, body : Body, reply : {"none"}]]
    BY DEF ApiInit, Idle
  <2>2. bucket \in Seq(Nat) /\ admitted \in Seq(Admission) /\ row \in [window : Nat, count : Nat]
    BY DEF ApiInit
  <2> QED BY <2>1, <2>2 DEF ApiInit, ApiTypeOK
<1>2. WindowsAreBounded
  <2> SUFFICES ASSUME NEW w \in Nat PROVE Cardinality(Passed(w)) <= RATE_LIMIT * late + Granted(w)
    BY DEF WindowsAreBounded
  <2>1. Passed(w) = {}
    BY DEF ApiInit, Passed
  <2>2. Cardinality(Passed(w)) = 0
    BY <2>1, FS_EmptySet
  <2>3. RATE_LIMIT * late = 0 /\ Granted(w) \in Nat
    BY ApiAssumption DEF ApiInit, Granted
  <2> QED BY <2>2, <2>3
<1>3. Len(bucket) = 0 /\ DOMAIN admitted = {} /\ \A t \in Thread : threads[t].at = "idle"
  BY DEF ApiInit, Idle
<1>4. OneInTheDeque /\ DequeIsSorted /\ LookersKnow /\ DequeIsBounded
  BY <1>3 DEF OneInTheDeque, DequeIsSorted, LookersKnow, DequeIsBounded, InTheDeque, InDeque
<1>5. DequeIsTold
  <2>1. PICK f : f = [i \in 1..0 |-> 0]
    OBVIOUS
  <2>2. f \in [1..0 -> DOMAIN admitted]
    BY <2>1
  <2>3. Tells(f)
    BY <2>2, <1>3 DEF Tells
  <2> QED BY <2>3 DEF DequeIsTold
<1> QED BY <1>1, <1>2, <1>4, <1>5 DEF ApiInv, DequeInOrder

\* A step of a thread that neither is nor comes into the deque.
LEMMA ElsewhereKeeps ==
  ASSUME ApiInv, ApiTypeOK', NEW t \in Thread,
         bucket' = bucket, clock' = clock, together' = together, ~ InTheDeque(t)',
         \A u \in Thread \ {t} : threads'[u] = threads[u],
         \/ UNCHANGED <<row, late, admitted>>
         \/ /\ WindowsAreBounded'
            /\ admitted' = admitted \/ \E w \in Nat : admitted' = Append(admitted, [by |-> "shared", at |-> w])
  PROVE  ApiInv'
<1>1. WindowsAreBounded'
  BY DEF ApiInv, WindowsAreBounded, Passed, Granted
<1>2. ~ together' => DequeInOrder'
  <2> SUFFICES ASSUME ~ together PROVE DequeInOrder'
    OBVIOUS
  <2>1. ApiTypeOK /\ DequeInOrder /\ clock' \in Nat /\ clock' >= clock
    BY DEF ApiInv, ApiTypeOK
  <2>2. \A u \in Thread : InTheDeque(u)' => InTheDeque(u) /\ threads'[u] = threads[u]
    BY DEF InTheDeque
  <2>3. admitted' = admitted \/ \E w \in Nat : admitted' = Append(admitted, [by |-> "shared", at |-> w])
    OBVIOUS
  <2> QED BY <2>1, <2>2, <2>3, OutsideTheDeque
<1> QED BY <1>1, <1>2 DEF ApiInv

\* A step in the deque, or into it.
LEMMA WithinKeeps ==
  ASSUME ApiInv, ApiTypeOK', UNCHANGED <<row, late>>,
         admitted' = admitted \/ \E w \in Nat : admitted' = Append(admitted, [by |-> "deque", at |-> w]),
         ~ together' => DequeInOrder'
  PROVE  ApiInv'
<1>1. ApiTypeOK
  BY DEF ApiInv
<1>2. ASSUME NEW w \in Nat PROVE Cardinality(Passed(w)') = Cardinality(Passed(w)) /\ Granted(w)' = Granted(w)
  <2>1. CASE admitted' = admitted
    BY <2>1 DEF Passed, Granted
  <2>2. CASE \E v \in Nat : admitted' = Append(admitted, [by |-> "deque", at |-> v])
    <3>1. PICK v \in Nat : admitted' = Append(admitted, [by |-> "deque", at |-> v])
      BY <2>2
    <3> DEFINE e == [by |-> "deque", at |-> v]
    <3>2. e \in Admission /\ e.by # "shared" /\ admitted' = Append(admitted, e)
      BY <3>1 DEF Admission
    <3> HIDE DEF e
    <3>3. admitted \in Seq(Admission)
      BY <1>1 DEF ApiTypeOK
    <3>4. Cardinality(Passed(w)') = Cardinality(Passed(w))
      BY <3>2, <3>3, PassedGrows
    <3> QED BY <3>4 DEF Granted
  <2> QED BY <2>1, <2>2
<1>3. late' = late
  OBVIOUS
<1>4. WindowsAreBounded'
  BY <1>2, <1>3 DEF ApiInv, WindowsAreBounded
<1> QED BY <1>4 DEF ApiInv

\* The threads after a step at one time.
ThreadsTyped ==
  threads \in [Thread -> [at : {"idle"}, reply : {"none", "429", "503", "500", "4xx", "200"}]
                         \cup [at : Stage, now : 0..clock, body : Body, reply : {"none"}]]

LEMMA Proceeds ==
  ASSUME ApiTypeOK, clock' = clock, NEW t \in Thread, threads[t].at # "idle", NEW at \in Stage, Goes(t, at)
  PROVE  /\ threads'[t].at = at /\ threads'[t].now = threads[t].now
         /\ \A u \in Thread \ {t} : threads'[u] = threads[u]
         /\ ThreadsTyped'
<1>1. /\ threads'[t] = [at |-> at, now |-> threads[t].now, body |-> threads[t].body, reply |-> "none"]
      /\ \A u \in Thread \ {t} : threads'[u] = threads[u]
      /\ threads' \in [Thread -> [at : {"idle"}, reply : {"none", "429", "503", "500", "4xx", "200"}]
                            \cup [at : Stage, now : 0..clock, body : Body, reply : {"none"}]]
  BY GoesOn
<1>2. ThreadsTyped'
  BY <1>1 DEF ThreadsTyped
<1> QED BY <1>1, <1>2

LEMMA IsAnswered ==
  ASSUME ApiTypeOK, clock' = clock, NEW t \in Thread,
         NEW status \in {"429", "503", "500", "4xx", "200"}, Replies(t, status)
  PROVE  /\ threads'[t].at = "idle" /\ ~ InTheDeque(t)'
         /\ \A u \in Thread \ {t} : threads'[u] = threads[u]
         /\ ThreadsTyped'
<1>1. /\ threads'[t].at = "idle"
      /\ \A u \in Thread \ {t} : threads'[u] = threads[u]
      /\ threads' \in [Thread -> [at : {"idle"}, reply : {"none", "429", "503", "500", "4xx", "200"}]
                            \cup [at : Stage, now : 0..clock, body : Body, reply : {"none"}]]
  BY RepliesAndIsIdle
<1>2. ThreadsTyped' /\ ~ InTheDeque(t)'
  BY <1>1 DEF ThreadsTyped, InTheDeque, InDeque
<1> QED BY <1>1, <1>2

LEMMA ArrivesKeeps == ASSUME ApiInv, NEW t \in Thread, NEW body \in Body, Arrives(t, body) PROVE ApiInv'
<1> DEFINE new == [at |-> IF shared THEN "upserting" ELSE "looking", now |-> clock, body |-> body, reply |-> "none"]
<1>1. /\ threads' = [threads EXCEPT ![t] = new] /\ threads[t].at = "idle"
      /\ together' = (together \/ (~ shared /\ Together(t)))
      /\ UNCHANGED <<shared, production, clock, row, bucket, export, stored, admitted, late>>
  BY DEF Arrives
<1>2. ApiTypeOK /\ clock \in Nat /\ shared \in BOOLEAN /\ together \in BOOLEAN
  BY DEF ApiInv, ApiTypeOK
<1>3. /\ new \in [at : Stage, now : 0..clock, body : Body, reply : {"none"}]
      /\ new.now = clock
      /\ shared => new.at = "upserting"
      /\ ~ shared => new.at = "looking"
  BY <1>2 DEF Stage, InDeque
<1> HIDE DEF new
<1>4. ThreadsTyped' /\ threads'[t] = new /\ \A u \in Thread \ {t} : threads'[u] = threads[u]
  BY <1>1, <1>2, <1>3 DEF ApiTypeOK, ThreadsTyped
<1>5. together' \in BOOLEAN
  BY <1>1
<1>6. ApiTypeOK'
  BY <1>1, <1>2, <1>4, <1>5 DEF ApiTypeOK, ThreadsTyped
<1>7. CASE shared
  <2>1. together' = together
    BY <1>1, <1>2, <1>7
  <2>2. ~ InTheDeque(t)'
    BY <1>3, <1>4, <1>7 DEF InTheDeque, InDeque
  <2> QED BY <1>1, <1>4, <1>6, <2>1, <2>2, ElsewhereKeeps
<1>8. CASE ~ shared
  <2>1. ASSUME ~ together' PROVE DequeInOrder'
    <3>1. ~ together /\ ~ Together(t)
      BY <1>1, <1>8, <2>1
    <3>2. DequeInOrder
      BY <3>1 DEF ApiInv
    <3>3. threads'[t].at = "looking" /\ threads'[t].now = clock
      BY <1>3, <1>4, <1>8
    <3> QED BY <1>1, <1>2, <1>4, <3>1, <3>2, <3>3, EntersTheDeque
  <2> QED BY <1>1, <1>6, <2>1, WithinKeeps
<1> QED BY <1>7, <1>8

LEMMA UpsertsKeeps == ASSUME ApiInv, NEW t \in Thread, Upserts(t) PROVE ApiInv'
<1> DEFINE window == threads[t].now \div RATE_WINDOW_SECONDS
           passes == Count(window) <= RATE_LIMIT
<1>1. /\ threads[t].at = "upserting" /\ threads[t].at # "idle"
      /\ IF passes THEN Goes(t, "admitted") /\ Admits("shared", window)
                   ELSE Replies(t, "429") /\ UNCHANGED admitted
      /\ UNCHANGED <<shared, production, clock, bucket, export, stored, together>>
  BY DEF Upserts
<1>2. ApiTypeOK /\ WindowsAreBounded
  BY DEF ApiInv
<1>3. WindowsAreBounded' /\ row' \in [window : Nat, count : Nat] /\ late' \in Nat
  BY <1>2, UpsertIsBounded
<1>4. window \in Nat
  <2>1. threads[t].now \in Nat
    BY <1>1, <1>2, ThreadAtWork
  <2> QED BY <2>1, ApiAssumption
<1> HIDE DEF window, passes
<1>5. ThreadsTyped' /\ ~ InTheDeque(t)' /\ \A u \in Thread \ {t} : threads'[u] = threads[u]
  <2>1. CASE Goes(t, "admitted")
    <3>1. "admitted" \in Stage /\ clock' = clock
      BY <1>1 DEF Stage
    <3>2. threads'[t].at = "admitted" /\ ThreadsTyped' /\ \A u \in Thread \ {t} : threads'[u] = threads[u]
      BY <1>1, <1>2, <2>1, <3>1, Proceeds
    <3> QED BY <3>2 DEF InTheDeque, InDeque
  <2>2. CASE Replies(t, "429")
    <3>1. clock' = clock
      BY <1>1
    <3> QED BY <1>2, <2>2, <3>1, IsAnswered
  <2> QED BY <1>1, <2>1, <2>2
<1>6. admitted' = admitted \/ admitted' = Append(admitted, [by |-> "shared", at |-> window])
  BY <1>1 DEF Admits
<1>7. admitted' \in Seq(Admission)
  <2>1. [by |-> "shared", at |-> window] \in Admission /\ admitted \in Seq(Admission)
    BY <1>2, <1>4 DEF Admission, ApiTypeOK
  <2> QED BY <1>6, <2>1
<1>8. ApiTypeOK'
  BY <1>1, <1>2, <1>3, <1>5, <1>7 DEF ApiTypeOK, ThreadsTyped
<1> QED BY <1>1, <1>3, <1>4, <1>5, <1>6, <1>8, ElsewhereKeeps

LEMMA LimiterFailsKeeps == ASSUME ApiInv, NEW t \in Thread, LimiterFails(t) PROVE ApiInv'
<1> DEFINE new == [threads[t] EXCEPT !.at = "looking", !.now = clock]
<1>1. /\ threads[t].at = "upserting" /\ threads[t].at # "idle"
      /\ UNCHANGED <<shared, production, clock, row, bucket, export, stored, admitted, late>>
      /\ production => Replies(t, "503") /\ together' = together
      /\ ~ production => /\ threads' = [threads EXCEPT ![t] = new]
                         /\ together' = (together \/ Together(t))
  BY DEF LimiterFails
<1> HIDE DEF new
<1>2. ApiTypeOK /\ clock \in Nat /\ together \in BOOLEAN /\ production \in BOOLEAN
  BY DEF ApiInv, ApiTypeOK
<1>3. CASE production
  <2>1. /\ ThreadsTyped' /\ ~ InTheDeque(t)'
        /\ \A u \in Thread \ {t} : threads'[u] = threads[u]
    <3>1. clock' = clock /\ Replies(t, "503")
      BY <1>1, <1>3
    <3> QED BY <1>2, <3>1, IsAnswered
  <2>2. ApiTypeOK'
    BY <1>1, <1>2, <1>3, <2>1 DEF ApiTypeOK, ThreadsTyped
  <2> QED BY <1>1, <1>3, <2>1, <2>2, ElsewhereKeeps
<1>4. CASE ~ production
  <2>1. /\ new.at = "looking" /\ new.now = clock
        /\ new \in [at : Stage, now : 0..clock, body : Body, reply : {"none"}]
    <3> DEFINE a == threads[t].at  n == threads[t].now  b == threads[t].body
    <3>1. threads[t] = [at |-> a, now |-> n, body |-> b, reply |-> "none"] /\ b \in Body
      BY <1>1, <1>2, ThreadAtWork
    <3>2. "looking" \in Stage /\ clock \in 0..clock
      BY <1>2 DEF Stage, InDeque
    <3> HIDE DEF a, n, b
    <3>3. ASSUME NEW r, r = [at |-> a, now |-> n, body |-> b, reply |-> "none"]
          PROVE  [r EXCEPT !.at = "looking"] = [at |-> "looking", now |-> n, body |-> b, reply |-> "none"]
      BY <3>3
    <3>4. ASSUME NEW r, r = [at |-> "looking", now |-> n, body |-> b, reply |-> "none"], NEW c
          PROVE  [r EXCEPT !.now = c] = [at |-> "looking", now |-> c, body |-> b, reply |-> "none"]
      BY <3>4
    <3>5. new = [[threads[t] EXCEPT !.at = "looking"] EXCEPT !.now = clock]
      BY DEF new
    <3>6. new = [at |-> "looking", now |-> clock, body |-> b, reply |-> "none"]
      BY <3>1, <3>3, <3>4, <3>5
    <3> QED BY <3>1, <3>2, <3>6
  <2>2. threads' = [threads EXCEPT ![t] = new]
    BY <1>1, <1>4
  <2>3. ThreadsTyped' /\ threads'[t] = new /\ \A u \in Thread \ {t} : threads'[u] = threads[u]
    BY <1>1, <1>2, <2>1, <2>2 DEF ApiTypeOK, ThreadsTyped
  <2>4. together' \in BOOLEAN
    BY <1>1, <1>4
  <2>5. ApiTypeOK'
    BY <1>1, <1>2, <2>3, <2>4 DEF ApiTypeOK, ThreadsTyped
  <2>6. ASSUME ~ together' PROVE DequeInOrder'
    <3>1. ~ together /\ ~ Together(t)
      BY <1>1, <1>4, <2>6
    <3>2. DequeInOrder
      BY <3>1 DEF ApiInv
    <3>3. threads'[t].at = "looking" /\ threads'[t].now = clock
      BY <2>1, <2>3
    <3> QED BY <1>1, <1>2, <2>3, <3>1, <3>2, <3>3, EntersTheDeque
  <2> QED BY <1>1, <2>5, <2>6, WithinKeeps
<1> QED BY <1>3, <1>4

\* The first in the deque is the oldest: when it is not too old, none is.
LEMMA LooksKeeps == ASSUME ApiInv, NEW t \in Thread, Looks(t) PROVE ApiInv'
<1> DEFINE at == IF IsOld(t) THEN "popping" ELSE "counting"
<1>1. /\ threads[t].at = "looking" /\ threads[t].at # "idle" /\ Goes(t, at)
      /\ UNCHANGED <<shared, production, clock, row, bucket, export, stored, admitted, late, together>>
  BY DEF Looks
<1>2. ApiTypeOK /\ at \in Stage /\ at \in InDeque
  BY DEF ApiInv, Stage, InDeque
<1>3. /\ IsOld(t) => at = "popping"
      /\ ~ IsOld(t) => at = "counting"
  OBVIOUS
<1> HIDE DEF at
<1>4. /\ threads'[t].at = at /\ threads'[t].now = threads[t].now
      /\ \A u \in Thread \ {t} : threads'[u] = threads[u]
      /\ ThreadsTyped'
  BY <1>1, <1>2, Proceeds
<1>5. ApiTypeOK'
  BY <1>1, <1>2, <1>4 DEF ApiTypeOK, ThreadsTyped
<1>6. ASSUME ~ together' PROVE DequeInOrder'
  <2>1. DequeInOrder /\ InTheDeque(t)
    BY <1>1, <1>6 DEF ApiInv, InTheDeque, InDeque
  <2>2. \A u \in Thread \ {t} : ~ InTheDeque(u)
    BY <2>1 DEF DequeInOrder, OneInTheDeque
  <2>3. bucket \in Seq(Nat) /\ Len(bucket) \in Nat /\ threads[t].now \in Nat /\ RATE_WINDOW_SECONDS \in Nat
    <3>1. threads[t].now \in Nat
      BY <1>1, <1>2, ThreadAtWork
    <3> QED BY <1>2, <3>1, ApiAssumption DEF ApiTypeOK
  <2>4. CASE IsOld(t)
    <3>1. Len(bucket) > 0 /\ threads[t].now - bucket[1] > RATE_WINDOW_SECONDS
      BY <2>3, <2>4 DEF IsOld
    <3>2. LookersKnow'
      BY <1>1, <1>3, <1>4, <2>2, <2>4, <3>1 DEF LookersKnow, InTheDeque, InDeque
    <3> QED BY <1>1, <1>2, <1>4, <2>1, <3>2, StaysInTheDeque
  <2>5. CASE ~ IsOld(t)
    <3>1. ASSUME NEW i \in 1..Len(bucket) PROVE threads[t].now - bucket[i] <= RATE_WINDOW_SECONDS
      <4>1. 1 \in 1..Len(bucket) /\ i \in 1..Len(bucket) /\ bucket # << >>
        BY <2>3
      <4>2. threads[t].now - bucket[1] <= RATE_WINDOW_SECONDS /\ bucket[1] \in Nat /\ bucket[i] \in Nat
        BY <2>3, <2>5, <4>1 DEF IsOld
      <4>3. bucket[1] <= bucket[i]
        BY <2>1, <4>1 DEF DequeInOrder, DequeIsSorted
      <4> QED BY <2>3, <4>2, <4>3
    <3>2. LookersKnow'
      BY <1>1, <1>3, <1>4, <2>2, <2>5, <3>1 DEF LookersKnow, InTheDeque, InDeque
    <3> QED BY <1>1, <1>2, <1>4, <2>1, <3>2, StaysInTheDeque
  <2> QED BY <2>4, <2>5
<1> QED BY <1>1, <1>5, <1>6, WithinKeeps

\* popleft from a deque another thread emptied raises; alone, a thread takes the first.
LEMMA PopsAnyhowKeeps == ASSUME ApiInv, NEW t \in Thread, Pops(t) PROVE ApiInv'
<1>1. /\ threads[t].at = "popping" /\ threads[t].at # "idle"
      /\ IF bucket = << >> THEN Replies(t, "500") /\ UNCHANGED bucket
                           ELSE Goes(t, "looking") /\ bucket' = Tail(bucket)
      /\ UNCHANGED <<shared, production, clock, row, export, stored, admitted, late, together>>
  BY DEF Pops
<1>2. ApiTypeOK /\ clock' = clock /\ bucket \in Seq(Nat)
  BY <1>1 DEF ApiInv, ApiTypeOK
<1>3. CASE bucket = << >>
  <2>1. /\ ThreadsTyped' /\ ~ InTheDeque(t)'
        /\ \A u \in Thread \ {t} : threads'[u] = threads[u]
    BY <1>1, <1>2, <1>3, IsAnswered
  <2>2. ApiTypeOK'
    BY <1>1, <1>2, <1>3, <2>1 DEF ApiTypeOK, ThreadsTyped
  <2> QED BY <1>1, <1>3, <2>1, <2>2, ElsewhereKeeps
<1>4. CASE bucket # << >>
  <2>1. ThreadsTyped'
    <3>1. "looking" \in Stage
      BY DEF Stage, InDeque
    <3> QED BY <1>1, <1>2, <1>4, <3>1, Proceeds
  <2>2. bucket' \in Seq(Nat)
    BY <1>1, <1>2, <1>4
  <2>3. ApiTypeOK'
    BY <1>1, <1>2, <2>1, <2>2 DEF ApiTypeOK, ThreadsTyped
  <2>4. ASSUME ~ together' PROVE DequeInOrder'
    <3>1. DequeInOrder
      BY <1>1, <2>4 DEF ApiInv
    <3> QED BY <1>2, <3>1, PopsKeeps
  <2> QED BY <1>1, <2>3, <2>4, WithinKeeps
<1> QED BY <1>3, <1>4

LEMMA CountsKeeps == ASSUME ApiInv, NEW t \in Thread, Counts(t) PROVE ApiInv'
<1>1. /\ threads[t].at = "counting" /\ threads[t].at # "idle"
      /\ IF Len(bucket) >= RATE_LIMIT THEN Replies(t, "429") ELSE Goes(t, "appending")
      /\ UNCHANGED <<shared, production, clock, row, bucket, export, stored, admitted, late, together>>
  BY DEF Counts
<1>2. ApiTypeOK /\ clock' = clock
  BY <1>1 DEF ApiInv
<1>3. CASE Len(bucket) >= RATE_LIMIT
  <2>1. /\ ThreadsTyped' /\ ~ InTheDeque(t)'
        /\ \A u \in Thread \ {t} : threads'[u] = threads[u]
    BY <1>1, <1>2, <1>3, IsAnswered
  <2>2. ApiTypeOK'
    BY <1>1, <1>2, <2>1 DEF ApiTypeOK, ThreadsTyped
  <2> QED BY <1>1, <2>1, <2>2, ElsewhereKeeps
<1>4. CASE ~ (Len(bucket) >= RATE_LIMIT)
  <2>1. /\ threads'[t].at = "appending" /\ threads'[t].now = threads[t].now
        /\ \A u \in Thread \ {t} : threads'[u] = threads[u]
        /\ ThreadsTyped'
    <3>1. "appending" \in Stage
      BY DEF Stage, InDeque
    <3> QED BY <1>1, <1>2, <1>4, <3>1, Proceeds
  <2>2. ApiTypeOK'
    BY <1>1, <1>2, <2>1 DEF ApiTypeOK, ThreadsTyped
  <2>3. ASSUME ~ together' PROVE DequeInOrder'
    <3>1. DequeInOrder /\ InTheDeque(t)
      BY <1>1, <2>3 DEF ApiInv, InTheDeque, InDeque
    <3>2. \A u \in Thread \ {t} : ~ InTheDeque(u)
      BY <3>1 DEF DequeInOrder, OneInTheDeque
    <3>3. Len(bucket) < RATE_LIMIT
      BY <1>2, <1>4, ApiAssumption DEF ApiTypeOK
    <3>4. \A i \in 1..Len(bucket) : threads[t].now - bucket[i] <= RATE_WINDOW_SECONDS
      BY <1>1, <3>1 DEF DequeInOrder, LookersKnow
    <3>5. LookersKnow'
      BY <1>1, <2>1, <3>2, <3>3, <3>4 DEF LookersKnow, InTheDeque, InDeque
    <3>6. threads'[t].at \in InDeque
      BY <2>1 DEF InDeque
    <3> QED BY <1>1, <1>2, <2>1, <3>1, <3>5, <3>6, StaysInTheDeque
  <2> QED BY <1>1, <2>2, <2>3, WithinKeeps
<1> QED BY <1>3, <1>4

LEMMA AppendsAnyhowKeeps == ASSUME ApiInv, NEW t \in Thread, Appends(t) PROVE ApiInv'
<1> DEFINE now == threads[t].now
<1>1. /\ threads[t].at = "appending" /\ threads[t].at # "idle" /\ Goes(t, "admitted")
      /\ bucket' = Append(bucket, now)
      /\ admitted' = Append(admitted, [by |-> "deque", at |-> now])
      /\ UNCHANGED <<shared, production, clock, row, export, stored, late, together>>
  BY DEF Appends, Admits
<1>2. ApiTypeOK /\ clock' = clock /\ bucket \in Seq(Nat) /\ admitted \in Seq(Admission)
  BY <1>1 DEF ApiInv, ApiTypeOK
<1>3. now \in Nat
  BY <1>1, <1>2, ThreadAtWork
<1> HIDE DEF now
<1>4. ThreadsTyped'
  <2>1. "admitted" \in Stage
    BY DEF Stage
  <2> QED BY <1>1, <1>2, <2>1, Proceeds
<1>5. bucket' \in Seq(Nat) /\ admitted' \in Seq(Admission)
  <2>1. [by |-> "deque", at |-> now] \in Admission
    BY <1>3 DEF Admission
  <2> QED BY <1>1, <1>2, <1>3, <2>1
<1>6. ApiTypeOK'
  BY <1>1, <1>2, <1>4, <1>5 DEF ApiTypeOK, ThreadsTyped
<1>7. ASSUME ~ together' PROVE DequeInOrder'
  <2>1. DequeInOrder
    BY <1>1, <1>7 DEF ApiInv
  <2> QED BY <1>2, <2>1, AppendsKeeps
<1> QED BY <1>1, <1>3, <1>6, <1>7, WithinKeeps

\* What follows the limiter: the judgement, the export and the row.
LEMMA ServingKeeps ==
  ASSUME ApiInv, NEW t \in Thread, Judges(t) \/ Exports(t) \/ Saves(t)
  PROVE  ApiInv'
<1>1. /\ threads[t].at \in {"admitted", "judged", "saving"} /\ threads[t].at # "idle"
      /\ UNCHANGED <<shared, production, clock, row, bucket, admitted, late, together>>
      /\ \/ \E at \in {"judged", "saving"} : Goes(t, at)
         \/ \E status \in {"4xx", "200", "500"} : Replies(t, status)
  BY DEF Judges, Exports, Saves
<1>2. ApiTypeOK /\ clock' = clock
  BY <1>1 DEF ApiInv
<1>3. /\ ThreadsTyped' /\ ~ InTheDeque(t)'
      /\ \A u \in Thread \ {t} : threads'[u] = threads[u]
  <2>1. ASSUME NEW at \in {"judged", "saving"}, Goes(t, at)
        PROVE  /\ ThreadsTyped' /\ ~ InTheDeque(t)'
               /\ \A u \in Thread \ {t} : threads'[u] = threads[u]
    <3>1. at \in Stage
      BY DEF Stage
    <3>2. ThreadsTyped' /\ threads'[t].at = at /\ \A u \in Thread \ {t} : threads'[u] = threads[u]
      BY <1>1, <1>2, <2>1, <3>1, Proceeds
    <3> QED BY <3>2 DEF InTheDeque, InDeque
  <2>2. ASSUME NEW status \in {"4xx", "200", "500"}, Replies(t, status)
        PROVE  /\ ThreadsTyped' /\ ~ InTheDeque(t)'
               /\ \A u \in Thread \ {t} : threads'[u] = threads[u]
    BY <1>2, <2>2, IsAnswered
  <2> QED BY <1>1, <2>1, <2>2
<1>4. ApiTypeOK'
  BY <1>1, <1>2, <1>3 DEF ApiTypeOK, ThreadsTyped
<1> QED BY <1>1, <1>3, <1>4, ElsewhereKeeps

LEMMA TickKeeps == ASSUME ApiInv, Tick PROVE ApiInv'
<1>1. clock' = clock + 1 /\ UNCHANGED <<shared, production, row, bucket, threads, admitted, late, together>>
  BY DEF Tick
<1>2. ApiTypeOK /\ clock \in Nat /\ ThreadsTyped
  BY DEF ApiInv, ApiTypeOK, ThreadsTyped
<1>3. clock' \in Nat /\ clock' >= clock
  BY <1>1, <1>2
<1>4. ThreadsTyped'
  <2>1. \A n \in 0..clock : n \in 0..clock'
    BY <1>1, <1>2
  <2>2. [at : Stage, now : 0..clock, body : Body, reply : {"none"}]
          \subseteq [at : Stage, now : 0..clock', body : Body, reply : {"none"}]
    BY <2>1
  <2> QED BY <1>1, <1>2, <2>2 DEF ThreadsTyped
<1>5. ApiTypeOK'
  BY <1>1, <1>2, <1>3, <1>4 DEF ApiTypeOK, ThreadsTyped
<1>6. WindowsAreBounded'
  BY <1>1 DEF ApiInv, WindowsAreBounded, Passed, Granted
<1>7. ASSUME ~ together' PROVE DequeInOrder'
  <2>1. DequeInOrder /\ bucket' = bucket /\ admitted' = admitted
    BY <1>1, <1>7 DEF ApiInv
  <2>2. \A u \in Thread : InTheDeque(u)' => InTheDeque(u) /\ threads'[u] = threads[u]
    BY <1>1 DEF InTheDeque
  <2> QED BY <1>2, <1>3, <2>1, <2>2, OutsideTheDeque
<1> QED BY <1>5, <1>6, <1>7 DEF ApiInv

LEMMA ApiInductive == ApiInv /\ [ApiNext]_apiVars => ApiInv'
<1> SUFFICES ASSUME ApiInv, [ApiNext]_apiVars PROVE ApiInv'
  OBVIOUS
<1>1. CASE Tick
  BY <1>1, TickKeeps
<1>2. CASE UNCHANGED apiVars
  <2>1. ApiTypeOK /\ ApiTypeOK' /\ WindowsAreBounded'
    BY <1>2 DEF apiVars, ApiInv, ApiTypeOK, WindowsAreBounded, Passed, Granted
  <2>2. ASSUME ~ together' PROVE DequeInOrder'
    <3>1. DequeInOrder /\ bucket' = bucket /\ admitted' = admitted /\ clock' \in Nat /\ clock' >= clock
      BY <1>2, <2>1, <2>2 DEF apiVars, ApiInv, ApiTypeOK
    <3>2. \A u \in Thread : InTheDeque(u)' => InTheDeque(u) /\ threads'[u] = threads[u]
      BY <1>2 DEF apiVars, InTheDeque
    <3> QED BY <2>1, <3>1, <3>2, OutsideTheDeque
  <2> QED BY <2>1, <2>2 DEF ApiInv
<1>3. ASSUME NEW t \in Thread, NEW body \in Body, Arrives(t, body) PROVE ApiInv'
  BY <1>3, ArrivesKeeps
<1>4. ASSUME NEW t \in Thread, Upserts(t) PROVE ApiInv'
  BY <1>4, UpsertsKeeps
<1>5. ASSUME NEW t \in Thread, LimiterFails(t) PROVE ApiInv'
  BY <1>5, LimiterFailsKeeps
<1>6. ASSUME NEW t \in Thread, Looks(t) PROVE ApiInv'
  BY <1>6, LooksKeeps
<1>7. ASSUME NEW t \in Thread, Pops(t) PROVE ApiInv'
  BY <1>7, PopsAnyhowKeeps
<1>8. ASSUME NEW t \in Thread, Counts(t) PROVE ApiInv'
  BY <1>8, CountsKeeps
<1>9. ASSUME NEW t \in Thread, Appends(t) PROVE ApiInv'
  BY <1>9, AppendsAnyhowKeeps
<1>10. ASSUME NEW t \in Thread, Judges(t) \/ Exports(t) \/ Saves(t) PROVE ApiInv'
  BY <1>10, ServingKeeps
<1> QED BY <1>1, <1>2, <1>3, <1>4, <1>5, <1>6, <1>7, <1>8, <1>9, <1>10 DEF ApiNext

(***************************************************************************)
(* The limiter of api_security.py limits, whatever its limit and window,   *)
(* and however many threads serve: through the database at most            *)
(* RATE_LIMIT for a window, and as many again for each upsert that comes   *)
(* late; through the deque at most RATE_LIMIT in any                       *)
(* RATE_WINDOW_SECONDS as long as no two threads are in it together.       *)
(***************************************************************************)
THEOREM LimiterLimits == ApiSpec => []RateBounded
<1>1. ApiInv => RateBounded
  <2> SUFFICES ASSUME ApiInv, NEW k \in DOMAIN admitted
               PROVE  /\ admitted[k].by = "shared" =>
                           Cardinality({j \in {i \in DOMAIN admitted : admitted[i].by = admitted[k].by} :
                                          admitted[j].at = admitted[k].at}) <= RATE_LIMIT * (1 + late)
                      /\ admitted[k].by # "shared" /\ ~ together =>
                           Cardinality({j \in {i \in DOMAIN admitted : admitted[i].by = admitted[k].by} :
                                          admitted[j].at \in
                                            admitted[k].at .. (admitted[k].at + RATE_WINDOW_SECONDS)}) <= RATE_LIMIT
    BY DEF RateBounded
  <2>1. /\ admitted[k] \in Admission /\ ApiTypeOK
        /\ late \in Nat /\ RATE_LIMIT \in Nat /\ row.window \in Nat /\ row.count \in Nat
    BY ApiAssumption DEF ApiInv, ApiTypeOK
  <2>2. admitted[k].at \in Nat /\ admitted[k].by \in {"shared", "deque"}
    BY <2>1 DEF Admission
  <2>3. CASE admitted[k].by = "shared"
    <3>1. {j \in {i \in DOMAIN admitted : admitted[i].by = admitted[k].by} : admitted[j].at = admitted[k].at}
            = Passed(admitted[k].at)
      BY <2>3 DEF Passed
    <3>2. Cardinality(Passed(admitted[k].at)) <= RATE_LIMIT * late + Granted(admitted[k].at)
      BY <2>2 DEF ApiInv, WindowsAreBounded
    <3>3. Granted(admitted[k].at) <= RATE_LIMIT /\ Granted(admitted[k].at) \in Nat
      BY <2>1 DEF Granted
    <3>4. Cardinality(Passed(admitted[k].at)) \in Nat
      <4>1. admitted \in Seq(Admission) /\ DOMAIN admitted = 1..Len(admitted) /\ Len(admitted) \in Nat
        BY <2>1 DEF ApiTypeOK
      <4>2. Passed(admitted[k].at) \in SUBSET (1..Len(admitted)) /\ IsFiniteSet(1..Len(admitted))
        BY <4>1, FS_Interval DEF Passed
      <4> QED BY <4>2, FS_Subset, FS_CardinalityType
    <3>5. RATE_LIMIT * (1 + late) = RATE_LIMIT * late + RATE_LIMIT /\ RATE_LIMIT * late \in Nat
      BY <2>1
    <3> DEFINE c == Cardinality(Passed(admitted[k].at))  g == Granted(admitted[k].at)
               l == RATE_LIMIT * late  m == RATE_LIMIT * (1 + late)
    <3>6. c \in Nat /\ g \in Nat /\ l \in Nat /\ c <= l + g /\ g <= RATE_LIMIT /\ m = l + RATE_LIMIT
      BY <3>2, <3>3, <3>4, <3>5
    <3> HIDE DEF c, g, l, m
    <3>7. c <= m
      BY <2>1, <3>6
    <3> QED BY <2>3, <3>1, <3>7 DEF c, m
  <2>4. CASE admitted[k].by = "deque" /\ ~ together
    <3>1. {j \in {i \in DOMAIN admitted : admitted[i].by = admitted[k].by} :
             admitted[j].at \in admitted[k].at .. (admitted[k].at + RATE_WINDOW_SECONDS)} = Near(k)
      BY <2>4 DEF Near
    <3>2. Cardinality(Near(k)) <= RATE_LIMIT
      BY <2>4 DEF ApiInv, DequeInOrder, DequeIsBounded
    <3> QED BY <2>4, <3>1, <3>2
  <2> QED BY <2>2, <2>3, <2>4
<1>2. ApiSpec => []ApiInv
  BY ApiInitially, ApiInductive, PTL DEF ApiSpec
<1> QED BY <1>1, <1>2, PTL

================================================================================
