------------------------------ MODULE Correlation ------------------------------
(***************************************************************************)
(* core/correlation.py: a stateless engine that reports observations of    *)
(* several domains, of one tenant and close in time, as one correlated     *)
(* detection. Scores are thousandths, times are ticks; the remaining       *)
(* fields of an observation are determined by its event. A digest is the   *)
(* value it is taken of.                                                   *)
(***************************************************************************)
EXTENDS Integers, FiniteSets, SequencesExt, Sorting

CONSTANTS Tenant, Domain, Window, MaxClockSkew, Threshold, MinSignalScore, MinDomains,
          Offered, \* the sequences of observations that may be offered
          Demands  \* the domains a detection may be asked to have

Score == 0..1000

CorrelationPolicy ==
    /\ {Window, MaxClockSkew} \subseteq Nat \ {0} /\ MaxClockSkew <= Window
    /\ Threshold \in Score /\ MinSignalScore \in Score
    /\ MinDomains \in Nat /\ MinDomains >= 2

\* Times and identifiers are numbers.
ASSUME CorrelationAssumption ==
    /\ CorrelationPolicy
    /\ \A g \in Offered : /\ g \in Seq(Range(g))
                          /\ \A i \in DOMAIN g : g[i].at \in Int /\ g[i].id \in Int

\* An event's fields are copied; scores outside their range raise.
FromEvent(event, at, tenant, domain, signal, confidence, uncertainty) ==
    [id |-> event, at |-> at, tenant |-> tenant, domain |-> domain,
     signal |-> signal, confidence |-> confidence, uncertainty |-> uncertainty]
IsObservation(o) == {o.signal, o.confidence, o.uncertainty} \subseteq Score

Times(x, y) == (x * y) \div 1000
Clip(x) == IF x < 0 THEN 0 ELSE IF x > 1000 THEN 1000 ELSE x
Root(x) == CHOOSE r \in Score : r * r <= 1000 * x /\ (r + 1) * (r + 1) > 1000 * x

\* Signal strength discounted by reported uncertainty.
Trust(o) == Times(o.confidence, 1000 - o.uncertainty)
EffectiveScore(o) == Clip(Times(o.signal, Trust(o)))
Apart(o, p) == IF o.at < p.at THEN p.at - o.at ELSE o.at - p.at
Earlier(o, p) == o.at < p.at \/ (o.at = p.at /\ o.id < p.id)

\* The first observation of every event, in the order of arrival.
Repeats(given, i) == \E j \in 1..(i - 1) : given[j].id = given[i].id
Unique(given) ==
    LET kept == Ascending({i \in DOMAIN given : ~Repeats(given, i)})
    IN  [k \in DOMAIN kept |-> given[kept[k]]]
Duplicates(given) == {given[i].id : i \in {k \in DOMAIN given : Repeats(given, k)}}
OutOfOrder(unique) == Cardinality({i \in 1..(Len(unique) - 1) : unique[i].at > unique[i + 1].at})

Corroborating(anchor, unique) ==
    {o \in Range(unique) : /\ o.id # anchor.id /\ o.tenant = anchor.tenant
                           /\ o.domain # anchor.domain
                           /\ EffectiveScore(o) >= MinSignalScore
                           /\ Apart(o, anchor) <= Window}

\* A variant a wrong engine would have: whichever observation of a domain
\* arrived first.
NearestByArrival(anchor, unique) ==
    LET Take(taken, o) == IF \/ o \notin Corroborating(anchor, unique)
                             \/ \E t \in taken : t.domain = o.domain THEN taken ELSE taken \cup {o}
    IN  FoldLeft(Take, {anchor}, unique)

\* The candidates nearest to the anchor first; every domain takes its first one.
Closer(o, p, anchor) == \/ Apart(o, anchor) < Apart(p, anchor)
                        \/ Apart(o, anchor) = Apart(p, anchor) /\ o.id < p.id
Nearest(anchor, unique) ==
    LET near == Corroborating(anchor, unique)
    IN  {anchor} \cup {o \in near : \A p \in near \ {o} : p.domain = o.domain => Closer(o, p, anchor)}

Domains(selected) == {o.domain : o \in selected}
Qualifies(selected, required) ==
    /\ Cardinality(Domains(selected)) >= MinDomains
    /\ required \subseteq Domains(selected)

Mean(f(_), selected) == Clip(MapThenSumSet(f, selected) \div Cardinality(selected))
Delta(selected) == LET at == {o.at : o \in selected} IN Max(at) - Min(at)
TemporalScore(selected) == Clip(1000 - (1000 * Delta(selected)) \div Window)
SignalScore(selected) == LET Of(o) == o.signal IN Mean(Of, selected)
SensorConfidence(selected) == Mean(Trust, selected)
CorrelationStrength(selected) ==
    Clip(Root(FoldSet(LAMBDA o, p : Times(EffectiveScore(o), p), 1000, selected)))
Confidence(selected) ==
    Clip((35 * TemporalScore(selected) + 30 * SignalScore(selected)
          + 20 * SensorConfidence(selected) + 15 * CorrelationStrength(selected)) \div 100)
Emits(selected, required) == Qualifies(selected, required) /\ Confidence(selected) >= Threshold

OverTime(some) == Arranged(some, {pair \in some \X some : Earlier(pair[1], pair[2])})
CorrelatedDetection(selected, required, given) ==
    [observations |-> OverTime(selected), domains |-> Domains(selected),
     tenant |-> (CHOOSE o \in selected : TRUE).tenant,
     confidence |-> Confidence(selected), delta |-> Delta(selected),
     missing |-> required \ Domains(selected), duplicates |-> Duplicates(given),
     outOfOrder |-> OutOfOrder(Unique(given)), tolerance |-> MaxClockSkew]

\* Two detections have the same id when they are of the same observations.
Correlate(given, required) ==
    LET unique == Unique(given)
        order == OverTime(Range(unique))
        Selected(k) == Nearest(order[k], unique)
        Reports(k) == EffectiveScore(order[k]) >= MinSignalScore /\ Emits(Selected(k), required)
        Again(k) == \E j \in 1..(k - 1) : Selected(j) = Selected(k) /\ Reports(j)
        anchors == Ascending({k \in DOMAIN order : Reports(k) /\ ~Again(k)})
    IN  [i \in DOMAIN anchors |-> CorrelatedDetection(Selected(anchors[i]), required, given)]

--------------------------------------------------------------------------------
VARIABLES given,    \* the observations offered, in the order of arrival
          required, \* the domains a detection must have
          found,    \* the detections returned
          outcome   \* "open", then "returned" or "ValueError"

correlationVars == <<given, required, found, outcome>>

CorrelationInit(inputs, demands) == /\ given \in inputs /\ required \in demands
                                    /\ found = <<>> /\ outcome = "open"

\* Building the observations, then the call: an empty list is answered before
\* the required domains are looked at.
Rejected == \/ \E i \in DOMAIN given : ~IsObservation(given[i])
            \/ given # <<>> /\ required # {} /\ Cardinality(required) < MinDomains

CallCorrelate ==
    /\ outcome = "open" /\ UNCHANGED <<given, required>>
    /\ \/ Rejected /\ outcome' = "ValueError" /\ UNCHANGED found
       \/ ~Rejected /\ outcome' = "returned" /\ found' = Correlate(given, required)

CorrelationSpec == CorrelationInit(Offered, Demands) /\ [][CallCorrelate]_correlationVars

\* What is detected depends on the events seen and not on the order in which they
\* arrived or on how often they were repeated (correlate: repetition is "never
\* silently converted into stronger evidence").  It is what one report of every
\* event says; when all reports of an event agree that is all that was offered, and
\* when they contradict each other the engine takes one of them whole (the first:
\* there, and only there, arrival decides), never a second one beside it.
\* The reference takes a set of reports, not an order, and asks for an anchor of
\* which each other member is the nearest of its domain.
IsCluster(selected, all) ==
    \E a \in selected :
        /\ \A o \in selected : EffectiveScore(o) >= MinSignalScore /\ Apart(o, a) <= Window
                               /\ o.tenant = a.tenant
        /\ \A o \in selected, p \in selected : o.domain = p.domain => o = p
        /\ \A p \in all : /\ p.tenant = a.tenant /\ EffectiveScore(p) >= MinSignalScore
                          /\ Apart(p, a) <= Window
                          => \E o \in selected :
                                o.domain = p.domain
                                /\ \/ o = a \/ o = p \/ Apart(o, a) < Apart(p, a)
                                   \/ Apart(o, a) = Apart(p, a) /\ o.id < p.id
Clusters(all) == {s \in SUBSET all : s # {} /\ IsCluster(s, all) /\ Emits(s, required)}
IsReading(all, reports) ==
    /\ \A o \in reports : \E p \in all : p.id = o.id
    /\ \A o, p \in all : o.id = p.id => o = p
ArrivalDoesNotMatter ==
    outcome = "returned" =>
        \E all \in SUBSET Range(given) :
            /\ IsReading(all, Range(given))
            /\ {Range(d.observations) : d \in Range(found)} = Clusters(all)
================================================================================
