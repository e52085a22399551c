------------------------------ MODULE FadeEngine -------------------------------
(***************************************************************************)
(* The detector: core/fade_engine.py with core/detection_science.py, the   *)
(* technique mapping of mitre/rule_parser.py and the explanation of        *)
(* core/explainability.py. A signal is on or off in every interval (values *)
(* 1 and 0), for which entropy, deviation and correlation have closed      *)
(* forms. Scores and ratios are thousandths, z is hundredths, all rounded  *)
(* down.                                                                   *)
(***************************************************************************)
EXTENDS Integers, FiniteSets, SequencesExt

CONSTANTS EngineMinPoints,     \* at least 8
          DetectionThreshold,  \* of 1000
          MaxCandidates,       \* the most cuts tried for a change
          RuleThreshold,       \* of the three rules
          Trace                \* the signals it may be run on

ASSUME EngineAssumption == /\ EngineMinPoints \in Nat /\ EngineMinPoints >= 8
                           /\ MaxCandidates \in Nat /\ MaxCandidates >= 2
                           /\ Trace \subseteq Seq({0, 1})

Atmost(cap, x) == IF x > cap THEN cap ELSE x
Ratio(x, y) == (1000 * x) \div y
Sqrt(x) == CHOOSE r \in 0..(1300 + x \div 1300) : r * r <= x /\ (r + 1) * (r + 1) > x
SumOf(numbers) ==
    LET upTo[i \in 0..Len(numbers)] == IF i = 0 THEN 0 ELSE upTo[i - 1] + numbers[i]
    IN  upTo[Len(numbers)]
On(v, from, to) == Cardinality({i \in from..to : v[i] = 1})
Total(v) == On(v, 1, Len(v))
Off(v) == Len(v) - Total(v)

(* Entropy of a window of eight intervals of which k are on: log2 k. *)
WindowEntropy(k) == <<0, 0, 1000, 1585, 2000, 2322, 2585, 2807, 3000>>[k + 1]
CalculateEntropy(v) == [i \in 1..(Len(v) - 7) |-> WindowEntropy(On(v, i, i + 7))]
AverageEntropy(v) == SumOf(CalculateEntropy(v)) \div (Len(v) - 7)
DropRatio(v) == Ratio(Off(v), Len(v))

(* The value in the minority lies furthest from the mean. *)
ZOutlier(v) == LET lesser == Min({Total(v), Off(v)}) IN
               IF lesser = 0 THEN 0 ELSE Sqrt((10000 * (Len(v) - lesser)) \div lesser)

\* Off for most of the time; a variant with a higher bar.
MostlyOffTwoThirds(v) == DropRatio(v) >= 667
MostlyOff(v) == DropRatio(v) >= 550

RulesMatched(v) ==
    LET n == Len(v)  mid == n \div 2
        low == {i \in 1..(n - 7) : CalculateEntropy(v)[i] < 300}
    IN  Cardinality({r \in 1..3 : \/ r = 1 /\ Cardinality(low) >= 3
                                  \/ r = 2 /\ MostlyOff(v)
                                  \/ r = 3 /\ n > 10 /\ 10 * On(v, 1, mid) < 3 * mid
                                           /\ 10 * On(v, mid + 1, n) > 6 * (n - mid)})

LegacyScore(v) == (30 * (1000 - AverageEntropy(v) \div 3) + 50 * DropRatio(v)
                   + 20 * Atmost(1000, ZOutlier(v))) \div 100

(* Detection science: the first and the last fifth of the signal. *)
Edge(v) == Max({1, (2 * Len(v) + 5) \div 10})
OnFirst(v) == On(v, 1, Edge(v))
OnLast(v) == On(v, Len(v) - Edge(v) + 1, Len(v))
SustainedDrop(v) == IF OnFirst(v) > OnLast(v) THEN Ratio(OnFirst(v) - OnLast(v), OnFirst(v)) ELSE 0
Recovery(v) == IF OnFirst(v) = 0 \/ Off(v) = 0 THEN 0 ELSE Atmost(1000, Ratio(OnLast(v), OnFirst(v)))

\* slope * std(x) / std is the correlation of the signal with time; a third of it.
SlopeChange(v) ==
    LET n == Len(v)
        lean == 2 * SumOf([i \in 1..n |-> (i - 1) * v[i]]) - Total(v) * (n - 1)
    IN  IF Total(v) \in {0, n} THEN 0
        ELSE 10 * Sqrt((10000 * lean * lean) \div (3 * (n * n - 1) * Total(v) * Off(v)))

LongestLowRun(v) ==
    LET run[i \in 0..Len(v)] == IF i = 0 \/ v[i] # 0 THEN 0 ELSE run[i - 1] + 1
    IN  Max({run[i] : i \in 0..Len(v)})
Persistence(v) == Atmost(1000, Ratio(2 * LongestLowRun(v), Len(v)))

\* Evenly spaced timestamps; without usable ones there are no beacon features.
Periodicity(v, timed) == IF timed THEN Max({SustainedDrop(v), SlopeChange(v), Persistence(v)}) ELSE 0

\* How far the last fifth is from the first, once the first has enough points.
BaselineScore(v) ==
    LET a == OnFirst(v)  e == Edge(v)  d == OnLast(v) - a
    IN  CASE e < Max({4, Min({8, Len(v) \div 2})}) \/ d = 0 -> 0
          [] OTHER -> IF a \in {0, e} THEN 1000 ELSE Sqrt(Atmost(1000000, (1000000 * d * d) \div (16 * a * (e - a))))

CombineEvidence(v, timed) ==
    (30 * Atmost(1000, LegacyScore(v)) + 18 * BaselineScore(v) + 18 * SustainedDrop(v)
     + 10 * SlopeChange(v) + 10 * Persistence(v) + 5 * Periodicity(v, timed)
     + 5 * Recovery(v)) \div 100
CombinedScore(v, timed) == (65 * LegacyScore(v) + 35 * CombineEvidence(v, timed)) \div 100

\* c * (n - c) times the difference of the means before and after the cut c;
\* a variant whose prefix sums are one ahead of the counts.
ShiftAhead(v, c) ==
    LET d == Len(v) * On(v, 1, c + 1) - c * Total(v) IN IF d < 0 THEN -d ELSE d
Shift(v, c) == LET d == Len(v) * On(v, 1, c) - c * Total(v) IN IF d < 0 THEN -d ELSE d

\* The cuts tried, evenly spaced over 4..(n - 4): all of them as long as there are
\* no more than MaxCandidates.  The k-th is rounded down to a whole number, one
\* lower when it is whole but its floating-point product falls short of it.
Tried(n) == 0..(Atmost(MaxCandidates, n - 7) - 1)
CutAt(n, k) ==
    LET parts == Max({1, Max(Tried(n))})
        at == 4 + (k * (n - 8)) \div parts
        fallsShort == /\ (k * (n - 8)) % parts = 0 /\ (n - 8) % parts # 0
                      /\ k \notin {0, parts}
    IN  IF fallsShort THEN {at - 1, at} ELSE {at}

\* The cut with the largest difference of means; rounding decides between equals.
ChangePoints(v) ==
    LET n == Len(v)
        Largest(c, k) == \A j \in Tried(n) \ {k} : \E d \in CutAt(n, j) :
                            Shift(v, c) * d * (n - d) >= Shift(v, d) * c * (n - c)
    IN  IF Total(v) \in {0, n} THEN {-1}
        ELSE {c \in 4..(n - 4) : \E k \in Tried(n) : c \in CutAt(n, k) /\ Largest(c, k)}
FindFadeStart(v) ==
    LET e == CalculateEntropy(v)
        low == {i \in 1..(Len(e) - 2) : e[i] < 300 /\ e[i + 1] < 300}
    IN  IF low = {} THEN Len(v) \div 2 ELSE Min(low) - 1
FadeStarts(v, detected) ==
    CASE ~detected -> {-1}
      [] detected /\ ChangePoints(v) = {-1} -> {FindFadeStart(v)}
      [] OTHER -> ChangePoints(v)

Level == <<"info", "low", "medium", "high", "critical">>
Rank(c) == CHOOSE i \in 1..5 : Level[i] = c
PointsFor(x, two, one) == IF x >= two THEN 2 ELSE IF x >= one THEN 1 ELSE 0
ComputeConfidence(score, rules, z, drop) ==
    LET signals == PointsFor(score, 400, 250) + PointsFor(rules, 2, 1) + PointsFor(z, 1000, 300)
                   + (IF drop >= 500 THEN 1 ELSE 0)
    IN  Level[CASE signals >= 6 -> 5 [] signals \in 4..5 -> 4 [] signals \in 2..3 -> 3
                [] signals = 1 -> 2 [] OTHER -> 1]

TooShort == [detected |-> FALSE, score |-> 0, confidence |-> "info", entropy |-> 0, drop |-> 0,
             z |-> 0, start |-> -1, rules |-> 0, combined |-> "info"]
DetectFade(v, timed) ==
    LET score == CombinedScore(v, timed)  rules == RulesMatched(v)
        detected == score >= DetectionThreshold \/ rules >= RuleThreshold
        level == ComputeConfidence(score, rules, ZOutlier(v), DropRatio(v))
    IN  IF Len(v) < EngineMinPoints THEN {TooShort}
        ELSE {[detected |-> detected, score |-> score, confidence |-> level,
               entropy |-> AverageEntropy(v), drop |-> DropRatio(v), z |-> ZOutlier(v),
               start |-> s, rules |-> rules, combined |-> IF detected THEN level ELSE "info"] :
               s \in FadeStarts(v, detected)}

\* answer: the forest's, or "none" when there is no model or it raised.
WithMl(r, answer) ==
    IF answer.available /\ answer.anomaly /\ r.detected
    THEN [r EXCEPT !.combined =
            IF r.score >= 400 \/ answer.score >= 600 THEN "critical"
            ELSE IF r.score >= 250 \/ answer.score >= 400 THEN "high" ELSE "medium"]
    ELSE r

ScoreToSeverity(r) ==
    LET Is(rank) == CASE rank = 5 -> r.z >= 1000 \/ r.confidence = "critical"
                      [] rank = 4 -> r.score >= 400 \/ r.z >= 500 \/ r.confidence = "high"
                      [] rank = 3 -> r.score >= 250 \/ r.z >= 300 \/ r.confidence = "medium"
                      [] OTHER -> rank = 2
    IN  Level[Max({rank \in 2..5 : Is(rank)})]

(* Techniques: the primary one, and all of them by relevance. *)
Sure(r) == r.z >= 300 /\ r.confidence \in {"high", "critical"}
MatchTtp(r) ==
    LET asked == <<"T1573.002", "T1071.001", "T1573.001", "T1071.004", "T1205.001", "T1573.001",
                   "T1027.003", "T1202", "T1027">>
        matched == {i \in 1..9 : \/ i = 1 /\ r.drop >= 800 /\ r.z >= 250
                                 \/ i = 2 /\ Sure(r) /\ r.drop >= 400
                                 \/ i = 3 /\ Sure(r)
                                 \/ i = 4 /\ r.drop >= 600 /\ r.rules >= 1
                                 \/ i = 5 /\ r.drop >= 600 /\ r.rules >= 2
                                 \/ i = 6 /\ r.entropy >= 6500
                                 \/ i = 7 /\ r.drop >= 500
                                 \/ i = 8 /\ r.score >= 300 /\ r.rules >= 1
                                 \/ i = 9}
    IN  IF r.detected THEN asked[Min(matched)] ELSE "none"
\* By their places in the ranking, the most relevant first.
MatchAllTtps(r) ==
    LET ranked == <<"T1573.002", "T1071.001", "T1573.001", "T1071.004", "T1205.001", "T1571",
                    "T1027", "T1202">>
        matched == {i \in 1..8 : \/ i = 1 /\ r.drop >= 800 /\ r.z >= 250
                                 \/ i = 2 /\ Sure(r) /\ r.drop >= 400
                                 \/ i = 3 /\ Sure(r)
                                 \/ i = 4 /\ r.drop >= 600
                                 \/ i = 5 /\ r.drop >= 600 /\ r.rules >= 2
                                 \/ i = 6 /\ r.z >= 300
                                 \/ i \in {7, 8} /\ r.score >= 300}
    IN  [i \in {k \in matched : r.detected} |-> ranked[i]]

\* What supports the decision, as told to the analyst.
BuildEvidence(r, answer) ==
    {f \in {"drop_ratio", "z_outlier", "rules_matched", "ml_anomaly"} :
        \/ f = "drop_ratio" /\ r.drop >= 500
        \/ f = "z_outlier" /\ r.z >= 300
        \/ f = "rules_matched" /\ r.rules >= 1
        \/ f = "ml_anomaly" /\ answer.anomaly}

--------------------------------------------------------------------------------
VARIABLES signal, timed, ml, result, report

engineVars == <<signal, timed, ml, result, report>>

\* predict() calls an anomaly what scores above one half; no answer is 0, FALSE.
MlAnswers == {[available |-> FALSE, score |-> 0, anomaly |-> FALSE]}
           \cup {[available |-> TRUE, score |-> s, anomaly |-> s > 500] : s \in {450, 550, 650}}

EngineInit(signals) == /\ signal \in signals /\ timed \in BOOLEAN /\ ml \in MlAnswers
                       /\ result = TooShort /\ report = "none"

Detect == /\ report = "none"
          /\ \E r \in DetectFade(signal, timed) : result' = WithMl(r, ml)
          /\ report' = "made" /\ UNCHANGED <<signal, timed, ml>>

EngineSpec == EngineInit(Trace) /\ [][Detect]_engineVars

Generic == {"T1571", "T1027", "T1202"}

\* The technique a detection is filed under is the one ranked first, unless
\* only generic ones match (match_mitre_ttp and match_all_ttps say the same in
\* two ways; the first also asks for a matched rule, which the engine's
\* own rule on the drop ratio supplies).
PrimaryIsTop ==
    LET all == MatchAllTtps(result)
        top == Min(DOMAIN all)
    IN  report = "made" /\ DOMAIN all # {} /\ all[top] \notin Generic => MatchTtp(result) = all[top]

\* A signal that goes off for good and stays off for half of the time is
\* detected, the fade starts where it does, and an analyst is told of the drop.
\* Only a signal too long for every cut to be tried is dated beside it, by no more
\* than the distance between two cuts.
Beside(x, y) == IF x < y THEN y - x ELSE x - y
FadeIsLocated ==
    \A a \in 4..(Len(signal) - 4) :
        /\ report = "made" /\ 2 * a <= Len(signal) /\ Len(signal) >= EngineMinPoints
        /\ \A i \in DOMAIN signal : signal[i] = (IF i <= a THEN 1 ELSE 0)
        => /\ result.detected /\ "drop_ratio" \in BuildEvidence(result, ml)
           /\ \/ result.start = a
              \/ /\ Len(signal) - 7 > MaxCandidates
                 /\ Beside(result.start, a) * (MaxCandidates - 1) <= Len(signal) - 8
           /\ Rank(ScoreToSeverity(result)) >= Rank("medium")

================================================================================
