------------------------------ MODULE Evaluation -------------------------------
(***************************************************************************)
(* How the detector is measured: the governed corpus and a run over one of *)
(* its splits (core/corpus.py, core/evaluation_governance.py), the ground  *)
(* truth dataset (core/evaluation_corpus.py), the choice of a threshold    *)
(* (core/thresholds.py) and the ranking of scores (core/evaluation.py).    *)
(* Every call is a function of its arguments; an error raised is an answer *)
(* like any other. Rates are compared as fractions, exactly.               *)
(***************************************************************************)
EXTENDS Sorting, SequencesExt

CONSTANTS Full,        \* a score of one; scores are whole parts of it
          Question     \* the calls there may be, with their arguments

Unscored == -100       \* no score, or one that is not a finite number
NoLimit == -100        \* max_false_positive_rate left out

ASSUME EvaluationAssumption ==
    /\ Full \in Nat
    /\ \A q \in Question :
           /\ q.op \in {"run", "manifest", "threshold", "ranking"}
           /\ q.cases \in Seq(Range(q.cases))
           /\ q.op = "run" => /\ q.corpus \in Seq(Range(q.corpus))
                              /\ \A c \in Range(q.cases) : c.expected \in BOOLEAN
           /\ q.op \in {"threshold", "ranking"} =>
                  \A c \in Range(q.cases) : c.expected \in BOOLEAN /\ c.score \in Int
           /\ q.op = "threshold" => q.limit \in Int

VARIABLES question,    \* the call and its arguments
          verdict      \* what it returned: `error' says whether it raised

evaluationVars == <<question, verdict>>

Raised == [error |-> TRUE]
Distinct(s) == Cardinality(Range(s)) = Len(s)
Pick(s, Field(_)) == [i \in DOMAIN s |-> Field(s[i])]

--------------------------------------------------------------------------------
(* The governed corpus: a sequence of entries [sample, content, split,       *)
(* known, sound], `known' when the confidence of its label is, `sound' when  *)
(* every other field is as it must be.                                       *)
EntryIsValid(e) == e.sound /\ (e.split = "blind" => e.known)

\* Entries with one content are in one split (asked twice, in two ways).
SplitsApart(corpus) ==
    \A i, k \in DOMAIN corpus :
        corpus[i].content = corpus[k].content => corpus[i].split = corpus[k].split

CorpusIsValid(corpus) ==
    /\ corpus # <<>>
    /\ \A i \in DOMAIN corpus : EntryIsValid(corpus[i])
    /\ Distinct(Pick(corpus, LAMBDA e : e.sample))
    /\ SplitsApart(corpus)

OfSplit(corpus, split) == {e \in Range(corpus) : e.split = split}

ValidForEvaluation(corpus, split) ==
    /\ CorpusIsValid(corpus) /\ SplitsApart(corpus)
    /\ OfSplit(corpus, split) # {}
    /\ split \in {"holdout", "blind"} => \A e \in OfSplit(corpus, split) : e.known

\* Counts of cases that were and were not expected to be `detected'.
ConfusionMatrix(cases, detected) ==
    LET Count(among, e) == Cardinality({i \in among : cases[i].expected = e})
        passed == DOMAIN cases \ detected
    IN  [tp |-> Count(detected, TRUE), fp |-> Count(detected, FALSE),
         tn |-> Count(passed, FALSE),  fn |-> Count(passed, TRUE)]
Support(m) == m.tp + m.fp + m.tn + m.fn

\* A variant that lets any sample of the corpus be evaluated.
AnySample(corpus, split) == {e.sample : e \in Range(corpus)}
Governed(corpus, split) == {e.sample : e \in OfSplit(corpus, split)}

(* evaluate_run: the run's metadata is not compared with the corpus it is    *)
(* given, so it may name another one.                                        *)
EvaluateRun(q) ==
    LET ids == Pick(q.cases, LAMBDA c : c.sample)
    IN  IF /\ ValidForEvaluation(q.corpus, q.split)
           /\ Range(ids) \subseteq Governed(q.corpus, q.split)
           /\ Distinct(ids)
           /\ q.split = "blind" => q.independent
        THEN [error |-> FALSE, matrix |-> ConfusionMatrix(q.cases, {i \in DOMAIN q.cases : q.cases[i].detected})]
        ELSE Raised

--------------------------------------------------------------------------------
(* The ground truth dataset: a sequence of cases [id, source, split, group,  *)
(* sound]; a source is the text of its digest, a group is 0 for none.        *)
LeavesSplit(cases, field) ==
    \E i, k \in DOMAIN cases : /\ cases[i][field] = cases[k][field] /\ cases[i][field] # 0
                               /\ cases[i].split # cases[k].split

DatasetIsValid(cases) ==
    /\ \A i \in DOMAIN cases : cases[i].sound
    /\ Distinct(Pick(cases, LAMBDA c : c.id))
    /\ ~ LeavesSplit(cases, "source")
    /\ ~ LeavesSplit(cases, "group")

\* The digest covers the cases in the order of their ids.
ById(cases) == SetToSortSeq(cases, LAMBDA c, d : c.id < d.id)
DatasetManifest(cases) ==
    IF DatasetIsValid(cases)
    THEN [error |-> FALSE, digest |-> ById(Range(cases))]
    ELSE Raised

--------------------------------------------------------------------------------
(* Cases with a score, [expected, score], by their positions.                *)
Scored(cases) == [i \in {k \in DOMAIN cases : cases[k].score # Unscored} |-> cases[i]]
Positives(c) == Cardinality({i \in DOMAIN c : c[i].expected})
Negatives(c) == Cardinality(DOMAIN c) - Positives(c)
At(c, t) == ConfusionMatrix(c, {i \in DOMAIN c : c[i].score >= t})

\* Rates over their common denominator; one of an empty class is zero.
Common(c) == Max({1, Positives(c)}) * Max({1, Negatives(c)})
Tpr(c, t) == At(c, t).tp * Max({1, Negatives(c)})
Fpr(c, t) == At(c, t).fp * Max({1, Positives(c)})

\* limit is in halves, and looked at whatever the objective.
Askable(q) == /\ q.objective \in {"youden", "constrained_recall"}
              /\ q.objective = "constrained_recall" => q.limit # NoLimit
              /\ q.limit \in {NoLimit} \cup 0..2
              /\ DOMAIN Scored(q.cases) # {}
Feasible(q, c, t) == q.objective = "constrained_recall" => 2 * Fpr(c, t) <= q.limit * Common(c)
Value(q, c, t) == IF q.objective = "youden" THEN Tpr(c, t) - Fpr(c, t) ELSE Tpr(c, t)

Clipped(s) == Min({Full, Max({0, s})})
\* A variant with the scores alone.
ScoresAlone(c) == {Clipped(c[i].score) : i \in DOMAIN c}
Candidates(c) == {0, Full} \cup {Clipped(c[i].score) : i \in DOMAIN c}

\* The better candidate: the objective first, the lower threshold last.
Beats(q, c, t, u) ==
    LET Key(x) == <<Value(q, c, x), Tpr(c, x), -Fpr(c, x), -x>>
    IN  \E i \in 1..4 : Key(t)[i] > Key(u)[i] /\ \A k \in 1..(i - 1) : Key(t)[k] = Key(u)[k]

CalibrateThreshold(q) ==
    LET c == Scored(q.cases)
        candidates == {t \in Candidates(c) : Feasible(q, c, t)}
    IN  IF ~ Askable(q) \/ candidates = {} THEN Raised
        ELSE LET best == CHOOSE t \in candidates : \A u \in candidates \ {t} : Beats(q, c, t, u)
             IN  [error |-> FALSE, threshold |-> best, matrix |-> At(c, best)]

(* ranking_metrics: the points of the curve are taken at the first case of   *)
(* each score, cases with one score keeping the order they came in. The area *)
(* is counted twice, in units of one positive by one negative.               *)
AtFirst(c, i, label) ==
    Cardinality({k \in DOMAIN c : c[k].expected = label /\ (c[k].score > c[i].score \/ k = i)})
Firsts(c) == {i \in DOMAIN c : \A k \in DOMAIN c : k < i => c[k].score # c[i].score}
Descending(c) == {p \in (DOMAIN c) \X (DOMAIN c) : c[p[1]].score > c[p[2]].score}
Curve(c) ==
    << <<0, 0>> >> \o Pick(Arranged(Firsts(c), Descending(c)),
                          LAMBDA i : <<AtFirst(c, i, FALSE), AtFirst(c, i, TRUE)>>)
    \o << <<Negatives(c), Positives(c)>> >>
TwiceArea(curve) ==
    LET upTo[k \in DOMAIN curve] ==
            IF k = 1 THEN 0
            ELSE upTo[k - 1] + (curve[k][1] - curve[k - 1][1]) * (curve[k][2] + curve[k - 1][2])
    IN  upTo[Len(curve)]
RankingMetrics(q) ==
    LET c == Scored(q.cases)
    IN  [error |-> FALSE, support |-> Cardinality(DOMAIN c),
         defined |-> Positives(c) > 0 /\ Negatives(c) > 0,
         area |-> TwiceArea(Curve(c))]

--------------------------------------------------------------------------------
EvaluationInit(questions) == question \in questions /\ verdict = Raised

Answer(op, value) == /\ question.op = op /\ verdict' = value
                     /\ question' = [op |-> "answered", of |-> question]

EvaluatesRun == question.op = "run" /\ Answer("run", EvaluateRun(question))
BuildsManifest == question.op = "manifest" /\ Answer("manifest", DatasetManifest(question.cases))
Calibrates == question.op = "threshold" /\ Answer("threshold", CalibrateThreshold(question))
Ranks == question.op = "ranking" /\ Answer("ranking", RankingMetrics(question))

EvaluationNext == EvaluatesRun \/ BuildsManifest \/ Calibrates \/ Ranks

EvaluationSpec == EvaluationInit(Question) /\ [][EvaluationNext]_evaluationVars

Answered(op) == question.op = "answered" /\ question.of.op = op

\* A figure that is published is of samples the detector was not built on, each
\* counted once: of the split the run is for, with no twin in another split,
\* their labels known where the split must have them, and nobody's own for
\* blind samples. A dataset's digest says what it holds, whatever the order.
EvaluatedApart ==
    /\ Answered("run") /\ ~ verdict.error =>
         LET q == question.of
             used == {e \in Range(q.corpus) : \E i \in DOMAIN q.cases : q.cases[i].sample = e.sample}
         IN  /\ Support(verdict.matrix) = Cardinality(used)
             /\ \A e \in used : /\ e.split = q.split
                                /\ e.split \in {"holdout", "blind"} => e.known
                                /\ e.split = "blind" => q.independent
             /\ \A e \in used, f \in Range(q.corpus) :
                    f.content = e.content => f.split = e.split
    /\ Answered("manifest") =>
         \A p \in {o \in [DOMAIN question.of.cases -> DOMAIN question.of.cases] : Distinct(o)} :
             DatasetManifest([i \in DOMAIN p |-> question.of.cases[p[i]]]) = verdict

\* The threshold chosen among the scores is as good as any from zero to one, at
\* a score or between two, and keeps to the limit of false positives; a call that
\* may be asked is refused only if no threshold from zero to one keeps to it.
\* (One above one is not considered, though scores are not clipped: it would keep to a
\* limit that a negative scored one or more breaks.)
ChosenIsBest ==
    LET q == question.of  c == Scored(q.cases)
    IN  Answered("threshold") /\ Askable(q) =>
            /\ verdict.error => \A t \in 0..Full : ~ Feasible(q, c, t)
            /\ ~ verdict.error =>
                   /\ verdict.threshold \in 0..Full /\ Feasible(q, c, verdict.threshold)
                   /\ \A t \in 0..Full : Feasible(q, c, t) =>
                          Value(q, c, verdict.threshold) >= Value(q, c, t)

\* If no two scores are equal, the area reported is the share of pairs ranked
\* rightly (ranking_metrics: "Compute AUROC/AUPRC from detector scores").
AreaIsShare ==
    LET c == Scored(question.of.cases)
    IN  Answered("ranking") /\ verdict.defined
        /\ (\A i, k \in DOMAIN c : c[i].score = c[k].score => i = k) =>
            verdict.area = 2 * Cardinality({p \in (DOMAIN c) \X (DOMAIN c) :
                c[p[1]].expected /\ ~ c[p[2]].expected /\ c[p[1]].score > c[p[2]].score})

\* The figures an evaluation reports are those they are taken for.
ThresholdIsBest == ChosenIsBest /\ AreaIsShare
================================================================================
