------------------------------ MODULE MCAnalysis ------------------------------
(***************************************************************************)
(* TLC instance of the detection side, from a request to a verdict and to  *)
(* what analysts make of it, each part by itself: the initial state picks  *)
(* the part that moves, so the state space is the sum of theirs.           *)
(***************************************************************************)
EXTENDS Captures, Telemetry, FadeEngine, DetectionPacks, Alerts, Intake, ApiRequests,
        AnalystWorkflow, Evaluation, Correlation, TLC

\* Two conversations, one of them heard from both ends.
Directions == {<<1, 2>>, <<2, 1>>, <<1, 3>>}

VARIABLES part \* the part that moves

\* What analysts ask: at least one request of each operation, and two values for a column.
Asked ==
  {Asks("detection.workflow", a, [status |-> v], 0) : <<a, v>> \in {<<"ana", "new">>, <<"bob", "triaging">>}}
  \cup {Asks("detection.workflow", "ana", [assignee |-> "none", priority |-> 90], 0)}
  \cup {Asks("detection.disposition", "bob", [reason |-> r], 0) : r \in {"needs_tuning", "benign"}}
  \cup {Asks("detection.disposition", "ana", [reason |-> "benign"], 1)}
  \cup {Asks("detection.feedback", "ana", [disposition |-> "true_positive", note |-> "seen"], 0)}
  \cup {Asks("detection.feedback", "bob", [disposition |-> "false_positive"], 0)}
  \cup {Asks("tenant.config.updated", "ana", [value |-> 1], 0)}
  \cup {Asks("case.created", "ana", s, 0) : s \in {<< >>, [owner |-> "bob"]}}
  \cup {Asks("detection.linked", "ana", << >>, 0)}
  \cup {Asks("case.updated", "ana", s, 1) : s \in {[status |-> "closed"], [owner |-> "eve"]}}
  \cup {Asks("case.comment", "bob", << >>, 1)}

intakeVars == <<packetVars, queueVars>>
analysisVars == <<part, captureVars, correlationVars, engineVars, packVars, telemetryVars, apiVars,
                  workflowVars, intakeVars, alertVars, evaluationVars>>

(* Three events, each at one of four times, near or far by the window, and   *)
(* with a full, a good or an invalid score; they arrive in order, reversed,  *)
(* repeated or not at all, or repeated with another time and domain.  And    *)
(* four of two domains, with the best scores, so that the nearest to one is  *)
(* not always nearest to it.                                                 *)
Event == {FromEvent(e, at, tenant, domain, score, 1000, 0) :
             e \in 1..3, at \in {0, 2, 3, 4}, tenant \in Tenant, domain \in Domain,
             score \in {1000, 640}}
Arrivals == {<<1, 2, 3>>, <<3, 1, 3, 2>>}
Observed ==
    {[i \in DOMAIN a |-> <<x, y, z>>[a[i]]] : a \in Arrivals,
        x \in {o \in Event : o.id = 1 /\ o.tenant = (CHOOSE t \in Tenant : TRUE) /\ o.at # 3},
        y \in {o \in Event : o.id = 2 /\ o.tenant = (CHOOSE t \in Tenant : TRUE) /\ o.at # 3},
        z \in {o \in Event : o.id = 3}}
    \cup {[i \in 1..4 |-> FromEvent(i, at[i], CHOOSE t \in Tenant : TRUE, of[i], 1000, 1000, 0)] :
             at \in [1..4 -> 0..2], of \in [1..4 -> Domain \ {CHOOSE d \in Domain : TRUE}]}
    \cup {<<x, y, [x EXCEPT !.at = at, !.domain = y.domain]>> :
             x \in {o \in Event : o.id = 1 /\ o.at = 2}, y \in {o \in Event : o.id = 2}, at \in {0, 3}}
    \cup {<<>>} \cup {<<[(CHOOSE o \in Event : TRUE) EXCEPT !.confidence = c]>> : c \in {-1, 500, 1001}}
Demand == {{}, {CHOOSE d \in Domain : TRUE}, Domain}

(* Every signal of twelve intervals, and longer ones of at most three runs,  *)
(* some with more cuts than are tried.                                       *)
ThreeRuns(a, b, c) == [i \in 1..(a + b + c) |-> IF i > a /\ i <= a + b THEN 0 ELSE 1]
Signals == [1..12 -> {0, 1}]
           \cup {ThreeRuns(a, b, c) : a \in {0, 4, 10, 20}, b \in {1, 4, 10, 20}, c \in {0, 1, 10}}
           \cup {ThreeRuns(1, 103, 0), ThreeRuns(52, 1, 52), ThreeRuns(0, 104, 1)}
           \cup {ThreeRuns(a, 40 - a, 0) : a \in 4..20}

(* Up to five packets, close, apart, or stamped before the first one.        *)
Capture == UNION {[1..n -> {0, 1, 3, 6, 9}] : n \in 0..4}
           \cup {<<0, 1, 3, 6, 9>>, <<9, 6, 3, 1, 0>>, <<0, 0, 0, 0, 0>>, <<0, 6, 9, 11>>, <<11, 9, 6, 0>>}

(* Up to three records, their texts in the order of their instants or not,   *)
(* and at most one of them unusable in any way.                              *)
Record == {[text |-> x, time |-> "given", instant |-> i, read |-> "given", reading |-> v] :
              x \in 1..2, i \in 1..2, v \in {-130, -90, -60, 0, 40}}
Flawed == {[text |-> x, time |-> t, instant |-> x, read |-> r, reading |-> 5] :
              x \in {0, 2}, t \in {"given", "absent", "malformed"},
              r \in {"given", "absent", "text", "null"}}
Feeds == {<<>>} \cup {<<r>> : r \in Record} \cup (Record \X Record) \cup (Record \X Flawed)
         \cup {<<r, f, q>> : r \in {o \in Record : o.text = 1}, f \in Flawed,
                             q \in {o \in Record : o.text = 2 /\ o.instant = 2}}

(* Corpora of three entries; a run over some of their samples, of which the  *)
(* first may be asked twice.  Datasets, and scores inside and outside [0,1]. *)
Corpora ==
    {[i \in 1..3 |-> [sample |-> ids[i], content |-> of[i], split |-> in[i], known |-> i # vague,
                      sound |-> i # flawed]] :
        ids \in {<<1, 2, 3>>, <<1, 2, 1>>}, of \in [1..3 -> 1..2],
        in \in [1..3 -> {"tuning", "holdout", "blind"}], vague \in {0, 1, 3}, flawed \in {0, 2}}
Evaluated == {[i \in DOMAIN ids |-> [sample |-> ids[i], expected |-> ids[i] # 2, detected |-> i # 2]] :
                 ids \in {<<>>, <<1>>, <<1, 1>>, <<1, 3>>, <<1, 2, 3>>}}
Datasets == UNION {[1..n -> [id : 1..3, source : 1..2, split : {"train", "test"}, group : 0..1,
                             sound : {TRUE}]] : n \in 0..3}
            \cup {<<[id |-> 1, source |-> 1, split |-> "test", group |-> 0, sound |-> FALSE]>>}
ScoredCases == UNION {[1..n -> [expected : BOOLEAN, score : {Unscored, -1, 0, 2, 4, 5}]] : n \in 0..3}
               \cup [1..4 -> [expected : BOOLEAN, score : {0, 2, 3, 4}]]
Questions ==
    [op : {"run"}, corpus : Corpora, split : {"tuning", "holdout", "blind"}, independent : BOOLEAN,
     cases : Evaluated]
    \cup [op : {"manifest"}, cases : Datasets]
    \cup [op : {"threshold"}, cases : ScoredCases, objective : {"youden", "constrained_recall"},
           limit : {NoLimit} \cup 0..2]
    \cup [op : {"threshold"}, cases : {s \in ScoredCases : Len(s) < 3}, limit : {NoLimit, -1, 1, 3},
           objective : {"youden", "constrained_recall", "accuracy"}]
    \cup [op : {"ranking"}, cases : ScoredCases]

Of(name, inputs, none) == IF part = name THEN inputs ELSE none

Init == /\ part \in {"captures", "correlation", "engine", "packs", "telemetry", "api", "workflow", "packets", "queue", "alerts",
                    "judging"}
        /\ CaptureInit(Of("captures", Capture, {<<>>}))
        /\ part # "captures" => task = "api"
        /\ CorrelationInit(Of("correlation", Observed, {<<>>}), Of("correlation", Demand, {{}}))
        /\ EngineInit(Of("engine", Signals, {<<>>}))
        /\ part # "engine" => timed /\ ~ml.available
        /\ PacksInit
        /\ TelemetryInit(Of("telemetry", Feeds, {<<>>}))
        /\ part # "telemetry" => kind = "ais"
        /\ ApiInit
        /\ part # "api" => ~shared /\ ~production
        /\ WorkflowInit
        /\ IntakeInit
        /\ AlertInit
        /\ EvaluationInit(Of("judging", Question, {[op |-> "none"]}))

CapturesMove == /\ part = "captures" /\ CaptureNext
                /\ UNCHANGED <<part, correlationVars, engineVars, packVars, telemetryVars, apiVars, workflowVars, intakeVars, alertVars, evaluationVars>>
CorrelationMoves == /\ part = "correlation" /\ CallCorrelate
                    /\ UNCHANGED <<part, captureVars, engineVars, packVars, telemetryVars, apiVars, workflowVars, intakeVars, alertVars, evaluationVars>>
EngineMoves == /\ part = "engine" /\ Detect
               /\ UNCHANGED <<part, captureVars, correlationVars, packVars, telemetryVars, apiVars, workflowVars, intakeVars, alertVars, evaluationVars>>
PacksMove == /\ part = "packs" /\ PacksNext /\ FewHeld
             /\ UNCHANGED <<part, captureVars, correlationVars, engineVars, telemetryVars, apiVars, workflowVars, intakeVars, alertVars, evaluationVars>>
TelemetryMoves == /\ part = "telemetry" /\ TelemetryNext
                  /\ UNCHANGED <<part, captureVars, correlationVars, engineVars, packVars, apiVars, workflowVars, intakeVars, alertVars, evaluationVars>>
ApiMoves == /\ part = "api" /\ ApiNext
            /\ UNCHANGED <<part, captureVars, correlationVars, engineVars, packVars, telemetryVars, workflowVars, intakeVars, alertVars, evaluationVars>>
WorkflowMoves == /\ part = "workflow" /\ WorkflowNext
                 /\ UNCHANGED <<part, captureVars, correlationVars, engineVars, packVars, telemetryVars, apiVars, intakeVars, alertVars, evaluationVars>>
IntakeMoves == /\ \/ part = "packets" /\ PacketNext
                  \/ part = "queue" /\ QueueNext
               /\ UNCHANGED <<part, captureVars, correlationVars, engineVars, packVars, telemetryVars,
                              apiVars, workflowVars, alertVars, evaluationVars>>
AlertMoves == /\ part = "alerts" /\ AlertNext
              /\ UNCHANGED <<part, captureVars, correlationVars, engineVars, packVars, telemetryVars,
                             apiVars, workflowVars, intakeVars, evaluationVars>>
JudgingMoves == /\ part = "judging" /\ EvaluationNext
                /\ UNCHANGED <<part, captureVars, correlationVars, engineVars, packVars, telemetryVars,
                               apiVars, workflowVars, intakeVars, alertVars>>

Next == \/ CapturesMove \/ CorrelationMoves \/ EngineMoves \/ PacksMove \/ TelemetryMoves
        \/ ApiMoves \/ WorkflowMoves \/ IntakeMoves \/ AlertMoves \/ JudgingMoves

Spec == Init /\ [][Next]_analysisVars

\* Calls and threads are interchangeable.
Symmetry == Permutations(Call)
===============================================================================
