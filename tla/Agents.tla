-------------------------------- MODULE Agents --------------------------------
(***************************************************************************)
(* agents/multi_agent.py and agents/endpoint_agent.py: scans that sample   *)
(* the host for a while and then have their samples judged.  A coordinator *)
(* runs scans in threads, all at once or one by one, and collects their    *)
(* results; the endpoint agent is a scan that exports its result.          *)
(***************************************************************************)
EXTENDS Integers, Sequences, FiniteSets

CONSTANTS
  Agent,        \* agents added to the coordinator
  Lone,         \* endpoint agents run by themselves
  Duration,     \* duration_sec of every scan
  Interval,     \* interval_sec
  MinSamples,   \* 12
  MaxRuns       \* bound on the calls of run_all

VARIABLES
  coordinator,  \* where run_all stands: idle, or starting the scans in parallel or not
  pending,      \* agents not started yet by this run_all
  scans,        \* every scan: where it stands, seconds gone, samples taken
  results,      \* self.results, detected or not, which run_all does not clear
  runs,         \* run_all calls so far
  file          \* the last export: the agent it is of, "" if none

agentVars == <<coordinator, pending, scans, results, runs, file>>

Idle == [at |-> "idle", elapsed |-> 0, samples |-> 0]

AgentInit == /\ coordinator = "idle" /\ pending = {}
             /\ scans = [a \in Agent \cup Lone |-> Idle]
             /\ results = << >>
             /\ runs = 0
             /\ file = ""

-----------------------------------------------------------------------------
Running(a) == scans[a].at # "idle"
Goes(a, at) == scans' = [scans EXCEPT ![a].at = at]

\* run_all(parallel)
RunsAll(how) == /\ coordinator = "idle" /\ runs < MaxRuns
                /\ coordinator' = how /\ pending' = Agent /\ runs' = runs + 1
                /\ UNCHANGED <<scans, results, file>>

\* Another coordinator, by another start of the program.
StartsAnew == /\ coordinator = "idle" /\ runs > 0
              /\ results' = << >> /\ runs' = 0
              /\ UNCHANGED <<coordinator, pending, scans, file>>

\* One thread each, or one scan after the other.
MayStart(a) == a \in pending /\ (coordinator = "sequential" => \A b \in Agent : ~ Running(b))

Starts(a) == /\ MayStart(a)
             /\ pending' = pending \ {a}
             /\ Goes(a, "sampling")
             /\ UNCHANGED <<coordinator, results, runs, file>>

\* endpoint_agent.main
StartsAlone(a) == /\ a \in Lone /\ ~ Running(a)
                  /\ Goes(a, "sampling")
                  /\ UNCHANGED <<coordinator, pending, results, runs, file>>

\* collect_*_signals: a count that fails is 1; counting and sleeping take their time.
Samples(a) == /\ scans[a].at = "sampling" /\ scans[a].elapsed < Duration
              /\ \E counting \in 0..1 :
                   scans' = [scans EXCEPT ![a] = [@ EXCEPT !.elapsed = @ + Interval + counting,
                                                           !.samples = @ + 1]]
              /\ UNCHANGED <<coordinator, pending, results, runs, file>>

\* Too few samples: nothing is reported.
Collected(a) == /\ scans[a].at = "sampling" /\ scans[a].elapsed >= Duration
                /\ IF scans[a].samples < MinSamples THEN scans' = [scans EXCEPT ![a] = Idle]
                                                    ELSE Goes(a, "judging")
                /\ UNCHANGED <<coordinator, pending, results, runs, file>>

\* detect_fade and match_mitre_ttp; the result is appended under the lock.
Reports(a, detected) ==
  /\ a \in Agent /\ scans[a].at = "judging"
  /\ results' = Append(results, detected)
  /\ scans' = [scans EXCEPT ![a] = Idle]
  /\ UNCHANGED <<coordinator, pending, runs, file>>

\* An exception is printed by the coordinator, and ends an endpoint agent.
Fails(a) == /\ Running(a)
            /\ scans' = [scans EXCEPT ![a] = Idle]
            /\ UNCHANGED <<coordinator, pending, results, runs, file>>

\* main exports what is detected, if asked to and in a format the exporter has.
\* The file is named by the second, not by its source.
Exports(a, exports) ==
  /\ a \in Lone /\ scans[a].at = "judging"
  /\ file' = IF exports THEN a ELSE file
  /\ scans' = [scans EXCEPT ![a] = Idle]
  /\ UNCHANGED <<coordinator, pending, results, runs>>

\* Every thread joined.
RunEnds == /\ coordinator # "idle" /\ pending = {}
           /\ \A a \in Agent : ~ Running(a)
           /\ coordinator' = "idle"
           /\ UNCHANGED <<pending, scans, results, runs, file>>

ScanNext(a) == Samples(a) \/ Collected(a) \/ Fails(a)
CoordinatorNext == \/ \E how \in {"parallel", "sequential"} : RunsAll(how)
                   \/ StartsAnew
                   \/ \E a \in Agent : Starts(a) \/ ScanNext(a)
                   \/ \E a \in Agent, detected \in BOOLEAN : Reports(a, detected)
                   \/ RunEnds
LoneNext == \E a \in Lone : \/ StartsAlone(a) \/ ScanNext(a)
                            \/ \E exports \in BOOLEAN : Exports(a, exports)

\* Threads are scheduled, a count takes at most its timeout, and detect_fade ends.
AgentFairness ==
  /\ WF_agentVars(RunEnds \/ \E a \in Agent : Starts(a))
  /\ \A a \in Agent : WF_agentVars(Samples(a) \/ Collected(a) \/ \E x \in BOOLEAN : Reports(a, x))

-----------------------------------------------------------------------------
\* aggregate_report
Detections == {k \in DOMAIN results : results[k]}
Report == [total_agents |-> Len(results), detections |-> Cardinality(Detections)]

(***************************************************************************)
(* run_all returns, whatever its scans come to, and leaves none of them    *)
(* running, so that aggregate_report misses no result still to come; it    *)
(* never counts two results of one agent and one call of run_all.          *)
(***************************************************************************)
RunReturns ==
  /\ coordinator # "idle" ~> coordinator = "idle"
  /\ [](coordinator = "idle" => \A a \in Agent : ~ Running(a))
  /\ [](Report.total_agents <= runs * Cardinality(Agent))
==============================================================================
