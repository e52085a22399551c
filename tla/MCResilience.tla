----------------------------- MODULE MCResilience -----------------------------
(***************************************************************************)
(* TLC instance of what stands around detection, each part by itself: the  *)
(* circuit breaker, the integration delivery, the worker for captures and  *)
(* the scans of a host.  The initial state picks the part that moves.      *)
(***************************************************************************)
EXTENDS CircuitBreaker, IntegrationDelivery

CONSTANTS Agent, Lone, Duration, Interval, MinSamples, MaxRuns

VARIABLES part,
          caller, worker, pipe, answer,
          coordinator, pending, scans, results, runs, file

Pcap == INSTANCE PcapWorker
Scans == INSTANCE Agents

workerVars == <<caller, worker, pipe, answer>>
agentVars == <<coordinator, pending, scans, results, runs, file>>
resilienceVars == <<part, breakerVars, deliveryVars, workerVars, agentVars>>

Init == /\ part \in {"breaker", "delivery", "worker", "agents", "lone"}
        /\ BreakerInit /\ DeliveryInit
        /\ Pcap!WorkerInit /\ Scans!AgentInit

BreakerMoves == /\ part = "breaker" /\ BreakerNext
                /\ UNCHANGED <<part, deliveryVars, workerVars, agentVars>>
DeliveryMoves == /\ part = "delivery" /\ DeliveryNext
                 /\ UNCHANGED <<part, breakerVars, workerVars, agentVars>>
WorkerMoves == /\ part = "worker" /\ Pcap!WorkerNext
               /\ UNCHANGED <<part, breakerVars, deliveryVars, agentVars>>
AgentMoves == /\ \/ part = "agents" /\ Scans!CoordinatorNext
                 \/ part = "lone" /\ Scans!LoneNext
              /\ UNCHANGED <<part, breakerVars, deliveryVars, workerVars>>
Next == \/ BreakerMoves \/ DeliveryMoves
        \/ WorkerMoves \/ AgentMoves

Fairness == /\ part = "breaker" => BreakerFairness
            /\ part = "delivery" => DeliveryFairness
            /\ part = "worker" => Pcap!WorkerFairness
            /\ part = "agents" => Scans!AgentFairness

Spec == Init /\ [][Next]_resilienceVars /\ Fairness

(***************************************************************************)
(* Every call that starts helpers returns, and leaves none running: not    *)
(* the worker of a capture, nor the threads of run_all (PcapWorker.CallEnds*)
(* and Agents.RunReturns).                                                 *)
(***************************************************************************)
EveryCallAnswers == Pcap!CallEnds /\ Scans!RunReturns
==============================================================================
