------------------------------ MODULE PcapWorker ------------------------------
(***************************************************************************)
(* process_pcap_stream of core/pcap_stream_processor.py: a capture is      *)
(* parsed by a process of its own, with limits of the operating system,    *)
(* that hands its result back through a queue.  The caller waits for the   *)
(* process, not for the result, and not for long.                          *)
(*                                                                         *)
(* Nothing is assumed of the worker: a capture may keep it busy for ever.  *)
(* A result is a few numbers and fits the pipe, so putting never waits.    *)
(***************************************************************************)
VARIABLES
  caller,  \* where the call stands
  worker,  \* where its process stands; what it parsed once it has
  pipe,    \* what the queue holds
  answer   \* how the last call ended

workerVars == <<caller, worker, pipe, answer>>

Outcome == {"payload", "error"}
Alive == worker \notin {"none", "dead"}

WorkerInit == caller = "idle" /\ worker = "none" /\ pipe = "empty" /\ answer = "none"

\* A call with good arguments; every call has a process and a queue of its own.
Starts == /\ caller = "idle" /\ ~ Alive
          /\ caller' = "joining" /\ worker' = "parsing" /\ pipe' = "empty"
          /\ UNCHANGED answer

-----------------------------------------------------------------------------
\* _sandbox_worker: a result, or any exception, also one for want of memory.
Parses == /\ worker = "parsing"
          /\ worker' \in Outcome
          /\ UNCHANGED <<caller, pipe, answer>>

Puts == /\ worker \in Outcome
        /\ pipe' = worker /\ worker' = "exiting"
        /\ UNCHANGED <<caller, answer>>

\* It has ended, exceeded its processor time, been killed, or could put neither.
Dies == /\ Alive
        /\ worker' = "dead"
        /\ UNCHANGED <<caller, pipe, answer>>

-----------------------------------------------------------------------------
Joins == /\ caller = "joining" /\ ~ Alive
         /\ caller' = "reading"
         /\ UNCHANGED <<worker, pipe, answer>>

\* The join times out; the worker may end before it is looked at again.
TimesOut == /\ caller = "joining"
            /\ caller' = "late"
            /\ UNCHANGED <<worker, pipe, answer>>

\* Mutant: the caller gives up without ending the worker.
KillsNothing == /\ caller = "late"
                /\ IF Alive THEN caller' = "burying" ELSE caller' = "reading"
                /\ UNCHANGED <<worker, pipe, answer>>

Kills == /\ caller = "late"
         /\ IF Alive THEN worker' = "killed" /\ caller' = "burying"
                     ELSE caller' = "reading" /\ UNCHANGED worker
         /\ UNCHANGED <<pipe, answer>>

Ends(how) == caller' = "idle" /\ answer' = how /\ UNCHANGED <<worker, pipe>>

\* The worker is dead, or five seconds have passed: TimeoutError, whatever is in the queue.
Buries == caller = "burying" /\ Ends("timeout")

Reads == /\ caller = "reading"
         /\ CASE pipe = "empty" -> Ends("no result")
              [] pipe = "error" -> Ends("rejected")
              [] OTHER -> Ends("payload")

WorkerNext == Starts \/ Parses \/ Puts \/ Dies \/ Joins \/ TimesOut \/ Kills \/ Buries \/ Reads

\* The caller goes on, its timer expires, and a killed process ends.
WorkerFairness == /\ WF_workerVars(TimesOut \/ Kills \/ Buries \/ Reads)
                  /\ WF_workerVars(worker = "killed" /\ Dies)

-----------------------------------------------------------------------------
(***************************************************************************)
(* A call ends, with an answer, and after it its worker: no capture keeps  *)
(* the caller waiting or leaves a process behind, though nothing is known  *)
(* of the worker but that it can be killed.                                *)
(***************************************************************************)
CallEnds == caller # "idle" ~> caller = "idle" /\ ~ Alive
==============================================================================
