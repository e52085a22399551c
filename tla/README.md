# ThreatFade: TLA+ models and proofs

This directory holds TLA+ specifications of ThreatFade, the TLC configurations that model-check
them on small instances, and proofs that TLAPS checks for every value of the constants.
`PROJECT.json` lists the components, the runs, which lines of the source every definition stands
for, a mutant per property, the hazards the properties are aimed at, what the runs found, and
the theorems.

    tlc -workers 2 -config SensorQueue.cfg MCSensorQueue     # a run
    tlapm SensorQueue_proofs.tla                             # proofs of a module

## 1. Inventory

ThreatFade is a Python program that scores network flows for covert behaviour. Around the
scoring functions are sensors that queue and ship events, a control plane that receives them,
and a multi-tenant workspace over a database. State, concurrency and failure live in the parts
around the scoring; the scoring itself is windows, ladders and sorts over series of numbers.

| Component | State it keeps | Operations | Properties that make it correct | Modules |
|---|---|---|---|---|
| Durable sensor queue (`agents/durable_queue.py`) | SQLite table of events, trigger-kept counters, AUTOINCREMENT mark | `enqueue`, `peek`, `acknowledge`, `replay`, `_evict_expired` | nothing unsent and unexpired is dropped; FIFO; bounds | `SensorQueue` |
| Edge runtime (`agents/edge_runtime.py`, `agents/sensor_runtime.py`) | runtime object, replay thread, stop event, counters | construct, `ingest`, `start`, `stop`, `_run` | keeps a sensor's promises; drains; halts; only active sensors emit; counts what it drops | `Forwarding`, `EdgeRuntime`, `Intake` |
| Sensor registry and fleet (`core/data_plane.py`, `agents/fleet.py`) | identity -> tenant, fingerprint, state | register, activate, transition, enroll, drain, revoke | gates the runtime | `SensorRegistry` |
| Sources (`agents/live_capture.py`, `detection_pipeline.py`, `sensor.py`; bounded queue of `core/data_plane.py`) | windows per flow, a bounded queue and its counters | capture, `ingest`, emit, put, get | nothing seen twice, lost uncounted or out of order | `Intake` |
| Agents (`agents/multi_agent.py`, `endpoint_agent.py`) | threads, samples, results, an export file | `run_all`, a scan, `aggregate_report` | every scan ends and is reported | `Agents` |
| Offline queue (`core/offline_transport.py`) | SQLite tables `events`, `queue_meta` | `enqueue`, `_evict`, `expire`, `peek`, `acknowledge` | numbers name one event; eviction order; bounds | `OfflineQueue`, `OfflinePolicy` |
| Bandwidth-adaptive transmitter (same file) | tokens, time of last refill | `allowance`, `select` | the rate; selections are runs of records | `Transmitter` |
| Transport batches, replay ledger (`core/transport_batch.py`, `core/transport_protocol.py`) | tables `replay_batches`, `replay_cursors` | sign, verify, `accept` | cursor, no holes, idempotence, nothing lost | `ReplayLedger`, `OfflineTransport` |
| Circuit breaker (`core/reliability.py`) | state, failures, opening time, probes | `state`, `allow`, `success`, `failure`, `call` | state follows failures; probes accounted for; recovers | `CircuitBreaker` |
| Integration delivery (`core/integrations.py`) | delivered keys, audit, dead letters | `deliver` | nothing vanishes; attempts are finite | `IntegrationDelivery` |
| Alert deduplication, notifications (`core/alert_dedup.py`, `alerts/`) | bounded cache with a window | `is_duplicate`, `dispatch`, providers | suppressed only after an alert; returned only if sent | `Alerts` |
| Environment profiles (`core/environment_profile*.py`) | versions with a status; audit table | put, activate, rollback | one active version; versions unchanged and contiguous | `ProfileStore`, `ProfileStorage` |
| Workspaces (`core/identity.py`, `core/enterprise.py`) | invitations, memberships, roles | invite, accept, revoke, change role, remove | members were invited; admins are the owner's choice; an invitation is used once | `Workspace` |
| Sessions and admission (the same, `core/enterprise_routes.py`) | accounts, sessions | register, revoke, revoke all, switch; the checks before a call | who is let in was entitled to it | `AuthSessions` |
| Analyst workflow, cases (`core/analyst.py`, `core/enterprise_routes.py`) | workflow rows, dispositions, cases, links, comments, events, settings | get-or-create, update, append | events explain rows | `AnalystWorkflow` |
| HTTP API (`api.py`, `core/api_security.py`) | limiter row or deque, export file, stored detections | limiter, detect routes | the limiter limits; a good request is answered | `ApiRequests`, `Captures` |
| Detection packs (`core/detection_pack*.py`) | identities in a lifecycle | identity, transition, rollback | only what was validated is deployed | `DetectionPacks` |
| Packet files (`core/pcap_*_processor.py`, `pcap_to_threatfade.py`) | chunks, a worker process and its pipe | stream, parallel, sessions; parse in a process | every packet counted once; changes seen whole; every call ends | `Captures`, `PcapWorker` |
| Satellite feed, live monitor (`satellite/`, `core/live_monitor.py`) | none; bins | parse, simulate; bin | the signal is the feed's | `Telemetry`, `Sorting`, `Captures` |
| Detection algorithms (`core/fade_engine.py`, `detection_science.py`, `mitre/rule_parser.py`, `correlation.py`, `flow_features.py`, `explainability.py`) | none | scoring, mapping, grouping | a fade is found where it starts; one technique; order of arrival does not matter | `FadeEngine`, `Correlation`, `Sorting`, `Captures` |
| Evaluation (`core/corpus.py`, `evaluation*.py`, `thresholds.py`) | none | governed runs, thresholds, ranking | measured on other data; the best threshold | `Evaluation`, `Sorting` |
| Signing keys, trust store, evidence, audit chain, observability, dashboard, tools | keys, hash chain, metrics | | | not modelled (section 6) |

How they interact:

- The capture thread calls `EdgeSensorRuntime.ingest`, which puts the packet into the window of its
  flow, has a full window judged, and enqueues; the runtime's own thread calls
  `DurableSensorQueue.replay`, which calls a sender supplied by the owner *without* the queue's
  lock. The registry, in the same process, is asked once, when the runtime is built.
- The offline transport is a second path: `DurableEventQueue.peek` -> `BandwidthAwareTransmitter.select`
  -> `sign_batch` -> a network -> `verify_and_accept_batch` -> `DurableReplayLedger.accept`,
  and an acknowledgement back. The repository has the parts and their documentation, not the
  loop that calls them.
- A request to the server passes the rate limiter, then session, account and membership, each a
  transaction of its own, then reads and commits in another. Storage functions each open one
  transaction; two of them in different threads or processes meet only in the database.
- The circuit breaker, the integration transport and the in-process limiter are objects that
  threads share. A capture is parsed by a process of its own; scans run in threads of a coordinator.

What is hard about it: replays, evictions and crashes that interleave on one table; lost,
repeated and reordered messages with restarts between any two steps; read-then-write
transactions without locks; a lock that covers half of a decision, or none; retries and timeouts
whose late answers meet a changed state; counters, token buckets, caches and queues at their limits;
windows, bins and sessions at their edges; ladders of overlapping conditions. `PROJECT.json`
lists such places, each with its line and with the properties that watch it.

## 2. The modules

**SensorQueue.** `rows` is the table, `meta` the counters the two triggers keep, `lastSeq`
AUTOINCREMENT's high-water mark. `enqueue`, `peek` and `acknowledge` each run under the lock and
in one transaction, hence one action each. `replay` is a process per caller: it peeks, calls the
sender with the lock released (`pc = "sending"`) and acknowledges; anything may happen in
between, another replay included. The sender is modelled from what `replay` relies on: it may
deliver any prefix of the batch, and return that number, another one, or raise. A crash forgets
the processes and keeps the table. Clock readings may be older than the lock (`LockWait`).

**SensorRegistry, EdgeRuntime, Forwarding.** The registry is one action per method. `EdgeRuntime`
composes it with the queue: `Queue == INSTANCE SensorQueue`, `Registry == INSTANCE SensorRegistry`.
It adds the runtime object, with a sender or without, and the loop thread: `Wait` is one round of
`_run` (the stop event ends the thread, without a sender it waits again, otherwise a replay
begins), `Replay` the steps of that replay. The thread may outlive `stop()`, because the join has
a timeout, and a `start()` that finds it alive does nothing, even if it is about to end: the
history variable `asked` tells such a call (`lost`). A crash loses all but the queue file.
`Forwarding` says what a sensor promises, without a queue, batches, numbers of replays or a loop:
an accepted event waits until it is received or its retention is over, events are received
oldest first, only a sensor that was started sends, and a stopped one goes on at most until it has
halted, from where alone it can be started again. `EdgeRuntime` contains an instance of it with a
refinement mapping: the state of the sensor is read off `up`, `thread` and `stop`, and what waits
is what is in the table and was not delivered.

**Intake.** Two ways a packet takes on a sensor. From `live_capture` into the windows of the
detection pipeline and on to the runtime's queue, of which only the answer matters here
(accepted, refused, raised); and through the reference adapter into the bounded queue, whose
put and counter are two steps with different locks. `stop()` of the capture only clears its flag:
the sniffer ends on its own, and a packet may still come (`Stops`). A packet whose conversion
raises is counted, becomes no event and ends the capture (`Misconverts`).

**Agents.** Every scan is a thread with the seconds gone, the samples taken and an outcome; the
coordinator starts them all, or one by one, joins and reports. The endpoint agent is a scan by
itself with an export.

**OfflineQueue, Transmitter, ReplayLedger, OfflineTransport.** The first three are one class
each, over the policy constants and the clock of `OfflinePolicy`. The eviction is the code's loop, which deletes the row that
goes first among those left until the event fits (`Evicts`); among rows of equal priority and time
it may take any, so that `Evictions` is the set of its outcomes; `select` is a recursive function over the
records' turns. `OfflineTransport` extends the three, so that each of its actions is an action of a
part together with what the others keep. It is about one sensor with a sender (`pending`, `toAck`), a
network that keeps every batch ever sent (`sent`: loss is not delivering, repetition and reordering
are free), one answer under way, and crashes. A signature is abstracted to authenticity: a batch the
network delivers is one that was sent.

**CircuitBreaker.** Each thread is idle, asking (between the two locks of `allow`) or running
(inside `fn`, no lock). Only comparisons of the failure count with the threshold and of the
elapsed time with the timeout matter, so both saturate there.

**IntegrationDelivery.** Each `deliver` is a process between its look-up of the idempotency key
and its return. The destination is external: when no usable answer arrives it may or may not
have taken the event, and 409 comes only for an event it has. The Retry-After of an answer is one
that can be slept, for however long, or one that makes `sleep` raise out of `deliver`
(`SleepRaises`), and the last answer's is used again when a later attempt gets none.

**Alerts.** A result passes the deduplication and then `dispatch`; the repository leaves that
order to the caller. The wall clock is read anew for every entry and may be set back; `clear()`
empties the cache. A provider
is external and may refuse or raise; the loop over the providers is one step each.

**ProfileStore, ProfileStorage.** `ProfileStore` is the in-memory class; `ProfileStorage` the
database functions, with one action per select and one for the commit. Each select sees what is
committed when it runs. The object-relational mapper writes only the attributes that differ from
what was loaded, which matters when the target was loaded as active (`Written`).
`ProfileStorage` contains an instance of `ProfileStore` with a refinement mapping. The version
`profiles` are mapped to is the status a version was created with, `active` is the active row.

**Workspace.** One organization of core/identity.py. A call is what it has read so far (`tx`):
the caller's role (`IsPermitted`, a transaction of its own), then what the second transaction
selects (`InviteReads`, `AcceptReads` and `AcceptLooks`, `ChangeReads`, `RemoveReads`), and
last the commit. Rows are written by primary key, so a call that loaded a membership is told
when that row is deleted (`gone`): its UPDATE then fails, its DELETE does nothing. A user and
its verified email are one value, `viewer` stands for `analyst` as well, `accepted_at` is
counted instead of overwritten so that a second acceptance shows.

**AuthSessions.** One user, its sessions, and requests that carry its valid access token. A
request is the chain of transactions `validate_session`, `ensure_user`, `require_tenant`, and
the call; other requests, an operator who disables the account and members who change the
user's role come between any two. `work` stands for every route behind `require_tenant`. What
was dead, disabled or held when the request came is kept as history.

**AnalystWorkflow.** One detection of a tenant and its cases. A call reads its row, or plans to
insert one, and commits with an entry of `case_events`; only `detection_workflow` has a unique
key, and of a row it found a call writes the columns that differ from what it read. `Columns` are
those a request can give a value, `Payload` is what the event carries of it, which is not always
all: the note of a feedback and the owner a case is created with are in no event
(`Unrecorded`).

**ApiRequests.** One client, the threads that serve it. The limiter is a database row written by
one upsert, or the deque, whose test, drop, count and append are separate steps because nothing
locks it. Then come the checks, the export to one path and the call that stores the result.

**Captures.** A packet is its position in the capture, with a time in half seconds, and a bin, a
session or a chunk is what it holds: whatever is computed from it is a function of that. The
tasks are the bins of the API, of session files and of the live monitor, the sessions and
activity of `flow_features` (a session is told by where the next one begins in the packets laid out
conversation by conversation), the overlapping chunks of a stream and the chunks of parallel workers,
which finish in any order or not at all.

**PcapWorker.** The caller, the worker and the queue between them. Nothing is assumed of the
worker but that it can be killed. **Telemetry.** The parsers of three feeds; a record is the
order of its text, the instant that denotes, and the way it is unusable if it is. **Sorting.** What
`sorted` and `numpy.argsort` give, an element's place being told by counting.

**FadeEngine.** `FadeEngine.detect` with what `detection_science`, the technique mapping and the
explanation do with the result. A signal is on or off in each interval, for which entropy,
deviation and correlation have closed forms; scores are thousandths rounded down. At most
`MaxCandidates` evenly spaced cuts are tried for the change (`Tried`, `CutAt`), 4096 in the code.
**Correlation.** The stateless engine: the first observation of every event, the selection made
around each in the order of time, and each selection reported once. It is compared with a reference
that speaks of sets and not of orders, and that may take for each event any of its reports: which of
several differing reports counts is the one thing that depends on the order of arrival. **DetectionPacks.** Identities are values:
whoever holds one can use it later, so `held` only grows. **Evaluation.** Governed runs, dataset
manifests, threshold choice and ranking, each a function of its arguments; rates are fractions, and
`Askable` is what `calibrate_threshold` lets pass of a request, the limit's range included.

What these may be asked is a constant of the module (`Stored` captures, `Trace`s of the detector,
`Received` feeds, `Offered` observations, `Question`s to the evaluation): a run gives it a finite set, the proofs none but
that its members have the right type. Sums and loops that proofs speak of are recursive functions.

**MCSensorQueue, MCEdgeRuntime, MCOfflineParts, MCOfflineTransport, MCResilience,
MCTransactions, MCAnalysis** extend the components and give the constants their values.
`MCOfflineParts`, `MCResilience`,
`MCTransactions` and `MCAnalysis` put independent components side by side: the initial state picks
the one that moves, so the state space is the sum of theirs and every component is explored by
itself.

Operators introduced as a *mutant* or a *variant* beside a definition are plausible bugs of that
definition. Each property is paired with one in `PROJECT.json`; with it in place of the
definition TLC reports the property violated.

## 3. Runs

| Run | Instance | Shows |
|---|---|---|
| `sensor_queue` | 5 events (three short ones, one that leaves room for a single short one, one longer than the queue), 2 concurrent replays, queue of 3 and batches of 2, 4 numbers, clock 0..2 | `NeverDropsUnsent`, `DeliversInOrder`, `CountBounded` under every interleaving with crashes and evictions |
| `edge_runtime` | 2 events, 1 sensor, 2 tenants, 2 numbers | `KeepsItsPromise` (the runtime implements `Forwarding`); under fairness `Drains` and `Halts` |
| `edge_revoked` (violation) | one tenant | a sensor revoked while its runtime lives goes on emitting |
| `offline_parts` | 2 sensors, 3 events of size 1 and one of 3, queue of 3 events and 4 bytes (so that one enqueue can evict two rows and keep one), numbers to 3, 3 batch ids; bucket with 2 ticks a second so that truncation occurs | `NumberNamesOneRow`, `EvictsLeastImportant`, `RateRespected`, `SelectsARun`, `CursorIsHighest`, `NoInteriorGap` |
| `offline_transport` | 1 sensor, 3 events, 2 batch ids, batches of 2, queue of 4 bytes | `NothingLost` over a faulty network with crashes; it includes that every range the ledger recorded was carried |
| `transport_idempotence` (violation) | the same, one priority | overlapping batches are both accepted whole |
| `resilience` | 3 threads, threshold 2, 2 probes, timeout 2; 2 workers, 1 event, 2 integrations, 2 attempts; a caller and its parsing process; 2 agents and a lone one, scans of 2 s, 2 calls of `run_all` | `ClosedIffHealthy`, `ProbesAreRunning`, `Recovers`; `NothingVanishes`, `Returns`; `EveryCallAnswers` |
| `transactions` | 3 users, 2 invitations, 2 overlapping calls; 2 requests, 1 organization, 1 session, 1 change of membership; 2 sessions, 3 versions, 5 committed transactions | `MembersWereInvited`, `AdminsByOwner`, `OneInvitationEach`; `AdmittedWasLive`; `NotOverwrittenOrSkipped`, `AuditExplainsActive`, `OneAtATimeIsProfileStore` |
| `profile_conflict` (violation) | the same sessions and versions | two active versions |
| `invitation_reuse` (violation) | 2 users, 2 invitations, 2 calls | one invitation accepted twice |
| `analysis` | eleven parts, below | `PacketsBinnedOnce`, `ChunksKeepContinuity`, `ArrivalDoesNotMatter`, `PrimaryIsTop`, `FadeIsLocated`, `DeployedWasValidated`, `SignalFollowsFeed`, `RateBounded`, `EventsExplainRows`, `NothingMiscounted`, `SuppressedHadAlert`, `ReturnedWasSent`, `EvaluatedApart`, `ThresholdIsBest` |
| `detection_stored` (violation) | 1 thread | a well-formed request to a detect route ends in an internal error |

*Bounds.* Every bound is a named constant: `SeqBound`, `TimeBound`, `MaxVersion`, `MaxAudit`,
`MaxInvitations`, `MaxSessions`, `MaxChanges`, `MaxRuns`, `MaxHeld`, `MaxTime`, `MaxAdmitted`,
`MaxCommits`, `MaxSeen`, `MaxEvents`, `MaxClock` and `MaxSends` cap what would grow without limit;
the rest are parameters of the code. They are chosen so that each limit is reached and passed,
the count of events and the sum of bytes separately: more short events than the queue holds, a
payload that (nearly) fills it and one that never fits, retention shorter than the clock, batches
shorter than the queue, a failed batch followed by a restart, a second attempt after which
retries end, three callers so that two probes and a call from an earlier period overlap. Two
actors of a kind are enough wherever the code compares one actor's view with the state another
has changed; the circuit breaker gets three because its probes are limited to two. Symmetry is
used only over values no definition tells apart (replay callers, batch ids, events of equal size
and sensor, users other than the founder, calls, requests and threads) and only in runs without liveness.

The parts of `analysis`: captures of up to 5 packets close, apart or stamped out of order, over
three directions of two conversations, chunks of 2 with an overlap of 1, a gap of 3; feeds of up to three
records with at most one flawed in any way; every on/off signal of 12 intervals (the least the
engine takes) and longer ones of up to three runs, up to 105 intervals, with 21 cuts tried, so that signals of
more than 28 intervals are cut at some places only, as those of more than 4103 are in the code; three observations of two
tenants and three domains at times near and far, also reordered, repeated and repeated with another time
and domain, and four of two domains; two packs with two versions and contents, up to three identities; two threads at a
limiter of 2 requests a window of 2 with three admitted; two analysts with three commits among
fourteen requests that include two values for every column that can be contested; windows of 2
fed by up to four packets of two flows, and a bounded queue of 1 with two producers;
three alert patterns in a cache of 2 with a window of 2 on a clock to 4; corpora of three
entries over three splits, datasets of up to three and scored cases of up to four.

*Deadlock* is checked except where something really ends: once all versions are put as retired
and nobody has a transaction open nothing need happen, an organization whose founder has accepted
a lesser role may have nobody left who can call anything, a call of a pure function returns once
(`analysis`), and elsewhere the bounds end every behaviour (`detection_stored` and
`invitation_reuse`).

*Fairness.* `EdgeRuntime`: weak fairness of the loop's own steps (a live thread is scheduled), and
nothing of the sender, a call of which may never come back. What `Drains` needs beyond that is its
premise: there is a sender, the process lives, the owner's last call was a `start()` that was not
lost, and a sender called again and again acknowledges again and again. `Halts` has as its premise that
the owner leaves the sensor stopped, that nothing more is accepted and that the sender comes
back, by an answer or an exception. `CircuitBreaker`: weak fairness of time and of the
threads' steps, since what they call has a timeout; nobody is assumed to call, which `Recovers`
states as its own premise. `IntegrationDelivery`: weak fairness of the end of a sleep only. A post may
never be over, since its timeout bounds the silence between two bytes of an answer and not the
answer, and `Returns` excepts that case. `PcapWorker`: weak fairness of the caller, whose wait has a timeout,
and of the end of a killed process; none of the worker, which may parse for ever. `Agents`: weak
fairness of the coordinator and of each scan's thread, whose loop is bounded by its duration.

## 4. Where the code and its documentation part

1. `edge_revoked`: docs/GROUP_11_DATA_PLANE.md says only active sensors can emit. The registry
   is asked in `EdgeSensorRuntime.__init__` and never again.
2. `transport_idempotence`: docs/PHASE_2_OFFLINE_EVIDENCE.md promises idempotent ingestion.
   `accept` compares only the last number of a batch with the cursor, so a batch that begins below
   it and ends above it is accepted whole.
3. `profile_conflict`: docs/ENVIRONMENT_PROFILES.md says only one version may be active and
   conflicting active writes are rejected. Nothing in the database enforces it, and two
   transactions that both read before either commits leave two active versions.
4. `invitation_reuse`: docs/PHASE_13_AUTHENTICATED_PLATFORM.md says invitation tokens are
   single-use, and a test asserts it of calls that follow one another. `accept_invitation` looks
   at `accepted_at` without a lock, so two overlapping acceptances both succeed; a member removed
   between their commits would be back. `OneInvitationEach` shows that calls that do not overlap
   keep the promise.
5. `detection_stored`: test_api.py expects 200 from the detect routes. `_build_response`
   calls `save_detection` without five keyword arguments it requires, so every well-formed
   request ends in a TypeError, after its export was written.

Met while modelling, without a run of its own because no document says otherwise or because the
code in question is outside these models. About queues, transport and delivery:

- priority-100 records are evicted for ordinary ones (offline_transport.py:47; `expire` spares
  them), and an event passed over before a sensor's first accepted batch can afterwards only be refused;
- `sensor_runtime.main` builds the runtime without a sender (agents/sensor_runtime.py:36), so that a
  sensor started from the command line queues and never sends; a `start()` soon after a `stop()`
  finds the old thread alive, does nothing, and leaves the sensor without a loop;
- a batch id is looked up without its sensor (transport_protocol.py:50), so ids must be unique
  across sensors; adding a known key to the trust store clears its revocation (89);
- a probe that ends in a BaseException keeps its slot (reliability.py:72). `ProbesAreRunning` and
  `Recovers` exclude that case explicitly through the history variable `escaped`;
- the idempotency key of a delivery does not name the integration (integrations.py:267), so the
  second destination of an event is told `duplicate`; a Retry-After of `inf` or `nan` makes the
  sleep raise out of `deliver` without a record or a dead letter, and a large one is slept in full
  (integrations.py:287);
- a packet whose conversion raises ends the capture (live_capture.py:69);
- `sensor_runtime` runs the capture with its default timeout of one second and no loop, so that
  the sensor ends after a second; the agents added by `add_agent` take 6 samples by default and
  the detector wants 12; `results` of the coordinator are never cleared, and its deduplication is never used;
- the first provider that raises ends `dispatch`, and the results of those before it are lost;
  `is_duplicate` ignores the source, and a wall clock set back stretches its window.

About the workspace:

- `_set_active` refreshes its row after commit (environment_profile_storage.py:229), in a new
  transaction without the tenant context of the row-level policies, so on PostgreSQL the call
  raises although the change is committed; and a target that was loaded as active is not
  written, so that an overlap can also leave no active version; the in-memory store lets a
  retired version be rolled back to, the database does not;
- the owner's role "cannot be reassigned" (identity.py:108) nor its holder removed (117), but an
  invitation to the owner's own address, once accepted, overwrites it (identity.py:93) and
  leaves an organization without an owner, which no later call can appoint;
- an invitation whose loaded role equals the invited one writes no membership, so that it
  reports success even if the member was removed meanwhile (identity.py:93);
- a request need not name a session, so signing out everywhere ends only the requests that do;
  the organization a session was switched to is never consulted;
- feedback and settings have no unique key: overlapping first calls leave two rows, of which later
  calls change one. A feedback without a note overwrites the note of an earlier one with the empty
  string (enterprise_routes.py:73). No event carries a feedback's note, nor the owner a case is
  created with (104). A comment's event says `comment_id` null, the first event of a row priority null;
- the audit chain has its lock and its `previous` lookup inside a comment (core/audit.py:20, its
  line breaks are the two characters `\n`; core/evidence.py:26 has the same), so that the next
  statement reads an unbound name on every call;
- the shared limiter's count starts anew when an upsert for an older window comes late, and the
  deque's when two threads are in it; concurrent requests that export write one path.

About detection and its evaluation:

- `find_fade_start` never looks at the last pair of windows and gives rising signals a start too;
  T1205.001 and an entropy of 6.5 bits are unreachable; the two ladders of techniques disagree when only
  generic ones match, which `PrimaryIsTop` excepts;
- of several differing reports of one event the first to arrive counts (correlation.py:237), so that
  the detections depend on the order of arrival then, and only then; a signal of more than 4103
  intervals is dated to a cut that was tried, which may lie beside the change
  (detection_science.py:121);
- a correlated detection may span two windows, one on each side of its anchor;
- the last second of a session file and live packets stamped before the first one are left out
  (`PacketsBinnedOnce` says exactly which), an overlap of 0 makes the next chunk begin with the
  whole previous one, and `total_packets` counts overlaps again;
- `ranking_metrics` takes points of the curve in the middle of tied scores, so that the area
  depends on their order; `ThresholdIsBest` speaks of distinct scores there. Scores are clipped for
  the candidates but not for the matrix (thresholds.py:58), so that with scores above one a threshold above
  one could be better or the only one within the limit; the code looks from 0 to 1, and so does the property. `evaluate_run` never
  compares the run's corpus identity with the corpus it is given;
- a deprecated pack that was in production can be returned to it by `rollback`.

## 5. Proofs

| Module | Theorems | Inductive invariant |
|---|---|---|
| `SensorQueue_proofs` | `TypeCorrect`, `CountIsBounded`, `NoUnsentEventIsDropped`, `DeliveryIsFIFO` | `IInv`: types; the counter is the cardinality of a finite table within its limit; numbers in the table and in batches are at most `lastSeq`; a batch being sent holds every row still in the table up to its last one; every row an acknowledgement is about to delete was delivered |
| `EdgeRuntime_proofs` | `RuntimeKeepsItsPromise` | `IInv`: that of the queue; a thread or a replay under way means the runtime exists and its thread is alive; what is queued, being sent or delivered was accepted, and numbers accepted are at most `lastSeq` |
| `OfflineTransport_proofs` | `QueueTypeCorrect`, `NumbersAreUnique`, `EvictionIsOrdered`; `LedgerTypeCorrect`, `CursorsAreHighest`, `NothingMissingAfterFirst`; `BucketTypeCorrect`, `TransmissionIsPaced`, `SelectionIsARun`; `NothingIsLost` | `QueueInv`: every number issued is below its sensor's counter, issued numbers name one row. `LedgerInv`: the two properties, and a recorded batch begins no later than it ends. `BucketInv`: types and the rate. `TransportInv`: batch ids stand for one batch of issued rows (`BatchesApart`); the ledger holds only what was sent (`LedgerIsSent`); a successful answer is about a batch the ledger has (`AnswerIsTrue`); what is to be acknowledged has arrived (`AcksAreDue`); every row issued is queued, dropped by policy or arrived |
| `Resilience_proofs` | `StateFollowsFailures`, `ProbesAccounted`; `NoEventVanishes`, `DuplicatesWereTaken` | `BreakerInv`: the two properties, and outside a half-open period there are no probes and none has escaped (`PeriodsApart`). `DeliveryInv`: a waiting call has an attempt left; every recorded key is of an event some destination took (`KeysWereTaken`); `NothingVanishes` |
| `Identity_proofs` | `WorkspaceTypeCorrect`, `MembershipByInvitation`, `OnlyOwnerMakesAdmins`, `InvitationsAreUsedOnce`; `SessionsTypeCorrect`, `AdmissionIsSound` | `WorkspaceInv`: `MembersWereInvited`; only the founder is an owner; invitations to admin are the founder's; what each running call has read entitles it to its commit (`CallInOrder`); while calls follow one another, only one runs and what it has read is still so. `AuthInv`: revoked sessions stay so; what each request's history says is still true, and each check it has passed was passed by something that held |
| `ProfileStorage_proofs` | `ProfilesTypeCorrect`, `AuditIsTheReason`, `VersionsAreKept`, `StorageImplementsStore` | `ProfilesInv`: versions are contiguous and no session is about to leave a hole (`Unbroken`); `AuditExplainsActive`; while transactions follow one another, what the running one has selected is still so (`OneByOne`) |
| `Analysis_proofs` | `NothingDeployedUnvalidated`; `OnlyRepetitionsAreSuppressed`, `ResultsAreDeliveries`; `PacketsAreCounted`; `EventsAreTheHistory`; `LimiterLimits` | `PacksInv`; `AlertInv`: the cache holds when a pattern was last let through and what left it has expired (`DedupInv`), and a provider earlier in the list was served as often as a later one, or once more (`DispatchInv`); `IntakeInv`; `WorkflowInv`: what rows, events and attachments say of one another, that a call's commit was planned from what the table held, and that this is fresh while calls follow one another; `ApiInv`: what each window has let through (`WindowsAreBounded`) and, while one thread at a time is in the deque, what it holds (`DequeInOrder`) |
| `Detection_proofs` | `ContinuityIsKept`, `PacketsAreBinned`; `FiledUnderTheFirst`, `FadesAreFound`; `FiguresAreOfOtherData`, `ThresholdAndAreaAreRight`; `SignalIsTheFeeds`; `DetectionsFollowEvents` | `ChunkInv`: chunks are runs of packets; `BinInv`: an answer is made of the capture that was given; `DropHasRule`, `Judged`, `Faithful`, `FeedInv`, `CorrInv`: an answer is the function's value for its arguments |

They hold for any number of replays, events, sensors, threads, users, requests, sessions, packs,
providers, flows and commits, for captures, signals, feeds, observations, corpora and sets of scored cases of any
size, and for any limits satisfying the named assumptions (`QueueAssumption` and so on), which TLC
evaluates in the runs. One theorem has a hypothesis of its own: `FadesAreFound` is about detection
thresholds up to 0.25, the default being 0.20. Type correctness is proved in these modules and is not
a property of the runs.

Why a strengthening is needed, and the argument where it is longer than the invariant:

- *Sensor queue.* `NeverDropsUnsent` says nothing of batches that are being sent, yet `acknowledge`
  deletes *by number*: that the rows it deletes are those the sender delivered follows only from
  knowing that a batch is closed downwards, that is, that any older row is in it, and that rows
  inserted since have higher numbers (AUTOINCREMENT never reuses one).
- *Edge runtime.* The order of receptions and that nothing unsent and unexpired is given up are what
  `SensorQueue_proofs` proves of the queue, instantiated with the runtime's one replay; that only a
  started sensor sends, and that no step leads from halting back to running, needs that a replay
  under way has a live thread, and that a thread is ended by a set stop event or a crash only.
- *Eviction.* By induction over the rows the loop deletes: the one deleted next goes first among those
  left, hence before all that stay, and before it was deleted the event did not fit.
- *Circuit breaker.* `ClosedIffHealthy` is inductive with types, but `ProbesAreRunning` is not: a
  call that began while the circuit was closed may end in a half-open period, so one must know that
  a period begins with no probe counted and none remembered, which is `PeriodsApart`.
- *Delivery.* `NothingVanishes` is about audit records, one of which is written on the strength of a key alone.
- *Offline transport.* An acknowledgement deletes rows because of an answer to a batch that may have
  been sent before a crash. It is right because the batch carried those rows, numbers name one row for
  ever, and an accepted range is never left by the ledger.
- *Identity.* `AdminsByOwner` is about commits whose authority was checked earlier, against roles that
  may have changed since: `CallInOrder` keeps, for every call under way, the fact that was true when
  it was checked. `AdmittedWasLive` compares what a request was checked against, one transaction at a
  time, with what was true as it came: the comparison survives the steps of others because sessions
  only die (`OnlyDies`), a disabled account is not enabled again, and a membership gained meanwhile
  joins the request's history.
- *Profiles.* A version is chosen in one transaction and inserted in the next; that a hole cannot
  arise follows from versions never being deleted and from what each session has read. The
  refinement maps a step of the storage to a step of the store at its commit only.
- *Limiter.* A window of the shared limiter lets through what its row still grants, and a whole limit
  more for each upsert that came late, which is what starts a window anew. That the deque bounds any
  stretch of a window's length needs to know which of those admitted it still holds: it is sorted, and a
  map from its positions to the history of admissions leaves out only what has expired.
- *Chunks.* The overlap makes each chunk depend on the one before, so that what is fed is first given
  a closed form, a run of packets; that runs of `Overlap + 1` fall into one of them is arithmetic.
- *Bins and sessions.* Each kind of bin gives every packet a number that does not fall as time
  rises (`Binned`), so nothing is counted twice and the numbers outside the answer are the packets
  missed. Sessions are runs of the packets laid out conversation by conversation (`Laid`, `Slotted`):
  the first packet past any instant within a run follows the one before it by no more than `Gap`, and
  where a run ends within a conversation nothing lies in the silence.
- *Technique.* The two ladders ask different questions, and they agree on the first named technique
  only because a drop of 0.6 always matches one rule (`DropHasRule`).
- *Fade.* The difference of the two means, times the deviation, is largest at the change and
  smaller everywhere else; the other parts of the evidence are bounded from below, which together
  makes 0.266 at least, whatever the length. Where not every cut is tried, the one chosen is a
  neighbour of the change among those that are, at most their distance from it.
- *Correlation.* The engine takes, of the candidates around an anchor, the nearest of each domain,
  and a cluster is any set with such an anchor: one must find, among what is near, the foremost of a
  domain (`Foremost`) to see that every selection is a cluster (`SelectionIsCluster`), and that a
  cluster's anchor selects that cluster and no other (`ClusterIsSelection`). A selection met
  again is not reported again, and the first anchor that has it reports it.
- *Threshold and area.* To any threshold from 0 to 1 there is a candidate that flags the same cases,
  and the one chosen is the first of the best in a lexicographic order. Each trapezium of the curve
  adds, twice, the rightly ranked pairs of one more case.
- *Feed.* Places found by counting sort the records, scaling keeps their order, and the simulated
  silence lies below half of the range.

Induction over data is done by the least counterexample (`LeastElement`, from `WFMin` of the
library), since the induction theorems take an operator as a parameter.

*Model-checked only:* the liveness properties (`Drains`, `Halts`, `Recovers`,
`Returns`, `EveryCallAnswers`), since TLAPS has no support for fairness here. The confidence of a detection,
a fold over a set, is in `ArrivalDoesNotMatter` on both sides: that it depends on the set alone is
proved, its value is only evaluated by TLC.

## 6. Not modelled

- *Cryptography and hashes*: a signature or digest is taken to be authentic. The trust store is a
  table of keys whose calls are single statements. Evidence packages and `integrity.py` are hashes over their
  contents. The audit chain cannot be appended to (section 4), so it has no behaviour.
- *Statistics that stay floating point*: spectral periodicity, coefficients of variation, confidence
  intervals, calibration error, `score_calibration.py`, `ml_experiments.py`, `ml_governance.py`; of
  the optional model only the answers it can give. TLA+ has no floating-point numbers, and a model
  over integers would be of another function.
- *Checks of documents that only raise*: manifest fields and version constraints of packs, schema
  and profile validation, endpoint and credential validation of integrations, fields of signal events.
- *Input and output*: payload formats, response formatting, read-only routes, headers, metrics,
  exporters, dashboard, command lines, deployment files, migrations and row-level policies, which a
  database interprets.
- *Without a caller or without state of interest*: `core/cases.py`, the in-memory
  `ReplayProtector`, `retry_call` and the bulkheads, sample data generators.

`PROJECT.json` says the same per component.

## 7. Plan

Done, in this order: sensor queue, registry and edge runtime; offline queue, bucket, ledger and
their composition; circuit breaker and integration delivery; profiles and their refinement;
workspace; sessions; analysts; API and limiter; captures, telemetry, fade engine, correlation,
packs; intake, agents, alerts, the parsing process; evaluation; proofs of the queues, the ledger and
their composition, the breaker, delivery, identity, profiles, packs; then of what was left
of these (the bucket, `NothingLost`, the runtime, profiles), of alerts, intake, analysts and the
limiter, and of the algorithms.

Left, in order of value: the trust store next to the ledger, so that a batch signed with a key
revoked under way can be told from others; `fusionops_api.py`; profile validation.
