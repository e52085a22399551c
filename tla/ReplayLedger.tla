----------------------------- MODULE ReplayLedger ----------------------------
(***************************************************************************)
(* The receiver's memory of what it ingested: DurableReplayLedger of       *)
(* core/transport_protocol.py.  batches and cursor are its two tables; both*)
(* are committed by one transaction and survive a crash.  ReplayProtector  *)
(* of core/offline_transport.py gives the same answers from memory.        *)
(***************************************************************************)
EXTENDS OfflinePolicy

VARIABLES
  batches,     \* table replay_batches
  cursor,      \* table replay_cursors; 0: no row
  answer       \* the last request and what accept() returned

ledgerVars == <<batches, cursor, answer>>

Batch == [id : BatchId, key : Key, first : 1..SeqBound, last : 1..SeqBound]
Results == {"duplicate", "replay", "gap", "accepted"}

LedgerTypeOK == /\ batches \in SUBSET Batch
                /\ cursor \in [Key -> 0..SeqBound]
                /\ \/ answer = <<>>
                   \/ answer[1] \in Batch /\ answer[2] \in Results

EmptyLedger == batches = {} /\ cursor = [k \in Key |-> 0] /\ answer = <<>>

-----------------------------------------------------------------------------
\* The batch id is the primary key of replay_batches, whoever sent it.
Known(b) == \E c \in batches : c.id = b.id

\* Mutant: the comparison with the cursor is lost.
NeverBehind(b) == FALSE
Behind(b) == b.last <= cursor[b.key]

\* Mutant: off by one.
LeavesWideGap(b) == cursor[b.key] # 0 /\ b.first > cursor[b.key] + 2
LeavesGap(b) == cursor[b.key] # 0 /\ b.first > cursor[b.key] + 1

Refuse(b, result) == /\ answer' = <<b, result>>
                     /\ UNCHANGED <<batches, cursor>>

Record(b) == /\ batches' = batches \cup {b}
             /\ cursor' = [cursor EXCEPT ![b.key] = b.last]
             /\ answer' = <<b, "accepted">>

\* accept: the tests in the order of the code.
Duplicate(b) == Known(b) /\ Refuse(b, "duplicate")
Replay(b) == ~ Known(b) /\ Behind(b) /\ Refuse(b, "replay")
Gap(b) == ~ Known(b) /\ ~ Behind(b) /\ LeavesGap(b) /\ Refuse(b, "gap")
Accept(b) == ~ Known(b) /\ ~ Behind(b) /\ ~ LeavesGap(b) /\ Record(b)

Request(b) == /\ b.first <= b.last          \* else ValueError
              /\ Duplicate(b) \/ Replay(b) \/ Gap(b) \/ Accept(b)

LedgerNext == \E b \in Batch : Request(b)

LedgerSpec == EmptyLedger /\ [][LedgerNext]_ledgerVars

-----------------------------------------------------------------------------
\* Event number n of sensor k is in an accepted batch.
Ingested(k, n) == \E c \in batches : c.key = k /\ n \in c.first..c.last

(***************************************************************************)
(* The two tables agree: a cursor stands at the highest number accepted for*)
(* its sensor, whatever overlaps and replays came in between.              *)
(***************************************************************************)
CursorIsHighest ==
  /\ \A b \in batches : b.last <= cursor[b.key]
  /\ \A k \in Key : cursor[k] # 0 => \E b \in batches : b.key = k /\ b.last = cursor[k]

(***************************************************************************)
(* docs/PHASE_2_OFFLINE_EVIDENCE.md: a gap is "not silently accepted".     *)
(* From the first number a sensor ever got accepted up to its cursor, every*)
(* number was ingested, however batches overlap or arrive out of order.    *)
(***************************************************************************)
NoInteriorGap ==
  \A b \in batches : \A n \in b.first..cursor[b.key] : Ingested(b.key, n)
==============================================================================
