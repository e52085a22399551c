----------------------------- MODULE OfflineQueue ----------------------------
(***************************************************************************)
(* The store-and-forward queue of the offline transport: class             *)
(* DurableEventQueue of core/offline_transport.py.                         *)
(*                                                                         *)
(* rows is the SQLite table `events', nextSeq the table queue_meta (one    *)
(* counter per tenant and sensor, created at 1).  Both survive a crash.    *)
(* enqueue is one transaction: it either commits its evictions with the new*)
(* row or rolls everything back.  Time is the wall clock _now().           *)
(***************************************************************************)
EXTENDS OfflinePolicy, FiniteSetsExt

VARIABLES
  rows,          \* table events
  nextSeq,       \* table queue_meta
  issued         \* history: every row ever inserted

store == <<rows, nextSeq, issued>>
queueVars == <<rows, nextSeq, now, issued>>

Row == [id : Event, key : Key, seq : 1..SeqBound, prio : Priority, at : 0..TimeBound]

QueueTypeOK == /\ rows \in SUBSET Row /\ issued \in SUBSET Row
               /\ nextSeq \in [Key -> 1..SeqBound + 1]
               /\ now \in 0..TimeBound

QueueInit == /\ rows = {} /\ issued = {}
             /\ nextSeq = [k \in Key |-> 1]
             /\ now = 0

-----------------------------------------------------------------------------
\* _size
Bytes(S) == MapThenSumSet(LAMBDA x : Size[x.id], S)

\* The negation of _evict's loop condition.
Fits(S, e) == Bytes(S) + Size[e] <= MaxBytes /\ Cardinality(S) < MaxEvents

\* Mutant: ORDER BY inserted_at ASC, priority ASC.
GoesFirstByAge(x, y) == \/ x.at < y.at
                        \/ x.at = y.at /\ x.prio < y.prio

\* ORDER BY priority ASC, inserted_at ASC; ties in any order.
GoesFirst(x, y) == \/ x.prio < y.prio
                   \/ x.prio = y.prio /\ x.at < y.at

\* What is left once the loop has deleted d[1], ..., d[i].
Left(d, i) == rows \ {d[j] : j \in 1..i}

(***************************************************************************)
(* _evict: as long as e does not fit, the row that goes first among those  *)
(* left is deleted; it ends with n rows deleted.  (With no row left the    *)
(* loop raises: Rejected.)                                                 *)
(***************************************************************************)
Evicts(d, n, e) ==
  /\ \A i \in 1..n : /\ ~ Fits(Left(d, i - 1), e)
                     /\ d[i] \in Left(d, i - 1)
                     /\ \A y \in Left(d, i - 1) : ~ GoesFirst(y, d[i])
  /\ Fits(Left(d, n), e)

\* The sets of rows the loop may delete to make room for e.
Evictions(e) ==
  {V \in SUBSET rows : \E n \in 0..Cardinality(V) : \E d \in [1..n -> V] :
                         Evicts(d, n, e) /\ Left(d, n) = rows \ V}

\* Mutant: COALESCE(MAX(sequence_no), 0) + 1 over the table.
HighestPlusOne(k) == 1 + Max({0} \cup {x.seq : x \in {y \in rows : y.key = k}})

\* The sequence number the next event of k gets.
Sequence(k) == nextSeq[k]

(***************************************************************************)
(* enqueue(e, priority=p).  Returning the number of a row already queued,  *)
(* and raising OSError (no free disk space, or an event larger than the    *)
(* queue) with everything rolled back, both leave the store as it was.     *)
(***************************************************************************)
Insert(e, p) ==
  LET k == KeyOf[e]
      new == [id |-> e, key |-> k, seq |-> Sequence(k), prio |-> p, at |-> now]
  IN  /\ \A x \in rows : x.id # e
      /\ Sequence(k) <= SeqBound
      /\ \E V \in Evictions(e) : rows' = (rows \ V) \cup {new}
      /\ nextSeq' = [nextSeq EXCEPT ![k] = Sequence(k) + 1]
      /\ issued' = issued \cup {new}

Rejected(e) == UNCHANGED store

Enqueue == /\ \E e \in Event : Rejected(e) \/ \E p \in Priority : Insert(e, p)
           /\ UNCHANGED now

\* expire(): inserted_at < now - retention AND priority < 100
Overdue(x) == x.at < now - Retention /\ x.prio < Critical

Expire == /\ rows' = {x \in rows : ~ Overdue(x)}
          /\ UNCHANGED <<nextSeq, now, issued>>

\* peek(limit, tenant_id, sensor_id): the lowest numbers of one key.
Peek(k, limit) ==
  LET mine == {x \in rows : x.key = k}
  IN  {x \in mine : Cardinality({y \in mine : y.seq < x.seq}) < limit}

\* acknowledge(): one DELETE per digest, each committed by itself.
AcknowledgeOne(e) == /\ rows' = {x \in rows : x.id # e}
                     /\ UNCHANGED <<nextSeq, now, issued>>

Tick == /\ now < TimeBound
        /\ now' = now + 1
        /\ UNCHANGED store

QueueNext == \/ Enqueue
             \/ Expire
             \/ \E e \in Event : AcknowledgeOne(e)
             \/ Tick

QueueSpec == QueueInit /\ [][QueueNext]_queueVars

-----------------------------------------------------------------------------
(***************************************************************************)
(* docs/PHASE_2_OFFLINE_EVIDENCE.md, "Every queued event receives a        *)
(* monotonic sensor-local sequence number": whatever was evicted, expired  *)
(* or acknowledged in between, a number of a sensor names one event.       *)
(***************************************************************************)
NumberNamesOneRow ==
  \A x, y \in issued : x.key = y.key /\ x.seq = y.seq => x = y

(***************************************************************************)
(* docs/PHASE_2_OFFLINE_EVIDENCE.md: "Eviction is oldest/lowest-priority   *)
(* first".  Taken together, the rows one enqueue deletes are no more       *)
(* important than any row that stays, and of equal importance only if no   *)
(* younger; and no row is given up that could have stayed: one of them     *)
(* with the rows that stayed would have left no room for the new event.    *)
(***************************************************************************)
EvictsLeastImportant ==
  [][LET gone == rows \ rows'
         kept == rows \cap rows'
     IN  \A new \in rows' \ rows :
           /\ \A x \in gone, y \in kept :
                \/ x.prio < y.prio
                \/ x.prio = y.prio /\ x.at <= y.at
           /\ gone # {} => \E x \in gone : ~ Fits(kept \cup {x}, new.id)]_queueVars
==============================================================================
