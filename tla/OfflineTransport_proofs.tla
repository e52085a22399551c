----------------------- MODULE OfflineTransport_proofs ------------------------
(***************************************************************************)
(* Proofs about the offline transport: its queue, its token bucket, the    *)
(* receiver's ledger, each by itself, and the three together.  They are for*)
(* any events, keys, priorities, batch ids and policies.                   *)
(***************************************************************************)
EXTENDS OfflineTransport, WellFoundedInduction, SequenceTheorems, TLAPS

-----------------------------------------------------------------------------
(* The queue.                                                              *)

\* What keeps the numbers apart: queue_meta is ahead of every number issued.
MetaAhead == \A x \in issued : x.seq < nextSeq[x.key]

QueueInv == QueueTypeOK /\ NumberNamesOneRow /\ MetaAhead

LEMMA PrioritiesAreIntegers == \A p \in Priority : p \in Int
<1>1. Priority \subseteq 0..100
  BY QueueAssumption DEF QueueAssumption, Critical
<1>2. 0..100 \subseteq Int
  OBVIOUS
<1>. QED  BY <1>1, <1>2

\* What a committed insert does.
LEMMA InsertStep ==
  ASSUME QueueTypeOK, NEW e \in Event, NEW p \in Priority, Insert(e, p)
  PROVE  /\ KeyOf[e] \in Key /\ nextSeq[KeyOf[e]] \in 1..SeqBound
         /\ \E V \in Evictions(e), new \in Row :
              /\ new.key = KeyOf[e] /\ new.seq = nextSeq[KeyOf[e]]
              /\ rows' = (rows \ V) \cup {new}
              /\ issued' = issued \cup {new}
         /\ nextSeq' = [nextSeq EXCEPT ![KeyOf[e]] = nextSeq[KeyOf[e]] + 1]
<1> DEFINE new == [id |-> e, key |-> KeyOf[e], seq |-> nextSeq[KeyOf[e]], prio |-> p, at |-> now]
<1>1. KeyOf[e] \in Key
  BY QueueAssumption DEF QueueAssumption
<1>2. nextSeq[KeyOf[e]] \in 1..SeqBound
  BY <1>1, QueueAssumption DEF Insert, Sequence, QueueTypeOK, QueueAssumption
<1>3. new \in Row
  BY <1>1, <1>2 DEF QueueTypeOK, Row
<1>4. PICK V \in Evictions(e) : rows' = (rows \ V) \cup {new}
  BY DEF Insert, Sequence
<1>5. issued' = issued \cup {new} /\ nextSeq' = [nextSeq EXCEPT ![KeyOf[e]] = nextSeq[KeyOf[e]] + 1]
  BY DEF Insert, Sequence
<1>6. new.key = KeyOf[e] /\ new.seq = nextSeq[KeyOf[e]]
  OBVIOUS
<1> HIDE DEF new
<1>. QED  BY <1>1, <1>2, <1>3, <1>4, <1>5, <1>6

LEMMA InsertKeepsQueueInv ==
  ASSUME QueueInv, UNCHANGED now, NEW e \in Event, NEW p \in Priority, Insert(e, p)
  PROVE  QueueInv'
<1> DEFINE k == KeyOf[e]
<1>1. PICK V \in Evictions(e), new \in Row :
        /\ k \in Key /\ nextSeq[k] \in 1..SeqBound
        /\ new.key = k /\ new.seq = nextSeq[k]
        /\ rows' = (rows \ V) \cup {new} /\ issued' = issued \cup {new}
        /\ nextSeq' = [nextSeq EXCEPT ![k] = nextSeq[k] + 1]
  BY InsertStep DEF QueueInv
<1>2. QueueTypeOK'
  BY <1>1, QueueAssumption DEF QueueInv, QueueTypeOK, QueueAssumption
<1>3. \A x \in issued : x.key \in Key /\ x.seq \in Int /\ nextSeq[x.key] \in Int
  BY QueueAssumption DEF QueueInv, QueueTypeOK, Row, QueueAssumption
<1>4. \A x \in issued : x.key = k => x.seq # new.seq
  BY <1>1, <1>3 DEF QueueInv, MetaAhead
<1>5. NumberNamesOneRow'
  BY <1>1, <1>4 DEF QueueInv, NumberNamesOneRow
<1>6. MetaAhead'
  <2> SUFFICES ASSUME NEW x \in issued'
               PROVE  x.seq < nextSeq'[x.key]
    BY DEF MetaAhead
  <2>1. \A j \in Key : nextSeq[j] \in Int /\ nextSeq'[j] \in Int /\ nextSeq'[j] >= nextSeq[j]
    BY <1>1, QueueAssumption DEF QueueInv, QueueTypeOK, QueueAssumption
  <2>2. CASE x \in issued
    <3>1. x.seq < nextSeq[x.key]
      BY <2>2 DEF QueueInv, MetaAhead
    <3>. QED  BY <2>1, <2>2, <1>3, <3>1
  <2>3. CASE x = new
    BY <2>3, <1>1 DEF QueueInv, QueueTypeOK
  <2>. QED  BY <1>1, <2>2, <2>3
<1>. QED  BY <1>2, <1>5, <1>6 DEF QueueInv

LEMMA QueueInductive == QueueInv /\ [QueueNext]_queueVars => QueueInv'
<1> SUFFICES ASSUME QueueInv, [QueueNext]_queueVars
             PROVE  QueueInv'
  OBVIOUS
<1>1. CASE Enqueue
  <2>1. CASE \E e \in Event : Rejected(e)
    BY <1>1, <2>1 DEF Enqueue, Rejected, store, QueueInv, QueueTypeOK, NumberNamesOneRow, MetaAhead
  <2>2. CASE \E e \in Event, p \in Priority : Insert(e, p)
    BY <1>1, <2>2, InsertKeepsQueueInv DEF Enqueue
  <2>. QED  BY <1>1, <2>1, <2>2 DEF Enqueue
<1>2. CASE Expire \/ \E e \in Event : AcknowledgeOne(e)
  BY <1>2 DEF Expire, AcknowledgeOne, QueueInv, QueueTypeOK, NumberNamesOneRow, MetaAhead
<1>3. CASE Tick
  BY <1>3, QueueAssumption
     DEF Tick, store, QueueInv, QueueTypeOK, NumberNamesOneRow, MetaAhead, QueueAssumption
<1>4. CASE UNCHANGED queueVars
  BY <1>4 DEF queueVars, QueueInv, QueueTypeOK, NumberNamesOneRow, MetaAhead
<1>. QED  BY <1>1, <1>2, <1>3, <1>4 DEF QueueNext

THEOREM QueueInvariance == QueueSpec => []QueueInv
<1>1. QueueInit => QueueInv
  BY QueueAssumption DEF QueueInit, QueueInv, QueueTypeOK, NumberNamesOneRow, MetaAhead, QueueAssumption
<1>. QED  BY <1>1, QueueInductive, PTL DEF QueueSpec

(***************************************************************************)
(* Every row has an event, a key and a number the code can give it.        *)
(***************************************************************************)
THEOREM QueueTypeCorrect == QueueSpec => []QueueTypeOK
<1>1. QueueInv => QueueTypeOK
  BY DEF QueueInv
<1>. QED  BY <1>1, QueueInvariance, PTL

(***************************************************************************)
(* A sequence number of a sensor names one event for ever.                 *)
(***************************************************************************)
THEOREM NumbersAreUnique == QueueSpec => []NumberNamesOneRow
<1>1. QueueInv => NumberNamesOneRow
  BY DEF QueueInv
<1>. QED  BY <1>1, QueueInvariance, PTL

\* The loop deletes in order, so what it deletes together is in order too, and
\* its last deletion was needed.
LEMMA EvictedInOrder ==
  ASSUME NEW e, NEW V \in Evictions(e)
  PROVE  /\ \A x \in V, y \in rows \ V : ~ GoesFirst(y, x)
         /\ V # {} => \E x \in V : ~ Fits((rows \ V) \cup {x}, e)
<1>1. PICK n \in 0..Cardinality(V) : \E d \in [1..n -> V] :
        Evicts(d, n, e) /\ Left(d, n) = rows \ V
  BY DEF Evictions
<1>2. n \in Int
  BY <1>1
<1>3. PICK d \in [1..n -> V] : Evicts(d, n, e) /\ Left(d, n) = rows \ V
  BY <1>1
<1>4. V \subseteq rows
  BY DEF Evictions
<1>5. \A i \in 1..n : /\ ~ Fits(Left(d, i - 1), e)
                      /\ d[i] \in Left(d, i - 1)
                      /\ \A y \in Left(d, i - 1) : ~ GoesFirst(y, d[i])
  BY <1>3 DEF Evicts
<1>6. V = {d[j] : j \in 1..n}
  BY <1>3, <1>4 DEF Left
<1>7. \A x \in V, y \in rows \ V : ~ GoesFirst(y, x)
  <2> SUFFICES ASSUME NEW x \in V, NEW y \in rows \ V
               PROVE  ~ GoesFirst(y, x)
    OBVIOUS
  <2>1. PICK i \in 1..n : x = d[i]
    BY <1>6
  <2>2. \A j \in 1..(i - 1) : d[j] \in V
    BY <1>3, <1>2
  <2>3. y \in Left(d, i - 1)
    BY <2>2 DEF Left
  <2>. QED  BY <1>5, <2>1, <2>3
<1>8. ASSUME V # {}
      PROVE  \E x \in V : ~ Fits((rows \ V) \cup {x}, e)
  <2>1. n \in 1..n
    BY <1>6, <1>8, <1>2
  <2>2. 1..n = (1..(n - 1)) \cup {n}
    BY <2>1, <1>2
  <2>3. Left(d, n - 1) = (rows \ V) \cup {d[n]}
    BY <1>3, <1>5, <2>1, <2>2, <1>4 DEF Left
  <2>. QED  BY <1>5, <1>3, <2>1, <2>3
<1>. QED  BY <1>7, <1>8

(***************************************************************************)
(* Eviction, one row at a time, is lowest priority first and oldest first  *)
(* among equals of all it deletes for one event, and no row too many.      *)
(***************************************************************************)
THEOREM EvictionIsOrdered == QueueSpec => EvictsLeastImportant
<1> DEFINE gone == rows \ rows'
           kept == rows \cap rows'
           Ordered == \A new \in rows' \ rows :
                        /\ \A x \in gone, y \in kept :
                             \/ x.prio < y.prio
                             \/ x.prio = y.prio /\ x.at <= y.at
                        /\ gone # {} => \E x \in gone : ~ Fits(kept \cup {x}, new.id)
<1>1. QueueInv /\ [QueueNext]_queueVars => [Ordered]_queueVars
  <2> SUFFICES ASSUME QueueInv, QueueNext, NEW new \in rows' \ rows
               PROVE  /\ \A x \in gone, y \in kept :
                           \/ x.prio < y.prio
                           \/ x.prio = y.prio /\ x.at <= y.at
                      /\ gone # {} => \E x \in gone : ~ Fits(kept \cup {x}, new.id)
    OBVIOUS
  <2>1. PICK e \in Event, p \in Priority : Insert(e, p)
    BY DEF QueueNext, Enqueue, Rejected, Expire, AcknowledgeOne, Tick, store
  <2>2. PICK V \in Evictions(e) : rows' = (rows \ V) \cup {new} /\ new.id = e
    <3> DEFINE x == [id |-> e, key |-> KeyOf[e], seq |-> Sequence(KeyOf[e]),
                     prio |-> p, at |-> now]
    <3>1. PICK V \in Evictions(e) : rows' = (rows \ V) \cup {x}
      BY <2>1 DEF Insert
    <3>2. x.id = e
      OBVIOUS
    <3> HIDE DEF x
    <3>. QED  BY <3>1, <3>2
  <2>3. gone = V /\ kept = rows \ V
    BY <2>2 DEF Evictions
  <2>4. ASSUME NEW x \in gone, NEW y \in kept
        PROVE  \/ x.prio < y.prio
               \/ x.prio = y.prio /\ x.at <= y.at
    <3>1. ~ GoesFirst(y, x)
      BY <2>3, <2>4, EvictedInOrder
    <3>2. x \in Row /\ y \in Row
      BY DEF QueueInv, QueueTypeOK
    <3>3. x.prio \in Priority /\ y.prio \in Priority /\ x.at \in Int /\ y.at \in Int
      BY <3>2, QueueAssumption DEF Row, QueueAssumption
    <3>4. x.prio \in Int /\ y.prio \in Int
      BY <3>3, PrioritiesAreIntegers
    <3>. QED  BY <3>1, <3>3, <3>4 DEF GoesFirst
  <2>. QED  BY <2>2, <2>3, <2>4, EvictedInOrder
<1>. QED  BY <1>1, QueueInvariance, PTL DEF QueueSpec, EvictsLeastImportant

-----------------------------------------------------------------------------
(* The ledger.                                                             *)

\* The stored ranges are not empty: accept() refused the others.
Proper == \A b \in batches : b.first <= b.last

LedgerInv == LedgerTypeOK /\ Proper /\ CursorIsHighest /\ NoInteriorGap

\* A refusal leaves both tables alone.
LEMMA RefuseKeepsLedgerInv ==
  ASSUME LedgerInv, NEW b \in Batch, NEW result \in Results, Refuse(b, result)
  PROVE  LedgerInv'
<1>1. answer' = <<b, result>> /\ batches' = batches /\ cursor' = cursor
  BY DEF Refuse
<1>2. LedgerTypeOK'
  BY <1>1 DEF LedgerInv, LedgerTypeOK
<1>3. Proper' /\ CursorIsHighest'
  BY <1>1 DEF LedgerInv, Proper, CursorIsHighest
<1>4. NoInteriorGap'
  BY <1>1 DEF LedgerInv, NoInteriorGap, Ingested
<1>. QED  BY <1>2, <1>3, <1>4 DEF LedgerInv

LEMMA AcceptKeepsLedgerInv ==
  ASSUME LedgerInv, NEW b \in Batch, b.first <= b.last, Accept(b)
  PROVE  LedgerInv'
<1> DEFINE k == b.key
<1>1. /\ batches' = batches \cup {b}
      /\ cursor' = [cursor EXCEPT ![k] = b.last]
      /\ answer' = <<b, "accepted">>
  BY DEF Accept, Record
<1>2. /\ k \in Key /\ cursor[k] \in Nat /\ b.first \in Nat /\ b.last \in Nat
      /\ cursor[k] < b.last
      /\ cursor[k] = 0 \/ b.first <= cursor[k] + 1
  BY QueueAssumption DEF QueueAssumption, Accept, Behind, LeavesGap, LedgerInv, LedgerTypeOK, Batch
<1>3. /\ cursor'[k] = b.last
      /\ \A j \in Key : j # k => cursor'[j] = cursor[j]
  BY <1>1, <1>2 DEF LedgerInv, LedgerTypeOK
<1>4. \A c \in batches : /\ c \in Batch /\ c.key \in Key
                         /\ c.first \in Nat /\ c.last \in Nat /\ cursor[c.key] \in Nat
                         /\ c.first <= c.last /\ c.last <= cursor[c.key]
  BY QueueAssumption DEF QueueAssumption, LedgerInv, LedgerTypeOK, Batch, Proper, CursorIsHighest
<1>5. LedgerTypeOK'
  <2>1. b.last \in 0..SeqBound
    BY QueueAssumption DEF QueueAssumption, Batch
  <2>2. batches' \in SUBSET Batch /\ cursor' \in [Key -> 0..SeqBound]
    BY <1>1, <1>2, <2>1 DEF LedgerInv, LedgerTypeOK
  <2>3. answer'[1] \in Batch /\ answer'[2] \in Results
    BY <1>1 DEF Results
  <2>. QED  BY <2>2, <2>3 DEF LedgerTypeOK
<1>6. Proper'
  BY <1>1 DEF LedgerInv, Proper
<1>7. CursorIsHighest'
  <2>1. \A c \in batches' : c.last <= cursor'[c.key]
    BY <1>1, <1>2, <1>3, <1>4
  <2>2. \A j \in Key : cursor'[j] # 0 => \E c \in batches' : c.key = j /\ c.last = cursor'[j]
    BY <1>1, <1>2, <1>3 DEF LedgerInv, CursorIsHighest
  <2>. QED  BY <2>1, <2>2 DEF CursorIsHighest
<1>8. NoInteriorGap'
  <2> SUFFICES ASSUME NEW c \in batches', NEW n \in c.first..cursor'[c.key]
               PROVE  Ingested(c.key, n)'
    BY DEF NoInteriorGap
  <2>1. CASE c \in batches /\ n \in c.first..cursor[c.key]
    <3>1. Ingested(c.key, n)
      BY <2>1 DEF LedgerInv, NoInteriorGap
    <3>. QED  BY <3>1, <1>1 DEF Ingested
  <2>2. CASE c.key = k /\ n \in b.first..b.last
    BY <2>2, <1>1 DEF Ingested
  <2>3. \/ c \in batches /\ n \in c.first..cursor[c.key]
        \/ c.key = k /\ n \in b.first..b.last
    <3>1. CASE c = b
      BY <3>1, <1>3
    <3>2. CASE c \in batches /\ c.key # k
      BY <3>2, <1>3, <1>4
    <3>3. CASE c \in batches /\ c.key = k
      <4>1. c.first \in Nat /\ c.last \in Nat /\ c.first <= c.last /\ c.last <= cursor[k]
        BY <3>3, <1>4
      <4>2. cursor[k] # 0 => b.first <= cursor[k] + 1
        BY <1>2
      <4>3. c.last >= 1
        BY <3>3, QueueAssumption DEF QueueAssumption, LedgerInv, LedgerTypeOK, Batch
      <4>4. n \in Int /\ c.first <= n /\ n <= b.last
        BY <3>3, <1>2, <1>3, <4>1
      <4>. QED  BY <3>3, <1>2, <4>1, <4>2, <4>3, <4>4
    <3>. QED  BY <1>1, <3>1, <3>2, <3>3
  <2>. QED  BY <2>1, <2>2, <2>3
<1>. QED  BY <1>5, <1>6, <1>7, <1>8 DEF LedgerInv

LEMMA LedgerInductive == LedgerInv /\ [LedgerNext]_ledgerVars => LedgerInv'
<1> SUFFICES ASSUME LedgerInv, [LedgerNext]_ledgerVars
             PROVE  LedgerInv'
  OBVIOUS
<1>1. ASSUME NEW b \in Batch, Request(b)
      PROVE  LedgerInv'
  <2>1. CASE Duplicate(b) \/ Replay(b) \/ Gap(b)
    <3>1. PICK result \in Results : Refuse(b, result)
      BY <2>1 DEF Duplicate, Replay, Gap, Results
    <3>. QED  BY <3>1, RefuseKeepsLedgerInv
  <2>2. CASE Accept(b)
    BY <1>1, <2>2, AcceptKeepsLedgerInv DEF Request
  <2>. QED  BY <1>1, <2>1, <2>2 DEF Request
<1>2. CASE UNCHANGED ledgerVars
  BY <1>2 DEF ledgerVars, LedgerInv, LedgerTypeOK, Proper, CursorIsHighest, NoInteriorGap, Ingested
<1>. QED  BY <1>1, <1>2 DEF LedgerNext

THEOREM LedgerInvariance == LedgerSpec => []LedgerInv
<1>1. EmptyLedger => LedgerInv
  BY QueueAssumption
     DEF QueueAssumption, EmptyLedger, LedgerInv, LedgerTypeOK, Proper, CursorIsHighest, NoInteriorGap
<1>. QED  BY <1>1, LedgerInductive, PTL DEF LedgerSpec

(***************************************************************************)
(* The ledger's rows and cursors stay within the numbers sensors send.     *)
(***************************************************************************)
THEOREM LedgerTypeCorrect == LedgerSpec => []LedgerTypeOK
<1>1. LedgerInv => LedgerTypeOK
  BY DEF LedgerInv
<1>. QED  BY <1>1, LedgerInvariance, PTL

(***************************************************************************)
(* A cursor is the highest number accepted for its sensor.                 *)
(***************************************************************************)
THEOREM CursorsAreHighest == LedgerSpec => []CursorIsHighest
<1>1. LedgerInv => CursorIsHighest
  BY DEF LedgerInv
<1>. QED  BY <1>1, LedgerInvariance, PTL

(***************************************************************************)
(* After a sensor's first accepted batch, accept() never lets a number go  *)
(* missing below the cursor.                                               *)
(***************************************************************************)
THEOREM NothingMissingAfterFirst == LedgerSpec => []NoInteriorGap
<1>1. LedgerInv => NoInteriorGap
  BY DEF LedgerInv
<1>. QED  BY <1>1, LedgerInvariance, PTL

-----------------------------------------------------------------------------
(* Induction, and functions defined by recursion on 0..n.  The library     *)
(* states both with operator parameters, which cannot be instantiated; for *)
(* sets they follow from the order of Nat being well founded.              *)

LEMMA LeastElement ==
  ASSUME NEW T \in SUBSET Nat, T # {}
  PROVE  \E n \in T : \A m \in T : n <= m
<1>1. IsWellFoundedOn(OpToRel(<, Nat), Nat)
  BY NatLessThanWellFounded
<1>2. PICK n \in T : \A m \in T : ~ (<<m, n>> \in OpToRel(<, Nat))
  BY <1>1, WFMin
<1>3. \A m \in T : ~ (m < n)
  BY <1>2 DEF OpToRel
<1>. QED  BY <1>3

LEMMA InductionUpTo ==
  ASSUME NEW n \in Nat, NEW T, 0 \in T, \A i \in 1..n : i - 1 \in T => i \in T
  PROVE  \A i \in 0..n : i \in T
<1> DEFINE Rest == {i \in 0..n : i \notin T}
<1>1. ASSUME Rest # {}
      PROVE  FALSE
  <2>1. Rest \in SUBSET Nat
    OBVIOUS
  <2>2. PICK m \in Rest : \A k \in Rest : m <= k
    BY <1>1, <2>1, LeastElement
  <2>3. m \in 1..n
    BY <2>2
  <2>4. m - 1 \in 0..n /\ ~ (m <= m - 1)
    BY <2>3
  <2>5. m - 1 \in T
    BY <2>2, <2>4
  <2>. QED  BY <2>2, <2>3, <2>5
<1>. QED  BY <1>1

\* f starts from base, and its value at k follows from that at k - 1.
Iterates(f, base, step, n) == f[0] = base /\ \A k \in 1..n : f[k] = step[<<f[k - 1], k>>]

LEMMA Recursion ==
  ASSUME NEW S, NEW n \in Nat, NEW base \in S, NEW step \in [S \X (1..n) -> S]
  PROVE  \E f \in [0..n -> S] : Iterates(f, base, step, n)
<1> DEFINE Defined(i, f) == Iterates(f, base, step, i)
           T == {i \in 0..n : \E f \in [0..i -> S] : Defined(i, f)}
<1>1. 0 \in T
  <2> DEFINE f == [k \in 0..0 |-> base]
  <2>1. f \in [0..0 -> S]
    OBVIOUS
  <2>2. f[0] = base /\ \A k \in 1..0 : f[k] = step[<<f[k - 1], k>>]
    OBVIOUS
  <2> HIDE DEF f
  <2>3. Defined(0, f)
    BY <2>2 DEF Iterates
  <2>4. 0 \in 0..n
    OBVIOUS
  <2> HIDE DEF Defined
  <2>. QED  BY <2>1, <2>3, <2>4
<1>2. ASSUME NEW i \in 1..n, i - 1 \in T
      PROVE  i \in T
  <2>1. PICK f \in [0..(i - 1) -> S] : Defined(i - 1, f)
    BY <1>2
  <2> DEFINE new == step[<<f[i - 1], i>>]
             g == [k \in 0..i |-> IF k = i THEN new ELSE f[k]]
  <2>2. i \in 0..n /\ i - 1 \in 0..(i - 1) /\ f[i - 1] \in S
    OBVIOUS
  <2>3. new \in S
    BY <2>2
  <2>4. \A k \in 0..i : k # i => k \in 0..(i - 1)
    OBVIOUS
  <2>5. g[i] = new /\ \A k \in 0..(i - 1) : g[k] = f[k]
    <3>1. \A k \in 0..(i - 1) : k \in 0..i /\ k # i
      OBVIOUS
    <3>2. i \in 0..i
      OBVIOUS
    <3> HIDE DEF new
    <3>. QED  BY <3>1, <3>2
  <2>6. g \in [0..i -> S]
    <3>1. \A k \in 0..i : (IF k = i THEN new ELSE f[k]) \in S
      BY <2>3, <2>4
    <3> HIDE DEF new
    <3>. QED  BY <3>1
  <2>7. g[0] = base /\ \A k \in 1..(i - 1) : g[k] = step[<<g[k - 1], k>>]
    <3>1. \A k \in 1..(i - 1) : k \in 0..(i - 1) /\ k - 1 \in 0..(i - 1)
      OBVIOUS
    <3>2. 0 \in 0..(i - 1)
      OBVIOUS
    <3> HIDE DEF g
    <3>. QED  BY <2>1, <2>5, <3>1, <3>2 DEF Iterates
  <2>8. g[i] = step[<<g[i - 1], i>>]
    <3> HIDE DEF g
    <3>. QED  BY <2>2, <2>5
  <2>9. Defined(i, g)
    <3>1. \A k \in 1..i : k = i \/ k \in 1..(i - 1)
      OBVIOUS
    <3> HIDE DEF g
    <3>. QED  BY <2>7, <2>8, <3>1 DEF Iterates
  <2> HIDE DEF g, Defined
  <2>. QED  BY <2>2, <2>6, <2>9
<1>3. n \in T
  <2> HIDE DEF T
  <2>1. \A i \in 0..n : i \in T
    BY <1>1, <1>2, InductionUpTo
  <2>. QED  BY <2>1
<1>. QED  BY <1>3

-----------------------------------------------------------------------------
(* The token bucket.                                                       *)

\* What has been selected at some turn of the loop, for records drawn from R.
Selection(R) == [selected : Seq(R), used : Nat, open : BOOLEAN]

LEMMA ConsiderTakes ==
  ASSUME NEW R, NEW a \in Selection(R), NEW r, NEW cap,
         a.open, ~ (r.size > cap /\ a.selected = <<>>), ~ (a.used + r.size > cap)
  PROVE  Consider(a, r, cap) = [selected |-> Append(a.selected, r), used |-> a.used + r.size, open |-> a.open]
<1>1. a = [selected |-> a.selected, used |-> a.used, open |-> a.open]
  BY DEF Selection
<1>2. Consider(a, r, cap) = [a EXCEPT !.selected = Append(a.selected, r), !.used = a.used + r.size]
  BY DEF Consider
<1>. QED  BY <1>1, <1>2

LEMMA ConsiderCloses ==
  ASSUME NEW R, NEW a \in Selection(R), NEW r, NEW cap,
         a.open, ~ (r.size > cap /\ a.selected = <<>>), a.used + r.size > cap
  PROVE  Consider(a, r, cap) = [selected |-> a.selected, used |-> a.used, open |-> FALSE]
<1>1. a = [selected |-> a.selected, used |-> a.used, open |-> a.open]
  BY DEF Selection
<1>2. Consider(a, r, cap) = [a EXCEPT !.open = FALSE]
  BY DEF Consider
<1>. QED  BY <1>1, <1>2

LEMMA ConsiderType ==
  ASSUME NEW R, NEW a \in Selection(R), NEW r \in R, r.size \in Nat, NEW cap \in Int
  PROVE  Consider(a, r, cap) \in Selection(R)
<1>1. /\ a.selected \in Seq(R) /\ a.used \in Nat /\ a.open \in BOOLEAN
      /\ a = [selected |-> a.selected, used |-> a.used, open |-> a.open]
  BY DEF Selection
<1>2. CASE Consider(a, r, cap) = a
  BY <1>2
<1>3. CASE Consider(a, r, cap) = [a EXCEPT !.open = FALSE]
  BY <1>1, <1>3 DEF Selection
<1>4. CASE Consider(a, r, cap) = [a EXCEPT !.selected = Append(a.selected, r), !.used = a.used + r.size]
  <2>1. Consider(a, r, cap) = [selected |-> Append(a.selected, r), used |-> a.used + r.size, open |-> a.open]
    BY <1>1, <1>4
  <2>2. Append(a.selected, r) \in Seq(R) /\ a.used + r.size \in Nat
    BY <1>1
  <2>. QED  BY <1>1, <2>1, <2>2 DEF Selection
<1>. QED  BY <1>2, <1>3, <1>4 DEF Consider

\* The turns are what their recursive definition says.
LEMMA TurnsRecursion ==
  ASSUME NEW R, \A r \in R : r.size \in Nat, NEW records \in Seq(R), NEW cap \in Int
  PROVE  /\ Turns(records, cap)[0] = NothingSelected
         /\ \A i \in 1..Len(records) :
              Turns(records, cap)[i] = Consider(Turns(records, cap)[i - 1], records[i], cap)
         /\ \A i \in 0..Len(records) : Turns(records, cap)[i] \in Selection(R)
<1> DEFINE n == Len(records)
           S == Selection(R)
           Turn(f) == [i \in 0..n |-> IF i = 0 THEN NothingSelected ELSE Consider(f[i - 1], records[i], cap)]
           step == [p \in S \X (1..n) |-> Consider(p[1], records[p[2]], cap)]
           g == Turns(records, cap)
<1>1. n \in Nat /\ \A i \in 1..n : records[i] \in R /\ records[i].size \in Nat
  OBVIOUS
<1>2. NothingSelected \in S
  BY DEF NothingSelected, Selection
<1>3. \A a \in S, i \in 1..n : Consider(a, records[i], cap) \in S
  BY <1>1, ConsiderType
<1> HIDE DEF S, n
<1>4. step \in [S \X (1..n) -> S]
  BY <1>3
<1>5. \A a \in S, i \in 1..n : step[<<a, i>>] = Consider(a, records[i], cap)
  OBVIOUS
<1> HIDE DEF step
<1>6. PICK f \in [0..n -> S] : Iterates(f, NothingSelected, step, n)
  BY <1>1, <1>2, <1>4, Recursion
<1>7. f = Turn(f)
  <2>1. \A i \in 0..n : i # 0 => i \in 1..n /\ i - 1 \in 0..n
    BY <1>1
  <2>2. \A i \in 0..n : f[i] = IF i = 0 THEN NothingSelected ELSE Consider(f[i - 1], records[i], cap)
    BY <1>5, <1>6, <2>1 DEF Iterates
  <2>3. f = [i \in 0..n |-> f[i]]
    OBVIOUS
  <2>. QED  BY <2>2, <2>3
<1>8. g = CHOOSE h : h = Turn(h)
  BY DEF Turns, n
<1> HIDE DEF Turn
<1>9. g = Turn(g)
  BY <1>7, <1>8
<1> HIDE DEF g
<1>10. g[0] = NothingSelected /\ \A i \in 1..n : g[i] = Consider(g[i - 1], records[i], cap)
  <2>1. 0 \in 0..n /\ \A i \in 1..n : i \in 0..n /\ i # 0
    BY <1>1
  <2>. QED  BY <1>9, <2>1 DEF Turn
<1>11. \A i \in 0..n : g[i] \in S
  <2> DEFINE T == {i \in 0..n : g[i] \in S}
  <2>1. 0 \in T
    BY <1>1, <1>2, <1>10
  <2>2. \A i \in 1..n : i - 1 \in T => i \in T
    BY <1>1, <1>3, <1>10
  <2> HIDE DEF T
  <2>3. \A i \in 0..n : i \in T
    BY <1>1, <2>1, <2>2, InductionUpTo
  <2>. QED  BY <2>3 DEF T
<1>. QED  BY <1>10, <1>11 DEF g, n, S

\* The same for the sums.
LEMMA SumsRecursion ==
  ASSUME NEW R, \A r \in R : r.size \in Nat, NEW records \in Seq(R)
  PROVE  /\ Sums(records)[0] = 0
         /\ \A i \in 1..Len(records) : Sums(records)[i] = Sums(records)[i - 1] + records[i].size
         /\ \A i \in 0..Len(records) : Sums(records)[i] \in Nat
<1> DEFINE n == Len(records)
           Sum(f) == [i \in 0..n |-> IF i = 0 THEN 0 ELSE f[i - 1] + records[i].size]
           step == [p \in Nat \X (1..n) |-> p[1] + records[p[2]].size]
           g == Sums(records)
<1>1. n \in Nat /\ \A i \in 1..n : records[i] \in R /\ records[i].size \in Nat
  OBVIOUS
<1> HIDE DEF n
<1>2. step \in [Nat \X (1..n) -> Nat]
  BY <1>1
<1>3. \A a \in Nat, i \in 1..n : step[<<a, i>>] = a + records[i].size
  OBVIOUS
<1> HIDE DEF step
<1>4. PICK f \in [0..n -> Nat] : Iterates(f, 0, step, n)
  <2>1. 0 \in Nat
    OBVIOUS
  <2>. QED  BY <1>1, <1>2, <2>1, Recursion
<1>5. f = Sum(f)
  <2>1. \A i \in 0..n : i # 0 => i \in 1..n /\ i - 1 \in 0..n
    BY <1>1
  <2>2. \A i \in 0..n : f[i] = IF i = 0 THEN 0 ELSE f[i - 1] + records[i].size
    BY <1>3, <1>4, <2>1 DEF Iterates
  <2>3. f = [i \in 0..n |-> f[i]]
    OBVIOUS
  <2>. QED  BY <2>2, <2>3
<1>6. g = CHOOSE h : h = Sum(h)
  BY DEF Sums, n
<1> HIDE DEF Sum
<1>7. g = Sum(g)
  BY <1>5, <1>6
<1> HIDE DEF g
<1>8. g[0] = 0 /\ \A i \in 1..n : g[i] = g[i - 1] + records[i].size
  <2>1. 0 \in 0..n /\ \A i \in 1..n : i \in 0..n /\ i # 0
    BY <1>1
  <2>. QED  BY <1>7, <2>1 DEF Sum
<1>9. \A i \in 0..n : g[i] \in Nat
  <2> DEFINE T == {i \in 0..n : g[i] \in Nat}
  <2>1. 0 \in T
    BY <1>1, <1>8
  <2>2. ASSUME NEW i \in 1..n, i - 1 \in T
        PROVE  i \in T
    <3>1. i \in 0..n /\ g[i - 1] \in Nat /\ records[i].size \in Nat
      BY <1>1, <2>2
    <3>. QED  BY <1>8, <3>1
  <2> HIDE DEF T
  <2>3. \A i \in 0..n : i \in T
    BY <1>1, <2>1, <2>2, InductionUpTo
  <2>. QED  BY <2>3 DEF T
<1>. QED  BY <1>8, <1>9 DEF g, n

LEMMA SizeOfEmpty == SizeOf(<<>>) = 0
<1>1. <<>> \in Seq([size : Nat]) /\ Len(<<>>) = 0
  OBVIOUS
<1>2. \A r \in [size : Nat] : r.size \in Nat
  OBVIOUS
<1>. QED  BY <1>1, <1>2, SumsRecursion DEF SizeOf

LEMMA SizeOfAppend ==
  ASSUME NEW R, \A r \in R : r.size \in Nat, NEW s \in Seq(R), NEW r \in R
  PROVE  SizeOf(Append(s, r)) = SizeOf(s) + r.size
<1> DEFINE n == Len(s)
           t == Append(s, r)
           T == {i \in 0..n : Sums(t)[i] = Sums(s)[i]}
<1>1. /\ n \in Nat /\ t \in Seq(R) /\ Len(t) = n + 1 /\ t[n + 1] = r
      /\ \A i \in 1..n : t[i] = s[i]
  OBVIOUS
<1> HIDE DEF n, t
<1>2. /\ Sums(s)[0] = 0
      /\ \A i \in 1..n : Sums(s)[i] = Sums(s)[i - 1] + s[i].size
  BY SumsRecursion DEF n
<1>3. /\ Sums(t)[0] = 0
      /\ \A i \in 1..(n + 1) : Sums(t)[i] = Sums(t)[i - 1] + t[i].size
  BY <1>1, SumsRecursion
<1>4. 0 \in T
  BY <1>1, <1>2, <1>3
<1>5. ASSUME NEW i \in 1..n, i - 1 \in T
      PROVE  i \in T
  <2>1. i \in 0..n /\ i \in 1..(n + 1)
    BY <1>1
  <2>. QED  BY <1>1, <1>2, <1>3, <1>5, <2>1
<1> HIDE DEF T
<1>6. n \in T
  <2>1. n \in Nat /\ n \in 0..n
    BY <1>1
  <2>2. \A i \in 0..n : i \in T
    BY <1>4, <1>5, <2>1, InductionUpTo
  <2>. QED  BY <2>1, <2>2
<1>7. Sums(t)[n] = Sums(s)[n]
  BY <1>6 DEF T
<1>8. Sums(t)[n + 1] = Sums(t)[n] + r.size
  <2>1. n + 1 \in 1..(n + 1) /\ (n + 1) - 1 = n
    BY <1>1
  <2>. QED  BY <1>1, <1>3, <2>1
<1>. QED  BY <1>1, <1>7, <1>8 DEF SizeOf, n, t

\* A run and the record after it.
LEMMA SubSeqAppend ==
  ASSUME NEW R, NEW s \in Seq(R), NEW i \in 1..Len(s), NEW j \in (i - 1)..(Len(s) - 1)
  PROVE  Append(SubSeq(s, i, j), s[j + 1]) = SubSeq(s, i, j + 1)
<1>1. SubSeq(s, i, j) \in Seq(R) /\ SubSeq(s, i, j + 1) \in Seq(R)
  OBVIOUS
<1>. QED  OBVIOUS

\* What turn i of the loop has done: nothing yet, for want of a record that
\* fits, or a run of records, closed by one that does not.
SelectedARun(records, cap, a, i) ==
  \/ /\ a = NothingSelected
     /\ \A h \in 1..i : records[h].size > cap
  \/ \E b \in 1..i : \E j \in b..i :
       /\ a.selected = SubSeq(records, b, j)
       /\ a.used = SizeOf(a.selected)
       /\ a.used <= cap
       /\ records[b].size <= cap
       /\ \A h \in 1..(b - 1) : records[h].size > cap
       /\ a.open => j = i
       /\ ~ a.open => j < i /\ a.used + records[j + 1].size > cap

LEMMA ConsiderKeepsARun ==
  ASSUME NEW R, \A r \in R : r.size \in Nat, NEW records \in Seq(R), NEW cap \in Int,
         NEW i \in 1..Len(records), NEW a \in Selection(R),
         SelectedARun(records, cap, a, i - 1)
  PROVE  SelectedARun(records, cap, Consider(a, records[i], cap), i)
<1> DEFINE r == records[i]
           c == Consider(a, r, cap)
<1> SUFFICES SelectedARun(records, cap, c, i)
  OBVIOUS
<1>1. /\ r \in R /\ r.size \in Nat /\ a.used \in Nat /\ a.open \in BOOLEAN
      /\ a.selected \in Seq(R) /\ i - 1 \in Nat
  BY DEF Selection
<1>2. CASE a = NothingSelected /\ \A h \in 1..(i - 1) : records[h].size > cap
  <2>1. a.selected = <<>> /\ a.used = 0 /\ a.open = TRUE
    BY <1>2 DEF NothingSelected
  <2>2. CASE r.size > cap
    <3>1. c = a
      BY <2>1, <2>2 DEF Consider
    <3>2. \A h \in 1..i : records[h].size > cap
      BY <1>2, <2>2
    <3>. QED  BY <1>2, <3>1, <3>2 DEF SelectedARun
  <2>3. CASE ~ (r.size > cap)
    <3>1. c = [selected |-> Append(a.selected, r), used |-> a.used + r.size, open |-> a.open]
      <4>1. ~ (a.used + r.size > cap)
        BY <1>1, <2>1, <2>3
      <4>. QED  BY <2>1, <2>3, <4>1, ConsiderTakes
    <3>2. c.selected = SubSeq(records, i, i)
      <4>1. c.selected = <<r>>
        BY <2>1, <3>1
      <4>2. SubSeq(records, i, i) = <<records[i]>>
        <5>1. i - 1 \in (i - 1)..(Len(records) - 1) /\ (i - 1) + 1 = i
          OBVIOUS
        <5>2. SubSeq(records, i, i - 1) = <<>>
          OBVIOUS
        <5>3. Append(SubSeq(records, i, i - 1), records[(i - 1) + 1]) = SubSeq(records, i, (i - 1) + 1)
          BY <5>1, SubSeqAppend
        <5>4. Append(SubSeq(records, i, i - 1), records[i]) = SubSeq(records, i, i)
          BY <5>1, <5>3
        <5>5. Append(<<>>, records[i]) = <<records[i]>>
          OBVIOUS
        <5>. QED  BY <5>2, <5>4, <5>5
      <4>. QED  BY <4>1, <4>2
    <3>3. c.used = SizeOf(c.selected)
      <4>1. SizeOf(Append(<<>>, r)) = SizeOf(<<>>) + r.size
        <5>1. <<>> \in Seq(R)
          OBVIOUS
        <5>. QED  BY <1>1, <5>1, SizeOfAppend
      <4>. QED  BY <2>1, <3>1, <4>1, SizeOfEmpty
    <3>4. c.used <= cap /\ c.open /\ records[i].size <= cap
      BY <1>1, <2>1, <2>3, <3>1
    <3>5. i \in 1..i /\ i \in i..i
      OBVIOUS
    <3> HIDE DEF c, r
    <3>. QED  BY <1>2, <3>2, <3>3, <3>4, <3>5 DEF SelectedARun
  <2>. QED  BY <2>2, <2>3
<1>3. ASSUME NEW b \in 1..(i - 1), NEW j \in b..(i - 1),
             a.selected = SubSeq(records, b, j), a.used = SizeOf(a.selected), a.used <= cap,
             records[b].size <= cap, \A h \in 1..(b - 1) : records[h].size > cap,
             a.open => j = i - 1,
             ~ a.open => j < i - 1 /\ a.used + records[j + 1].size > cap
      PROVE  SelectedARun(records, cap, c, i)
  <2>1. b \in 1..i /\ j \in b..i /\ i \in b..i /\ j < i
    OBVIOUS
  <2>2. CASE ~ a.open
    <3>1. c = a
      BY <2>2 DEF Consider
    <3> HIDE DEF c
    <3>. QED  BY <1>3, <2>1, <2>2, <3>1 DEF SelectedARun
  <2>3. a.selected # <<>>
    <3>1. Len(SubSeq(records, b, j)) = j - b + 1 /\ j - b + 1 > 0
      OBVIOUS
    <3>2. Len(a.selected) > 0
      BY <1>3, <3>1
    <3>. QED  BY <3>2
  <2>4. CASE a.open /\ a.used + r.size > cap
    <3>1. c = [selected |-> a.selected, used |-> a.used, open |-> FALSE]
      BY <2>3, <2>4, ConsiderCloses
    <3>2. c.selected = a.selected /\ c.used = a.used /\ ~ c.open
      BY <3>1
    <3>3. j = i - 1 /\ records[j + 1] = r
      BY <1>3, <2>4
    <3> HIDE DEF c
    <3>. QED  BY <1>3, <2>1, <2>4, <3>2, <3>3 DEF SelectedARun
  <2>5. CASE a.open /\ ~ (a.used + r.size > cap)
    <3>1. c = [selected |-> Append(a.selected, r), used |-> a.used + r.size, open |-> a.open]
      BY <2>3, <2>5, ConsiderTakes
    <3>2. j = i - 1 /\ j + 1 = i /\ b \in 1..Len(records) /\ j \in b..(Len(records) - 1)
      BY <1>3, <2>5
    <3>3. c.selected = SubSeq(records, b, i)
      BY <1>3, <3>1, <3>2, SubSeqAppend
    <3>4. c.used = SizeOf(c.selected)
      <4>1. SizeOf(Append(a.selected, r)) = SizeOf(a.selected) + r.size
        BY <1>1, SizeOfAppend
      <4> HIDE DEF c, r
      <4>. QED  BY <1>3, <3>1, <4>1
    <3>5. c.used <= cap /\ c.open
      BY <1>1, <2>5, <3>1
    <3> HIDE DEF c, r
    <3>. QED  BY <1>3, <2>1, <3>3, <3>4, <3>5 DEF SelectedARun
  <2>. QED  BY <1>1, <2>2, <2>4, <2>5
<1> HIDE DEF c
<1>. QED  BY <1>2, <1>3 DEF SelectedARun

LEMMA SelectedARunAlways ==
  ASSUME NEW R, \A r \in R : r.size \in Nat, NEW records \in Seq(R), NEW cap \in Int
  PROVE  SelectedARun(records, cap, Turns(records, cap)[Len(records)], Len(records))
<1> DEFINE n == Len(records)
           T == {i \in 0..n : SelectedARun(records, cap, Turns(records, cap)[i], i)}
<1>1. n \in Nat /\ n \in 0..n
  OBVIOUS
<1>2. 0 \in T
  <2>1. Turns(records, cap)[0] = NothingSelected
    BY TurnsRecursion
  <2>. QED  BY <1>1, <2>1 DEF SelectedARun
<1>3. ASSUME NEW i \in 1..n, i - 1 \in T
      PROVE  i \in T
  <2>1. i \in 0..n /\ i - 1 \in 0..n
    OBVIOUS
  <2>2. /\ Turns(records, cap)[i] = Consider(Turns(records, cap)[i - 1], records[i], cap)
        /\ Turns(records, cap)[i - 1] \in Selection(R)
    BY <2>1, TurnsRecursion
  <2>. QED  BY <1>3, <2>1, <2>2, ConsiderKeepsARun
<1> HIDE DEF T, n
<1>4. \A i \in 0..n : i \in T
  BY <1>1, <1>2, <1>3, InductionUpTo
<1>. QED  BY <1>1, <1>4 DEF T, n

-----------------------------------------------------------------------------
\* What a call of select() may offer.
LEMMA Offered ==
  ASSUME NEW records \in Offers
  PROVE  /\ records \in Seq([size : Nat])
         /\ \A i \in 1..Len(records) : records[i] \in [size : Nat] /\ records[i].size \in Nat
<1>1. PICK m \in 0..BatchEvents : records \in [1..m -> [size : Sizes]]
  BY DEF Offers, BoundedSeq, SeqOf
<1>2. m \in Nat
  BY BandwidthAssumption DEF BandwidthAssumption
<1>3. Sizes \subseteq Nat
  BY DEF Sizes
<1>4. records \in [1..m -> [size : Nat]]
  BY <1>1, <1>3
<1>5. records \in Seq([size : Nat]) /\ Len(records) = m
  <2>1. records \in Seq([size : Nat])
    BY <1>2, <1>4, SeqDef
  <2>. QED  BY <1>2, <1>4, <2>1
<1>6. \A i \in 1..m : records[i] \in [size : Nat]
  BY <1>4
<1>7. \A r \in [size : Nat] : r.size \in Nat
  OBVIOUS
<1>. QED  BY <1>5, <1>6, <1>7

LEMMA MinOfTwo ==
  ASSUME NEW a \in Int, NEW b \in Int
  PROVE  Min({a, b}) = IF a <= b THEN a ELSE b
<1> DEFINE S == {a, b}
           m == IF a <= b THEN a ELSE b
<1>1. m \in S /\ \A y \in S : m <= y
  OBVIOUS
<1>2. \A x \in S : (\A y \in S : x <= y) => x = m
  BY <1>1
<1>. QED  BY <1>1, <1>2 DEF Min

LEMMA Truncation ==
  ASSUME NEW a \in Nat, NEW b \in Nat, NEW d \in Nat \ {0}
  PROVE  /\ (a \div d) + (b \div d) <= (a + b) \div d
         /\ a \div d \in Nat /\ b \div d \in Nat /\ (a + b) \div d \in Nat
OBVIOUS

\* What the refill leaves in the bucket.
LEMMA Refill ==
  ASSUME BucketTypeOK, now >= last
  PROVE  /\ Allowance \in 0..BurstBytes
         /\ Allowance <= tokens + ((now - last) * BytesPerSecond) \div TicksPerSecond
         /\ (last * BytesPerSecond) \div TicksPerSecond
              + ((now - last) * BytesPerSecond) \div TicksPerSecond
            <= (now * BytesPerSecond) \div TicksPerSecond
<1>1. /\ tokens \in 0..BurstBytes /\ now \in Nat /\ last \in Nat /\ now - last \in Nat
      /\ BytesPerSecond \in Nat /\ TicksPerSecond \in Nat \ {0} /\ BurstBytes \in Nat
  BY QueueAssumption, BandwidthAssumption DEF BucketTypeOK, BandwidthAssumption, QueueAssumption
<1> DEFINE a == last * BytesPerSecond
           b == (now - last) * BytesPerSecond
<1>2. a \in Nat /\ b \in Nat /\ a + b = now * BytesPerSecond
  BY <1>1
<1> HIDE DEF a, b
<1>3. /\ (a \div TicksPerSecond) + (b \div TicksPerSecond) <= (a + b) \div TicksPerSecond
      /\ b \div TicksPerSecond \in Nat
  BY <1>1, <1>2, Truncation
<1>4. Allowance = IF BurstBytes <= tokens + b \div TicksPerSecond THEN BurstBytes ELSE tokens + b \div TicksPerSecond
  BY <1>1, <1>3, MinOfTwo DEF Allowance, b
<1>. QED  BY <1>1, <1>2, <1>3, <1>4 DEF a, b

\* What select() pays with: no more than the bucket holds.
LEMMA SelectPays ==
  ASSUME NEW R, \A r \in R : r.size \in Nat, NEW records \in Seq(R), NEW budget \in Nat
  PROVE  /\ Cap(budget) \in Nat /\ Cap(budget) <= budget
         /\ Select(records, budget).used \in 0..budget
         /\ SelectedARun(records, Cap(budget), Select(records, budget), Len(records))
         /\ Select(records, budget) \in Selection(R)
<1> DEFINE cap == Cap(budget)
           a == Select(records, budget)
<1>1. cap \in Nat /\ cap <= budget
  BY BandwidthAssumption, MinOfTwo DEF BandwidthAssumption, Cap
<1>2. a \in Selection(R)
  <2>1. Len(records) \in 0..Len(records)
    OBVIOUS
  <2>. QED  BY <1>1, <2>1, TurnsRecursion DEF Select
<1>3. SelectedARun(records, cap, a, Len(records))
  BY <1>1, SelectedARunAlways DEF Select
<1>4. a.used \in Nat
  BY <1>2 DEF Selection
<1> HIDE DEF cap, a
<1>5. a.used <= cap
  <2>1. CASE a = NothingSelected
    BY <1>1, <2>1 DEF NothingSelected
  <2>. QED  BY <1>3, <2>1 DEF SelectedARun
<1>6. a.used \in 0..budget
  BY <1>1, <1>4, <1>5
<1>. QED  BY <1>1, <1>2, <1>3, <1>6 DEF cap, a

LEMMA TakeKeepsTheRate ==
  ASSUME BucketTypeOK, NEW R, \A r \in R : r.size \in Nat, NEW records \in Seq(R), Take(records)
  PROVE  BucketTypeOK' /\ (RateRespected => RateRespected')
<1> DEFINE used == Select(records, Allowance).used
<1>1. /\ now >= last /\ last' = now /\ now' = now
      /\ tokens' = Allowance - used /\ spent' = spent + used
  BY DEF Take
<1>2. Allowance \in 0..BurstBytes /\ BurstBytes \in Nat
  BY <1>1, Refill, BandwidthAssumption DEF BandwidthAssumption
<1>3. used \in 0..Allowance
  BY <1>2, SelectPays
<1> HIDE DEF used
<1>4. BucketTypeOK'
  BY <1>1, <1>2, <1>3 DEF BucketTypeOK
<1> DEFINE before == (last * BytesPerSecond) \div TicksPerSecond
           since == ((now - last) * BytesPerSecond) \div TicksPerSecond
           after == (now * BytesPerSecond) \div TicksPerSecond
<1>5. before \in Nat /\ since \in Nat /\ after \in Nat
  <2>1. last \in Nat /\ now \in Nat /\ now - last \in Nat
    BY <1>1, QueueAssumption DEF BucketTypeOK, QueueAssumption
  <2>2. /\ last * BytesPerSecond \in Nat /\ now * BytesPerSecond \in Nat
        /\ (now - last) * BytesPerSecond \in Nat
    BY <2>1, BandwidthAssumption DEF BandwidthAssumption
  <2>3. TicksPerSecond \in Nat \ {0}
    BY BandwidthAssumption DEF BandwidthAssumption
  <2>. QED  BY <2>2, <2>3, Truncation
<1>6. Allowance <= tokens + since /\ before + since <= after
  BY <1>1, Refill
<1>7. RateRespected => spent + tokens <= BurstBytes + before
  BY DEF RateRespected
<1>8. RateRespected' <=> spent' + tokens' <= BurstBytes + after
  BY <1>1 DEF RateRespected
<1>9. spent \in Nat /\ tokens \in Nat
  BY <1>2 DEF BucketTypeOK
<1> HIDE DEF before, since, after
<1>10. spent' + tokens' = spent + Allowance
  BY <1>1, <1>2, <1>3, <1>9
<1>. QED  BY <1>2, <1>4, <1>5, <1>6, <1>7, <1>8, <1>9, <1>10

BucketInv == BucketTypeOK /\ RateRespected

LEMMA BucketInductive == BucketInv /\ [BucketNext]_<<bucketVars, now>> => BucketInv'
<1> SUFFICES ASSUME BucketInv, [BucketNext]_<<bucketVars, now>>
             PROVE  BucketInv'
  OBVIOUS
<1>1. CASE SetClock
  BY <1>1 DEF SetClock, bucketVars, BucketInv, BucketTypeOK, RateRespected
<1>2. ASSUME NEW records \in Offers, Take(records)
      PROVE  BucketInv'
  <2>1. records \in Seq([size : Nat]) /\ \A r \in [size : Nat] : r.size \in Nat
    BY Offered
  <2>. QED  BY <1>2, <2>1, TakeKeepsTheRate DEF BucketInv
<1>3. CASE UNCHANGED <<bucketVars, now>>
  BY <1>3 DEF bucketVars, BucketInv, BucketTypeOK, RateRespected
<1>. QED  BY <1>1, <1>2, <1>3 DEF BucketNext

THEOREM BucketInvariance == BucketSpec => []BucketInv
<1>1. BucketInit => BucketInv
  <2> SUFFICES ASSUME BucketInit
               PROVE  BucketInv
    OBVIOUS
  <2>1. BucketTypeOK
    BY QueueAssumption, BandwidthAssumption
       DEF BucketInit, BucketTypeOK, QueueAssumption, BandwidthAssumption
  <2>2. 0 * BytesPerSecond = 0 /\ 0 \div TicksPerSecond = 0 /\ BurstBytes \in Nat
    BY BandwidthAssumption DEF BandwidthAssumption
  <2>3. RateRespected
    BY <2>2 DEF BucketInit, RateRespected
  <2>. QED  BY <2>1, <2>3 DEF BucketInv
<1>. QED  BY <1>1, BucketInductive, PTL DEF BucketSpec

(***************************************************************************)
(* The bucket holds between nothing and a burst.                           *)
(***************************************************************************)
THEOREM BucketTypeCorrect == BucketSpec => []BucketTypeOK
<1>1. BucketInv => BucketTypeOK
  BY DEF BucketInv
<1>. QED  BY <1>1, BucketInvariance, PTL

(***************************************************************************)
(* Over any number of calls, at any readings of the clock, no more is      *)
(* selected than a burst and what the link carried since the start.        *)
(***************************************************************************)
THEOREM TransmissionIsPaced == BucketSpec => []RateRespected
<1>1. BucketInv => RateRespected
  BY DEF BucketInv
<1>. QED  BY <1>1, BucketInvariance, PTL

(***************************************************************************)
(* A selection is the longest affordable run that starts at the first      *)
(* record that fits.                                                       *)
(***************************************************************************)
THEOREM SelectionIsARun == BucketSpec => []SelectsARun
<1>1. BucketTypeOK => SelectsARun
  <2> SUFFICES ASSUME BucketTypeOK, now >= last, NEW records \in Offers
               PROVE  LET chosen == Select(records, Allowance).selected
                          cap == Cap(Allowance)
                          n == Len(records)
                      IN  IF \A i \in 1..n : records[i].size > cap THEN chosen = <<>>
                          ELSE \E i \in 1..n : \E j \in i..n :
                                 /\ chosen = SubSeq(records, i, j)
                                 /\ SizeOf(chosen) <= cap
                                 /\ \A h \in 1..(i - 1) : records[h].size > cap
                                 /\ j < n => SizeOf(SubSeq(records, i, j + 1)) > cap
    BY DEF SelectsARun
  <2> DEFINE a == Select(records, Allowance)
             cap == Cap(Allowance)
             n == Len(records)
             R == [size : Nat]
  <2>1. records \in Seq(R) /\ (\A r \in R : r.size \in Nat) /\ n \in Nat
    BY Offered
  <2>2. Allowance \in Nat
    BY Refill
  <2>3. SelectedARun(records, cap, a, n) /\ cap \in Nat /\ a \in Selection(R)
    BY <2>1, <2>2, SelectPays
  <2>4. \A i \in 1..n : records[i] \in R /\ records[i].size \in Nat
    BY Offered
  <2>5. a.open \in BOOLEAN /\ a.used \in Nat /\ a.selected \in Seq(R)
    BY <2>3 DEF Selection
  <2> HIDE DEF a, cap
  <2>6. CASE a = NothingSelected /\ \A h \in 1..n : records[h].size > cap
    BY <2>6 DEF NothingSelected, a, cap
  <2>7. ASSUME NEW i \in 1..n, NEW j \in i..n,
               a.selected = SubSeq(records, i, j), a.used = SizeOf(a.selected), a.used <= cap,
               records[i].size <= cap, \A h \in 1..(i - 1) : records[h].size > cap,
               a.open => j = n,
               ~ a.open => j < n /\ a.used + records[j + 1].size > cap
        PROVE  j < n => SizeOf(SubSeq(records, i, j + 1)) > cap
    <3> SUFFICES ASSUME j < n
                 PROVE  SizeOf(SubSeq(records, i, j + 1)) > cap
      OBVIOUS
    <3>1. j \in (i - 1)..(Len(records) - 1) /\ j + 1 \in 1..n /\ records[j + 1] \in R
      BY <2>4
    <3>2. SubSeq(records, i, j + 1) = Append(a.selected, records[j + 1])
      BY <2>1, <2>7, <3>1, SubSeqAppend
    <3>3. SizeOf(Append(a.selected, records[j + 1])) = SizeOf(a.selected) + records[j + 1].size
      BY <2>1, <2>5, <3>1, SizeOfAppend
    <3>4. ~ a.open
      BY <2>1, <2>7
    <3>. QED  BY <2>7, <3>2, <3>3, <3>4
  <2>8. CASE ~ (a = NothingSelected /\ \A h \in 1..n : records[h].size > cap)
    <3>1. PICK i \in 1..n : \E j \in i..n :
                 /\ a.selected = SubSeq(records, i, j)
                 /\ a.used = SizeOf(a.selected)
                 /\ a.used <= cap
                 /\ records[i].size <= cap
                 /\ \A h \in 1..(i - 1) : records[h].size > cap
                 /\ a.open => j = n
                 /\ ~ a.open => j < n /\ a.used + records[j + 1].size > cap
      BY <2>3, <2>8 DEF SelectedARun
    <3>2. PICK j \in i..n :
                 /\ a.selected = SubSeq(records, i, j)
                 /\ a.used = SizeOf(a.selected)
                 /\ a.used <= cap
                 /\ records[i].size <= cap
                 /\ \A h \in 1..(i - 1) : records[h].size > cap
                 /\ a.open => j = n
                 /\ ~ a.open => j < n /\ a.used + records[j + 1].size > cap
      BY <3>1
    <3>3. j < n => SizeOf(SubSeq(records, i, j + 1)) > cap
      BY <2>7, <3>2
    <3>4. ~ \A h \in 1..n : records[h].size > cap
      BY <2>3, <2>4, <3>2
    <3>. QED  BY <3>2, <3>3, <3>4 DEF a, cap
  <2>. QED  BY <2>6, <2>8
<1>. QED  BY <1>1, BucketTypeCorrect, PTL

-----------------------------------------------------------------------------
(* Store and forward.                                                      *)

\* The batches that exist: those sent, and the one the sender waits on.
Underway == sent \cup (IF pending = <<>> THEN {} ELSE {pending})

\* A batch id stands for one batch, made of rows that were queued.
BatchesApart == /\ \A b, c \in Underway : b.id = c.id => b = c
                /\ \A b \in Underway : b.rows \subseteq issued

\* The ledger only holds what the sensor sent, number by number.
LedgerIsSent == \A c \in batches : \E b \in sent : c = Envelope(b) /\ Contiguous(b)

\* A successful answer is about a batch the ledger has.
AnswerIsTrue ==
  answer # <<>> /\ answer[2] \in {"accepted", "duplicate"} =>
    \E c \in batches : c.id = answer[1].id

\* The event with digest e was ingested, under some number it had.
Arrived(e) == \E y \in issued : y.id = e /\ Ingested(sensor, y.seq)

\* What acknowledge() is to delete has arrived.
AcksAreDue == \A e \in toAck : Arrived(e)

Accounted == \A x \in issued : x \in rows \/ x \in dropped \/ Arrived(x.id)

TransportInv == /\ rows \subseteq issued
                /\ BatchesApart /\ LedgerIsSent /\ AnswerIsTrue /\ AcksAreDue /\ Accounted

LEMMA TransportInvImplies == TransportInv => NothingLost
<1> SUFFICES ASSUME TransportInv
             PROVE  NothingLost
  OBVIOUS
<1>1. \A x \in issued : \/ x \in rows \/ x \in dropped
                        \/ \E y \in issued : y.id = x.id /\ Ingested(sensor, y.seq)
  BY DEF TransportInv, Accounted, Arrived
<1>2. ASSUME NEW c \in batches
      PROVE  \E b \in sent : b.id = c.id /\ Numbers(b) = c.first..c.last
  <2>1. PICK b \in sent : c = Envelope(b) /\ Contiguous(b)
    BY DEF TransportInv, LedgerIsSent
  <2>2. b.id = c.id
    BY <2>1 DEF Envelope
  <2>3. Numbers(b) = c.first..c.last
    BY <2>1 DEF Contiguous
  <2>. QED  BY <2>2, <2>3
<1>. QED  BY <1>1, <1>2 DEF NothingLost

\* What arrived stays so: rows are only ever issued, batches only ever recorded.
LEMMA ArrivedStays ==
  ASSUME issued \subseteq issued', batches \subseteq batches', NEW e, Arrived(e)
  PROVE  Arrived(e)'
BY DEF Arrived, Ingested

\* The numbers of a batch the ledger has were ingested.
LEMMA RecordedIsIngested ==
  ASSUME NEW b, Envelope(b) \in batches, Contiguous(b), NEW n \in Numbers(b)
  PROVE  Ingested(sensor, n)
<1>1. Envelope(b).key = sensor /\ n \in Envelope(b).first..Envelope(b).last
  BY DEF Envelope, Contiguous
<1>. QED  BY <1>1 DEF Ingested

LEMMA CaptureKeepsTransportInv ==
  ASSUME TransportInv, Capture
  PROVE  TransportInv'
<1>1. /\ dropped' = dropped \cup (rows \ rows') /\ issued \subseteq issued'
      /\ rows' \subseteq rows \cup issued' /\ issued' \subseteq issued \cup rows'
  <2>1. CASE Expire
    BY <2>1 DEF Capture, Expire
  <2>2. CASE Enqueue
    <3>1. PICK e \in Event : Rejected(e) \/ \E p \in Priority : Insert(e, p)
      BY <2>2 DEF Enqueue
    <3>2. CASE Rejected(e)
      BY <3>2 DEF Capture, Rejected, store
    <3>3. ASSUME NEW p \in Priority, Insert(e, p)
          PROVE  /\ rows' \subseteq rows \cup issued' /\ issued' \subseteq issued \cup rows'
                 /\ issued \subseteq issued'
      <4> DEFINE new == [id |-> e, key |-> KeyOf[e], seq |-> Sequence(KeyOf[e]),
                         prio |-> p, at |-> now]
      <4>1. PICK V \in Evictions(e) : rows' = (rows \ V) \cup {new}
        BY <3>3 DEF Insert
      <4>2. issued' = issued \cup {new}
        BY <3>3 DEF Insert
      <4> HIDE DEF new
      <4>. QED  BY <4>1, <4>2
    <3>. QED  BY <3>1, <3>2, <3>3 DEF Capture
  <2>. QED  BY <2>1, <2>2 DEF Capture
<1>2. /\ batches' = batches /\ answer' = answer /\ pending' = pending
      /\ toAck' = toAck /\ sent' = sent
  BY DEF Capture, ledgerVars, senderVars
<1>3. \A e : Arrived(e) => Arrived(e)'
  BY <1>1, <1>2, ArrivedStays
<1>4. BatchesApart' /\ LedgerIsSent' /\ AnswerIsTrue'
  BY <1>1, <1>2 DEF TransportInv, BatchesApart, Underway, LedgerIsSent, AnswerIsTrue,
     Envelope, Contiguous, Numbers
<1>5. AcksAreDue' /\ Accounted'
  BY <1>1, <1>2, <1>3 DEF TransportInv, AcksAreDue, Accounted
<1>6. rows' \subseteq issued'
  BY <1>1 DEF TransportInv
<1>. QED  BY <1>4, <1>5, <1>6 DEF TransportInv

LEMMA PrepareKeepsTransportInv ==
  ASSUME TransportInv, Prepare
  PROVE  TransportInv'
<1>1. PICK id \in BatchId \ {b.id : b \in sent} : \E chosen \in SUBSET rows :
        pending' = IF chosen = {} THEN <<>> ELSE [id |-> id, rows |-> chosen]
  <2>1. PICK limit \in 1..BatchEvents, id \in BatchId \ {b.id : b \in sent} :
          LET selected == Select(Peeked(limit), Allowance).selected
              chosen == {x \in Peek(sensor, limit) :
                           \E i \in DOMAIN selected : selected[i].row = x}
          IN  pending' = IF chosen = {} THEN <<>> ELSE [id |-> id, rows |-> chosen]
    BY DEF Prepare
  <2>2. Peek(sensor, limit) \subseteq rows
    BY DEF Peek
  <2>. QED  BY <2>1, <2>2
<1>3. PICK chosen \in SUBSET rows :
        pending' = IF chosen = {} THEN <<>> ELSE [id |-> id, rows |-> chosen]
  BY <1>1
<1>2. /\ rows' = rows /\ issued' = issued /\ dropped' = dropped /\ batches' = batches
      /\ answer' = answer /\ toAck' = toAck /\ sent' = sent /\ pending = <<>>
  BY DEF Prepare, queueVars, ledgerVars
<1>4. BatchesApart'
  <2> DEFINE new == [id |-> id, rows |-> chosen]
  <2>1. Underway = sent /\ Underway' \subseteq sent \cup {new}
    BY <1>2, <1>3 DEF Underway
  <2>2. new.id = id /\ new.rows = chosen /\ \A b \in sent : b.id # id
    OBVIOUS
  <2> HIDE DEF new
  <2>3. \A b, c \in Underway' : b.id = c.id => b = c
    BY <2>1, <2>2 DEF TransportInv, BatchesApart
  <2>4. \A b \in Underway' : b.rows \subseteq issued'
    BY <1>2, <1>3, <2>1, <2>2 DEF TransportInv, BatchesApart
  <2>. QED  BY <2>3, <2>4 DEF BatchesApart
<1>5. LedgerIsSent' /\ AnswerIsTrue'
  BY <1>2 DEF TransportInv, LedgerIsSent, AnswerIsTrue, Envelope, Contiguous, Numbers
<1>6. AcksAreDue' /\ Accounted' /\ rows' \subseteq issued'
  BY <1>2, ArrivedStays DEF TransportInv, AcksAreDue, Accounted
<1>. QED  BY <1>4, <1>5, <1>6 DEF TransportInv

LEMMA ReceiveKeepsTransportInv ==
  ASSUME TransportInv, Receive
  PROVE  TransportInv'
<1>1. /\ rows' = rows /\ issued' = issued /\ dropped' = dropped
      /\ toAck' = toAck /\ sent' = sent /\ pending' = pending
  BY DEF Receive, queueVars, senderVars
<1>2. PICK b \in sent :
        \/ Contiguous(b) /\ Request(Envelope(b))
        \/ ~ Contiguous(b) /\ answer' = <<Envelope(b), "rejected">> /\ UNCHANGED <<batches, cursor>>
  BY DEF Receive
<1>3. /\ batches \subseteq batches'
      /\ \A c \in batches' : c \in batches \/ (c = Envelope(b) /\ Contiguous(b))
      /\ answer'[1] = Envelope(b)
      /\ answer'[2] \in {"accepted", "duplicate"} => \E c \in batches' : c.id = Envelope(b).id
  <2>1. CASE ~ Contiguous(b) /\ answer' = <<Envelope(b), "rejected">> /\ UNCHANGED <<batches, cursor>>
    BY <2>1
  <2>2. CASE Contiguous(b) /\ Request(Envelope(b))
    <3>1. CASE Duplicate(Envelope(b))
      BY <3>1 DEF Duplicate, Refuse, Known
    <3>2. CASE Replay(Envelope(b)) \/ Gap(Envelope(b))
      BY <3>2 DEF Replay, Gap, Refuse
    <3>3. CASE Accept(Envelope(b))
      BY <2>2, <3>3 DEF Accept, Record
    <3>. QED  BY <2>2, <3>1, <3>2, <3>3 DEF Request
  <2>. QED  BY <1>2, <2>1, <2>2
<1>4. BatchesApart'
  BY <1>1 DEF TransportInv, BatchesApart, Underway
<1>5. LedgerIsSent'
  BY <1>1, <1>3 DEF TransportInv, LedgerIsSent, Envelope, Contiguous, Numbers
<1>6. AnswerIsTrue'
  BY <1>3 DEF AnswerIsTrue
<1>7. AcksAreDue' /\ Accounted' /\ rows' \subseteq issued'
  BY <1>1, <1>3, ArrivedStays DEF TransportInv, AcksAreDue, Accounted
<1>. QED  BY <1>4, <1>5, <1>6, <1>7 DEF TransportInv

LEMMA AnsweredKeepsTransportInv ==
  ASSUME TransportInv, Answered
  PROVE  TransportInv'
<1>1. /\ rows' = rows /\ issued' = issued /\ dropped' = dropped /\ batches' = batches
      /\ answer' = answer /\ sent' = sent /\ pending' = <<>> /\ pending # <<>>
      /\ answer # <<>> /\ answer[1].id = pending.id
      /\ toAck' = IF Delivered(answer[2]) THEN {x.id : x \in pending.rows} ELSE {}
  BY DEF Answered, queueVars, ledgerVars
<1>2. BatchesApart'
  BY <1>1 DEF TransportInv, BatchesApart, Underway
<1>3. LedgerIsSent' /\ AnswerIsTrue'
  BY <1>1 DEF TransportInv, LedgerIsSent, AnswerIsTrue, Envelope, Contiguous, Numbers
<1>4. Accounted' /\ rows' \subseteq issued'
  BY <1>1, ArrivedStays DEF TransportInv, Accounted
<1>5. ASSUME Delivered(answer[2]), NEW x \in pending.rows
      PROVE  Arrived(x.id)
  <2>1. PICK c \in batches : c.id = pending.id
    BY <1>1, <1>5, AckAssumption DEF TransportInv, AnswerIsTrue, Delivered, AckAssumption
  <2>2. PICK b \in sent : c = Envelope(b) /\ Contiguous(b)
    BY DEF TransportInv, LedgerIsSent
  <2>3. b = pending
    <3>1. b.id = pending.id
      BY <2>1, <2>2 DEF Envelope
    <3>2. b \in Underway /\ pending \in Underway
      BY <1>1 DEF Underway
    <3>. QED  BY <3>1, <3>2 DEF TransportInv, BatchesApart
  <2>4. x \in issued
    BY <1>1 DEF TransportInv, BatchesApart, Underway
  <2>5. x.seq \in Numbers(b)
    BY <2>3 DEF Numbers
  <2>6. Ingested(sensor, x.seq)
    BY <2>2, <2>5, RecordedIsIngested
  <2>. QED  BY <2>4, <2>6 DEF Arrived
<1>6. AcksAreDue'
  <2>1. \A e \in toAck' : Arrived(e)
    BY <1>1, <1>5
  <2>. QED  BY <1>1, <2>1, ArrivedStays DEF AcksAreDue
<1>. QED  BY <1>2, <1>3, <1>4, <1>6 DEF TransportInv

LEMMA AcknowledgeKeepsTransportInv ==
  ASSUME TransportInv, Acknowledge
  PROVE  TransportInv'
<1>1. PICK e \in toAck : AcknowledgeOne(e) /\ toAck' = toAck \ {e}
  BY DEF Acknowledge
<1>2. /\ rows' = {x \in rows : x.id # e} /\ issued' = issued /\ dropped' = dropped
      /\ batches' = batches /\ answer' = answer /\ sent' = sent /\ pending' = pending
  BY <1>1 DEF Acknowledge, AcknowledgeOne, ledgerVars
<1>3. Arrived(e)
  BY DEF TransportInv, AcksAreDue
<1>4. BatchesApart' /\ LedgerIsSent' /\ AnswerIsTrue'
  BY <1>2 DEF TransportInv, BatchesApart, Underway, LedgerIsSent, AnswerIsTrue,
     Envelope, Contiguous, Numbers
<1>5. AcksAreDue'
  BY <1>1, <1>2, ArrivedStays DEF TransportInv, AcksAreDue
<1>6. Accounted' /\ rows' \subseteq issued'
  BY <1>2, <1>3, ArrivedStays DEF TransportInv, Accounted
<1>. QED  BY <1>4, <1>5, <1>6 DEF TransportInv

LEMMA OthersKeepTransportInv ==
  ASSUME TransportInv, Transmit \/ Pass \/ Crash \/ UNCHANGED vars
  PROVE  TransportInv'
<1>1. /\ rows' = rows /\ issued' = issued /\ dropped' = dropped
      /\ batches' = batches /\ answer' = answer
  BY DEF Transmit, Pass, Crash, vars, queueVars, ledgerVars, Tick, store
<1>2. toAck' \subseteq toAck /\ sent \subseteq sent' /\ Underway' \subseteq Underway
  <2>1. CASE Transmit
    BY <2>1 DEF Transmit, senderVars, Underway
  <2>2. CASE Pass \/ UNCHANGED vars
    BY <2>2 DEF Pass, vars, senderVars, Underway
  <2>3. CASE Crash
    BY <2>3 DEF Crash, Underway
  <2>. QED  BY <2>1, <2>2, <2>3
<1>3. BatchesApart' /\ LedgerIsSent' /\ AnswerIsTrue'
  BY <1>1, <1>2 DEF TransportInv, BatchesApart, LedgerIsSent, AnswerIsTrue,
     Envelope, Contiguous, Numbers
<1>4. AcksAreDue' /\ Accounted' /\ rows' \subseteq issued'
  BY <1>1, <1>2, ArrivedStays DEF TransportInv, AcksAreDue, Accounted
<1>. QED  BY <1>3, <1>4 DEF TransportInv

(***************************************************************************)
(* Whatever the network and the sensor's crashes do, a queued event is     *)
(* still queued, was ingested, or was dropped by the queue's policy, and   *)
(* what the ledger counts as ingested is what the sensor sent.             *)
(***************************************************************************)
THEOREM NothingIsLost == Spec => []NothingLost
<1>1. Init => TransportInv
  BY DEF Init, QueueInit, EmptyLedger, TransportInv, BatchesApart, Underway, LedgerIsSent,
     AnswerIsTrue, AcksAreDue, Accounted
<1>2. TransportInv /\ [Next]_vars => TransportInv'
  BY CaptureKeepsTransportInv, PrepareKeepsTransportInv, ReceiveKeepsTransportInv,
     AnsweredKeepsTransportInv, AcknowledgeKeepsTransportInv, OthersKeepTransportInv
     DEF Next
<1>. QED  BY <1>1, <1>2, TransportInvImplies, PTL DEF Spec
==============================================================================
