--------------------------- MODULE Detection_proofs ----------------------------
(***************************************************************************)
(* The detector and how it is measured: for captures of every length and   *)
(* chunks of every size, for every feed and every signal, and for every    *)
(* corpus, dataset and set of scored cases.                                *)
(***************************************************************************)
EXTENDS Captures, Telemetry, FadeEngine, Evaluation, Correlation,
        FiniteSetTheorems, SequenceTheorems, WellFoundedInduction, TLAPS

-----------------------------------------------------------------------------
(***************************************************************************)
(* Numbers that are least, first or counted, and values that are distinct. *)
(***************************************************************************)
LEMMA LengthCounts ==
  ASSUME NEW n \in Nat
  PROVE  IsFiniteSet(1..n) /\ Cardinality(1..n) = n
<1>1. /\ IsFiniteSet(1..n)
      /\ Cardinality(1..n) = IF 1 > n THEN 0 ELSE n - 1 + 1
  BY FS_Interval
<1> QED BY <1>1

LEMMA LeastElement ==
  ASSUME NEW T \in SUBSET Nat, T # {}
  PROVE  \E n \in T : \A m \in T : n <= m
<1>1. IsWellFoundedOn(OpToRel(<, Nat), Nat)
  BY NatLessThanWellFounded
<1>2. PICK n \in T : \A m \in T : ~ (<<m, n>> \in OpToRel(<, Nat))
  BY <1>1, WFMin
<1>3. \A m \in T : ~ (m < n)
  BY <1>2 DEF OpToRel
<1> QED BY <1>3

LEMMA LeastIs ==
  ASSUME NEW T \in SUBSET Nat, NEW n \in T, \A m \in T : n <= m
  PROVE  Min(T) = n
<1>1. \A x \in T : (\A y \in T : x =< y) => x = n
  OBVIOUS
<1> QED BY <1>1 DEF Min

LEMMA LargerOf ==
  ASSUME NEW a \in Int, NEW b \in Int
  PROVE  /\ Max({a, b}) = IF a >= b THEN a ELSE b
         /\ Min({a, b}) = IF a <= b THEN a ELSE b
<1>1. \A x \in {a, b} : (\A y \in {a, b} : x >= y) => x = IF a >= b THEN a ELSE b
  OBVIOUS
<1>2. \E x \in {a, b} : \A y \in {a, b} : x >= y
  OBVIOUS
<1>3. \A x \in {a, b} : (\A y \in {a, b} : x =< y) => x = IF a <= b THEN a ELSE b
  OBVIOUS
<1>4. \E x \in {a, b} : \A y \in {a, b} : x =< y
  OBVIOUS
<1>5. Max({a, b}) = IF a >= b THEN a ELSE b
  BY <1>1, <1>2 DEF Max
<1> QED BY <1>3, <1>4, <1>5 DEF Min

Orders(R, S) ==
  /\ \A a, b \in S : a # b => <<a, b>> \in R \/ <<b, a>> \in R
  /\ \A a, b, c \in S : <<a, b>> \in R /\ <<b, c>> \in R => <<a, c>> \in R

\* A total and transitive order on a finite set of numbers has a first element.
LEMMA FirstInOrder ==
  ASSUME NEW n \in Nat, NEW S \in SUBSET (0..n), S # {}, NEW R, Orders(R, S)
  PROVE  \E b \in S : \A u \in S \ {b} : <<b, u>> \in R
<1> DEFINE First(b, k) == b <= k /\ \A u \in S : u <= k => u = b \/ <<b, u>> \in R
           Lacking == {k \in 0..n : (\E u \in S : u <= k) /\ ~ \E b \in S : First(b, k)}
<1>1. \A u \in S : u \in Int /\ 0 <= u /\ u <= n
  OBVIOUS
<1>2. ASSUME Lacking # {} PROVE FALSE
  <2>1. Lacking \in SUBSET Nat
    OBVIOUS
  <2> HIDE DEF Lacking
  <2>2. PICK k \in Lacking : \A m \in Lacking : k <= m
    BY <1>2, <2>1, LeastElement
  <2>3. k \in Int /\ 0 <= k /\ k <= n /\ (\E u \in S : u <= k) /\ ~ \E b \in S : First(b, k)
    BY <2>2 DEF Lacking
  <2>4. \A u \in S : u <= k <=> u <= k - 1 \/ u = k
    <3> TAKE u \in S
    <3>1. u \in Int
      BY <1>1
    <3> QED BY <2>3, <3>1
  <2>5. ASSUME \E u \in S : u <= k - 1
        PROVE  \E b \in S : First(b, k - 1)
    <3>1. k - 1 \in 0..n /\ ~ (k <= k - 1)
      BY <1>1, <2>3, <2>5
    <3>2. k - 1 \notin Lacking
      BY <2>2, <3>1
    <3> QED BY <2>5, <3>1, <3>2 DEF Lacking
  <2>6. k \in S
    <3>1. CASE k \notin S
      <4>1. PICK b \in S : First(b, k - 1)
        BY <2>3, <2>4, <2>5, <3>1
      <4>2. First(b, k)
        BY <2>4, <3>1, <4>1
      <4> QED BY <2>3, <4>2
    <3> QED BY <3>1
  <2>7. CASE ~ \E u \in S : u <= k - 1
    <3>1. First(k, k)
      BY <2>3, <2>4, <2>7
    <3> QED BY <2>3, <2>6, <3>1
  <2>8. CASE \E u \in S : u <= k - 1
    <3>1. PICK b \in S : First(b, k - 1)
      BY <2>5, <2>8
    <3>2. b <= k /\ b # k
      BY <1>1, <2>3, <3>1
    <3>3. CASE <<b, k>> \in R
      <4>1. First(b, k)
        BY <2>4, <3>1, <3>2, <3>3
      <4> QED BY <2>3, <4>1
    <3>4. CASE <<k, b>> \in R
      <4>1. \A u \in S : u <= k - 1 => <<k, u>> \in R
        BY <2>6, <3>1, <3>4 DEF Orders
      <4>2. First(k, k)
        BY <2>3, <2>4, <4>1
      <4> QED BY <2>3, <2>6, <4>2
    <3> QED BY <2>6, <3>2, <3>3, <3>4 DEF Orders
  <2> QED BY <2>7, <2>8
<1>3. PICK b \in S : First(b, n)
  <2>1. n \in 0..n /\ \E u \in S : u <= n
    <3>1. PICK u \in S : TRUE
      OBVIOUS
    <3> QED BY <1>1, <3>1
  <2> QED BY <1>2, <2>1
<1> QED BY <1>1, <1>3

StrictOrder(R, S) ==
  /\ \A a, b \in S : a # b => <<a, b>> \in R \/ <<b, a>> \in R
  /\ \A a, b \in S : <<a, b>> \in R => <<b, a>> \notin R /\ a # b
  /\ \A a, b, c \in S : <<a, b>> \in R /\ <<b, c>> \in R => <<a, c>> \in R

\* Sorting by counting lists every element once, each before the next.
LEMMA ArrangedInOrder ==
  ASSUME NEW S, IsFiniteSet(S), NEW R, StrictOrder(R, S)
  PROVE  LET n == Cardinality(S)
             order == Arranged(S, R)
         IN  /\ n \in Nat /\ order \in [1..n -> S]
             /\ \A i \in S : \E k \in 1..n : order[k] = i
             /\ \A k, m \in 1..n : k < m => <<order[k], order[m]>> \in R
             /\ \A k \in 1..n : Place(S, R, order[k]) = k
<1> DEFINE n == Cardinality(S)
           Behind(i) == {j \in S : j = i \/ <<j, i>> \in R}
           Where(i) == Place(S, R, i)
<1>1. n \in Nat
  BY FS_CardinalityType
<1>2. \A i \in S : Where(i) = Cardinality(Behind(i))
  BY DEF Place
<1>3. \A i \in S : IsFiniteSet(Behind(i)) /\ Where(i) \in Nat /\ Where(i) \in 1..n
  <2> TAKE i \in S
  <2>1. Behind(i) \in SUBSET S /\ i \in Behind(i)
    OBVIOUS
  <2> HIDE DEF Behind
  <2>2. IsFiniteSet(Behind(i)) /\ Cardinality(Behind(i)) <= n
    BY <2>1, FS_Subset
  <2>3. Cardinality(Behind(i)) \in Nat
    BY <2>2, FS_CardinalityType
  <2>4. Cardinality(Behind(i)) # 0
    BY <2>1, <2>2, FS_EmptySet
  <2> QED BY <1>1, <1>2, <2>2, <2>3, <2>4
<1>4. \A i, j \in S : <<i, j>> \in R => Where(i) < Where(j)
  <2> SUFFICES ASSUME NEW i \in S, NEW j \in S, <<i, j>> \in R PROVE Where(i) < Where(j)
    OBVIOUS
  <2>1. Behind(i) \in SUBSET Behind(j) /\ j \in Behind(j) /\ j \notin Behind(i)
    BY DEF StrictOrder
  <2>2. IsFiniteSet(Behind(j)) /\ Where(i) \in Nat /\ Where(j) \in Nat
    BY <1>3
  <2> HIDE DEF Behind
  <2>3. Cardinality(Behind(i)) <= Cardinality(Behind(j))
        /\ (Cardinality(Behind(j)) = Cardinality(Behind(i)) => Behind(j) = Behind(i))
    BY <2>1, <2>2, FS_Subset
  <2> QED BY <1>2, <2>1, <2>2, <2>3
<1> HIDE DEF Where
<1>5. \A i, j \in S : Where(i) = Where(j) => i = j
  <2> SUFFICES ASSUME NEW i \in S, NEW j \in S, Where(i) = Where(j), i # j PROVE FALSE
    OBVIOUS
  <2>1. Where(i) \in Nat /\ Where(j) \in Nat
    BY <1>3
  <2>2. <<i, j>> \in R \/ <<j, i>> \in R
    BY DEF StrictOrder
  <2> QED BY <1>4, <2>1, <2>2
<1>6. \A k \in 1..n : \E i \in S : Where(i) = k
  <2> DEFINE place == [i \in S |-> Where(i)]
  <2>1. place \in [S -> 1..n]
    BY <1>3
  <2>2. \A i, j \in S : place[i] = place[j] => i = j
    BY <1>5
  <2>3. place \in Injection(S, 1..n)
    BY <2>1, <2>2 DEF Injection, IsInjective
  <2>4. IsFiniteSet(1..n) /\ Cardinality(1..n) = n
    BY <1>1, LengthCounts
  <2>5. place \in Surjection(S, 1..n)
    BY <2>3, <2>4, FS_Injection
  <2> QED BY <2>5 DEF Surjection
<1> DEFINE order == [k \in 1..n |-> CHOOSE i \in S : Where(i) = k]
<1>7. Arranged(S, R) = order
  BY DEF Arranged, Where
<1>8. \A k \in 1..n : order[k] \in S /\ Where(order[k]) = k
  BY <1>6
<1>9. order \in [1..n -> S]
  BY <1>8
<1>10. \A i \in S : \E k \in 1..n : order[k] = i
  BY <1>3, <1>5, <1>8
<1>11. \A k, m \in 1..n : k < m => <<order[k], order[m]>> \in R
  <2> SUFFICES ASSUME NEW k \in 1..n, NEW m \in 1..n, k < m PROVE <<order[k], order[m]>> \in R
    OBVIOUS
  <2>1. k \in Int /\ m \in Int
    BY <1>1
  <2>2. order[k] # order[m] /\ ~ (<<order[m], order[k]>> \in R)
    BY <1>4, <1>8, <2>1
  <2> QED BY <1>8, <2>2 DEF StrictOrder
<1> QED BY <1>1, <1>7, <1>8, <1>9, <1>10, <1>11 DEF Where

LEMMA RangeIsFinite ==
  ASSUME NEW S, NEW s \in Seq(S)
  PROVE  /\ Len(s) \in Nat /\ DOMAIN s = 1..Len(s)
         /\ IsFiniteSet(Range(s)) /\ Cardinality(Range(s)) \in Nat
         /\ Distinct(s) <=> \A i, j \in DOMAIN s : s[i] = s[j] => i = j
<1>1. Len(s) \in Nat /\ DOMAIN s = 1..Len(s) /\ s \in [1..Len(s) -> S]
  BY LenProperties
<1>2. s \in Surjection(1..Len(s), Range(s))
  BY <1>1 DEF Surjection, Range
<1>3. IsFiniteSet(1..Len(s)) /\ Cardinality(1..Len(s)) = Len(s)
  BY <1>1, LengthCounts
<1>4. /\ IsFiniteSet(Range(s))
      /\ Cardinality(Range(s)) = Cardinality(1..Len(s)) <=> s \in Injection(1..Len(s), Range(s))
  BY <1>2, <1>3, FS_Surjection
<1>5. Cardinality(Range(s)) \in Nat
  BY <1>4, FS_CardinalityType
<1>6. s \in Injection(1..Len(s), Range(s)) <=> \A i, j \in DOMAIN s : s[i] = s[j] => i = j
  BY <1>1, <1>2 DEF Surjection, Injection, IsInjective
<1> QED BY <1>1, <1>3, <1>4, <1>5, <1>6 DEF Distinct

-----------------------------------------------------------------------------
(***************************************************************************)
(* Chunks: every one is a run of packets in the order they are stored.     *)
(***************************************************************************)
Run(a, b) == [k \in 1..(b - a + 1) |-> a + k - 1]
Chunks(n) == (n + ChunkSize - 1) \div ChunkSize
EndOf(i, n) == IF i * ChunkSize <= n THEN i * ChunkSize ELSE n

LEMMA RunFacts ==
  ASSUME NEW a \in Int, NEW b \in Int, a <= b + 1
  PROVE  /\ Run(a, b) \in Seq(Int) /\ Len(Run(a, b)) = b - a + 1
         /\ DOMAIN Run(a, b) = 1..(b - a + 1)
         /\ \A k \in 1..(b - a + 1) : Run(a, b)[k] = a + k - 1
         /\ Range(Run(a, b)) = a..b
<1>1. b - a + 1 \in Nat
  OBVIOUS
<1>2. Run(a, b) \in Seq(Int) /\ Len(Run(a, b)) = b - a + 1
  BY <1>1, IsASeq DEF Run
<1>3. \A p \in a..b : p - a + 1 \in 1..(b - a + 1) /\ a + (p - a + 1) - 1 = p
  OBVIOUS
<1>4. \A k \in 1..(b - a + 1) : a + k - 1 \in a..b
  OBVIOUS
<1>5. Range(Run(a, b)) = a..b
  BY <1>3, <1>4 DEF Range, Run
<1> QED BY <1>2, <1>5 DEF Run

LEMMA RunsJoin ==
  ASSUME NEW a \in Int, NEW b \in Int, NEW c \in Int, a <= b + 1, b <= c
  PROVE  Run(a, b) \o Run(b + 1, c) = Run(a, c)
<1>1. /\ Run(a, b) \in Seq(Int) /\ Len(Run(a, b)) = b - a + 1
      /\ \A k \in 1..(b - a + 1) : Run(a, b)[k] = a + k - 1
  BY RunFacts
<1>2. /\ Run(b + 1, c) \in Seq(Int) /\ Len(Run(b + 1, c)) = c - b
      /\ \A k \in 1..(c - b) : Run(b + 1, c)[k] = b + k
  <2>1. b + 1 \in Int /\ b + 1 <= c + 1 /\ c - (b + 1) + 1 = c - b
    OBVIOUS
  <2>2. /\ Run(b + 1, c) \in Seq(Int) /\ Len(Run(b + 1, c)) = c - (b + 1) + 1
        /\ \A k \in 1..(c - (b + 1) + 1) : Run(b + 1, c)[k] = (b + 1) + k - 1
    BY <2>1, RunFacts
  <2> QED BY <2>1, <2>2
<1>3. /\ Run(a, c) \in Seq(Int) /\ Len(Run(a, c)) = c - a + 1
      /\ \A k \in 1..(c - a + 1) : Run(a, c)[k] = a + k - 1
  <2>1. a <= c + 1
    OBVIOUS
  <2> QED BY <2>1, RunFacts
<1> DEFINE joined == Run(a, b) \o Run(b + 1, c)
<1>4. joined \in Seq(Int) /\ Len(joined) = c - a + 1
  <2>1. joined \in Seq(Int) /\ Len(joined) = Len(Run(a, b)) + Len(Run(b + 1, c))
    BY <1>1, <1>2, ConcatProperties
  <2> QED BY <1>1, <1>2, <2>1
<1>5. ASSUME NEW k \in 1..(c - a + 1) PROVE joined[k] = a + k - 1
  <2>1. CASE k <= b - a + 1
    BY <1>1, <1>2, <2>1, ConcatProperties
  <2>2. CASE ~ (k <= b - a + 1)
    <3>1. k - (b - a + 1) \in 1..(c - b)
      BY <2>2
    <3>2. joined[k] = Run(b + 1, c)[k - (b - a + 1)]
      BY <1>1, <1>2, <2>2, ConcatProperties
    <3>3. Run(b + 1, c)[k - (b - a + 1)] = b + (k - (b - a + 1))
      BY <1>2, <3>1
    <3>4. b + (k - (b - a + 1)) = a + k - 1
      OBVIOUS
    <3> HIDE DEF joined
    <3> QED BY <3>2, <3>3, <3>4
  <2> QED BY <2>1, <2>2
<1> HIDE DEF joined
<1>6. joined = Run(a, c)
  BY <1>3, <1>4, <1>5, SeqEqual
<1> QED BY <1>6 DEF joined

LEMMA EndOfRun ==
  ASSUME NEW a \in Int, NEW b \in Int, NEW m \in Nat, m <= b - a + 1
  PROVE  SubSeq(Run(a, b), Len(Run(a, b)) - m + 1, Len(Run(a, b))) = Run(b - m + 1, b)
<1> DEFINE s == Run(a, b)
           t == SubSeq(s, Len(s) - m + 1, Len(s))
<1>1. s \in Seq(Int) /\ Len(s) = b - a + 1 /\ \A k \in 1..(b - a + 1) : s[k] = a + k - 1
  <2>1. a <= b + 1
    OBVIOUS
  <2> QED BY <2>1, RunFacts
<1>2. /\ Run(b - m + 1, b) \in Seq(Int) /\ Len(Run(b - m + 1, b)) = m
      /\ \A k \in 1..m : Run(b - m + 1, b)[k] = b - m + k
  <2>1. b - m + 1 \in Int /\ b - m + 1 <= b + 1 /\ b - (b - m + 1) + 1 = m
    OBVIOUS
  <2>2. /\ Run(b - m + 1, b) \in Seq(Int) /\ Len(Run(b - m + 1, b)) = b - (b - m + 1) + 1
        /\ \A k \in 1..(b - (b - m + 1) + 1) : Run(b - m + 1, b)[k] = (b - m + 1) + k - 1
    BY <2>1, RunFacts
  <2> QED BY <2>1, <2>2
<1> HIDE DEF s
<1>3. t \in Seq(Int) /\ Len(t) = m /\ \A k \in 1..m : t[k] = s[Len(s) - m + 1 + k - 1]
  <2>1. Len(s) - m + 1 \in 1..(Len(s) + 1) /\ Len(s) \in 0..Len(s) /\ Len(s) - (Len(s) - m + 1) + 1 = m
    BY <1>1
  <2> QED BY <1>1, <2>1, SubSeqProperties
<1> HIDE DEF t
<1>4. ASSUME NEW k \in 1..m PROVE t[k] = b - m + k
  <2>1. Len(s) - m + 1 + k - 1 = b - a + 1 - m + k /\ b - a + 1 - m + k \in 1..(b - a + 1)
    BY <1>1
  <2>2. s[b - a + 1 - m + k] = a + (b - a + 1 - m + k) - 1
    BY <1>1, <2>1
  <2>3. a + (b - a + 1 - m + k) - 1 = b - m + k
    OBVIOUS
  <2> QED BY <1>3, <2>1, <2>2, <2>3
<1>5. t = Run(b - m + 1, b)
  BY <1>2, <1>3, <1>4, SeqEqual
<1> QED BY <1>5 DEF s, t

LEMMA Multiples ==
  ASSUME NEW i \in Int, NEW j \in Int
  PROVE  /\ i * ChunkSize \in Int /\ (i - 1) * ChunkSize = i * ChunkSize - ChunkSize
         /\ i <= j => i * ChunkSize <= j * ChunkSize
         /\ i < j => i * ChunkSize + ChunkSize <= j * ChunkSize
         /\ 0 * ChunkSize = 0 /\ 1 * ChunkSize = ChunkSize
         /\ ChunkSize \in Nat /\ ChunkSize > 0
<1>1. ChunkSize \in Nat /\ ChunkSize > 0
  BY CaptureAssumption
<1> QED BY <1>1

\* The chunks of a capture of n packets are runs that follow each other.
LEMMA CutIntoRuns ==
  ASSUME NEW n \in Nat
  PROVE  /\ Chunks(n) \in Nat /\ DOMAIN Cut(n) = 1..Chunks(n)
         /\ n <= Chunks(n) * ChunkSize /\ Chunks(n) * ChunkSize < n + ChunkSize
         /\ \A i \in 1..Chunks(n) : /\ Cut(n)[i] = Run((i - 1) * ChunkSize + 1, EndOf(i, n))
                                    /\ EndOf(i, n) \in Int /\ EndOf(i, n) <= n
                                    /\ (i - 1) * ChunkSize + 1 <= EndOf(i, n) /\ 0 <= (i - 1) * ChunkSize
                                    /\ i < Chunks(n) => EndOf(i, n) = i * ChunkSize
                                    /\ EndOf(i, n) = i * ChunkSize \/ (EndOf(i, n) = n /\ i = Chunks(n))
<1>1. ChunkSize \in Nat /\ ChunkSize > 0
  BY CaptureAssumption
<1> DEFINE q == Chunks(n)
<1>2. q \in Nat /\ ChunkSize * q <= n + ChunkSize - 1 /\ n + ChunkSize - 1 < ChunkSize * q + ChunkSize
  BY <1>1 DEF Chunks
<1>3. Cut(n) = [i \in 1..q |-> [k \in 1..Min({ChunkSize, n - (i - 1) * ChunkSize}) |-> (i - 1) * ChunkSize + k]]
  BY DEF Cut, Chunks
<1> HIDE DEF q
<1>4. q * ChunkSize \in Int /\ n <= q * ChunkSize /\ q * ChunkSize < n + ChunkSize
  BY <1>1, <1>2
<1>5. ASSUME NEW i \in 1..q
      PROVE  /\ Cut(n)[i] = Run((i - 1) * ChunkSize + 1, EndOf(i, n))
             /\ EndOf(i, n) \in Int /\ EndOf(i, n) <= n
             /\ (i - 1) * ChunkSize + 1 <= EndOf(i, n) /\ 0 <= (i - 1) * ChunkSize
             /\ i < q => EndOf(i, n) = i * ChunkSize
             /\ EndOf(i, n) = i * ChunkSize \/ (EndOf(i, n) = n /\ i = q)
  <2> DEFINE e == i * ChunkSize
  <2>1. /\ e \in Int /\ (i - 1) * ChunkSize = e - ChunkSize /\ e >= ChunkSize
        /\ e <= q * ChunkSize /\ (i < q => e + ChunkSize <= q * ChunkSize)
    <3>1. i \in Int /\ q \in Int /\ 1 \in Int /\ 1 <= i /\ i <= q
      BY <1>2
    <3> QED BY <3>1, Multiples
  <2>2. EndOf(i, n) = IF e <= n THEN e ELSE n
    BY DEF EndOf
  <2>3. Cut(n)[i] = [k \in 1..Min({ChunkSize, n - (i - 1) * ChunkSize}) |-> (i - 1) * ChunkSize + k]
    BY <1>3
  <2> HIDE DEF e
  <2>4. i < q => e <= n
    BY <1>1, <1>4, <2>1
  <2>5. /\ EndOf(i, n) \in Int /\ EndOf(i, n) <= n /\ e - ChunkSize + 1 <= EndOf(i, n)
        /\ i < q => EndOf(i, n) = e
        /\ EndOf(i, n) = e \/ (EndOf(i, n) = n /\ ~ (i < q))
    BY <1>1, <1>4, <2>1, <2>2, <2>4
  <2>6. Min({ChunkSize, n - (e - ChunkSize)}) = EndOf(i, n) - (e - ChunkSize)
    <3> DEFINE x == n - (e - ChunkSize)
               m == EndOf(i, n) - (e - ChunkSize)
    <3>1. m \in Int /\ x \in Int /\ m \in {ChunkSize, x} /\ m <= ChunkSize /\ m <= x
      BY <1>1, <2>1, <2>2
    <3> HIDE DEF x, m
    <3>2. \A y \in {ChunkSize, x} : (\A z \in {ChunkSize, x} : y =< z) => y = m
      BY <1>1, <3>1
    <3>3. Min({ChunkSize, x}) = m
      BY <3>1, <3>2 DEF Min
    <3> QED BY <3>3 DEF x, m
  <2>7. Cut(n)[i] = Run(e - ChunkSize + 1, EndOf(i, n))
    <3> DEFINE a == e - ChunkSize  b == EndOf(i, n)
    <3>1. a \in Int /\ b \in Int
      BY <1>1, <2>1, <2>5
    <3>4. (i - 1) * ChunkSize = a
      BY <2>1
    <3>5. Min({ChunkSize, n - a}) = b - a
      BY <2>6
    <3>6. Cut(n)[i] = [k \in 1..(b - a) |-> a + k]
      <4> HIDE DEF a, b
      <4> QED BY <2>3, <3>4, <3>5
    <3> HIDE DEF a, b
    <3>2. b - (a + 1) + 1 = b - a /\ \A k \in 1..(b - a) : (a + 1) + k - 1 = a + k
      BY <3>1
    <3>3. Run(a + 1, b) = [k \in 1..(b - a) |-> a + k]
      BY <3>2 DEF Run
    <3> QED BY <3>3, <3>6 DEF a, b
  <2>8. i <= q /\ i \in Int /\ q \in Int
    BY <1>2
  <2> QED BY <1>1, <2>1, <2>5, <2>7, <2>8 DEF e
<1>6. DOMAIN Cut(n) = 1..q
  BY <1>3
<1> QED BY <1>2, <1>4, <1>5, <1>6 DEF q

\* With the overlap every chunk begins Overlap packets before it would, or at the first
\* packet when there is no overlap, since chunk[-0:] is the whole chunk.
StartOf(i) == IF i = 1 \/ Overlap = 0 THEN 1 ELSE (i - 1) * ChunkSize - Overlap + 1
Fed(n) == [i \in 1..Chunks(n) |-> Run(StartOf(i), EndOf(i, n))]

LEMMA NextFed ==
  ASSUME NEW n \in Nat, NEW i \in 2..Chunks(n)
  PROVE  LastOf(Run(StartOf(i - 1), EndOf(i - 1, n))) \o Cut(n)[i] = Run(StartOf(i), EndOf(i, n))
<1> DEFINE e == (i - 1) * ChunkSize
<1>1. ChunkSize \in Nat /\ ChunkSize > 0 /\ Overlap \in 0..(ChunkSize - 1)
  BY CaptureAssumption
<1>2. Chunks(n) \in Nat /\ i - 1 \in 1..Chunks(n) /\ i \in 1..Chunks(n) /\ i - 1 < Chunks(n)
  <2>1. Chunks(n) \in Nat
    BY CutIntoRuns
  <2> QED BY <2>1
<1>3. /\ EndOf(i - 1, n) = e /\ Cut(n)[i] = Run(e + 1, EndOf(i, n))
      /\ EndOf(i, n) \in Int /\ e + 1 <= EndOf(i, n)
  BY <1>2, CutIntoRuns
<1>4. e \in Int /\ e >= ChunkSize /\ (i - 1 - 1) * ChunkSize = e - ChunkSize
  <2>1. i - 1 \in Int /\ 1 \in Int /\ 1 <= i - 1
    BY <1>2
  <2> QED BY <2>1, Multiples
<1> HIDE DEF e
<1> DEFINE s == StartOf(i - 1)
<1>5. s \in Int /\ s <= e - ChunkSize + 1 /\ (Overlap = 0 => s = 1) /\ s <= e + 1
  BY <1>1, <1>2, <1>4 DEF StartOf
<1>6. StartOf(i) = IF Overlap = 0 THEN 1 ELSE e - Overlap + 1
  BY <1>2 DEF StartOf, e
<1>7. Len(Run(s, e)) = e - s + 1
  <2> HIDE DEF s
  <2> QED BY <1>4, <1>5, RunFacts
<1> HIDE DEF s
<1>8. LastOf(Run(s, e)) = Run(StartOf(i), e)
  <2>1. CASE Overlap = 0
    BY <1>5, <1>6, <2>1 DEF LastOf
  <2>2. CASE Overlap # 0
    <3>1. Overlap \in Nat /\ Overlap > 0 /\ Len(Run(s, e)) > Overlap /\ Overlap <= e - s + 1
      BY <1>1, <1>4, <1>5, <1>7, <2>2
    <3>2. LastOf(Run(s, e)) = SubSeq(Run(s, e), Len(Run(s, e)) - Overlap + 1, Len(Run(s, e)))
      BY <3>1 DEF LastOf
    <3>3. SubSeq(Run(s, e), Len(Run(s, e)) - Overlap + 1, Len(Run(s, e))) = Run(e - Overlap + 1, e)
      BY <1>4, <1>5, <3>1, EndOfRun
    <3> QED BY <1>6, <2>2, <3>2, <3>3
  <2> QED BY <2>1, <2>2
<1>9. StartOf(i) \in Int /\ StartOf(i) <= e + 1
  BY <1>1, <1>4, <1>6
<1>10. e <= EndOf(i, n)
  BY <1>3, <1>4
<1>11. Run(StartOf(i), e) \o Run(e + 1, EndOf(i, n)) = Run(StartOf(i), EndOf(i, n))
  BY <1>3, <1>4, <1>9, <1>10, RunsJoin
<1> QED BY <1>3, <1>8, <1>11 DEF s

LEMMA StreamIsFedRuns ==
  ASSUME NEW n \in Nat
  PROVE  WithOverlap(Cut(n)) = Fed(n)
<1> DEFINE D == 1..Chunks(n)
           c == Cut(n)
           g == Fed(n)
           Turn(f) == [i \in D |-> IF i = 1 THEN c[1] ELSE LastOf(f[i - 1]) \o c[i]]
           h == WithOverlap(c)
<1>1. Chunks(n) \in Nat /\ DOMAIN c = D
  BY CutIntoRuns
<1>2. \A i \in D : i # 1 => i \in 2..Chunks(n) /\ i - 1 \in D /\ i - 1 # i /\ i \in Nat
  BY <1>1
<1>3. ASSUME 1 \in D PROVE c[1] = Run(StartOf(1), EndOf(1, n))
  <2>1. (1 - 1) * ChunkSize = 0
    BY Multiples
  <2>2. Cut(n)[1] = Run((1 - 1) * ChunkSize + 1, EndOf(1, n))
    BY <1>3, CutIntoRuns
  <2> QED BY <2>1, <2>2 DEF StartOf
<1>4. \A i \in D : g[i] = Run(StartOf(i), EndOf(i, n))
  BY DEF Fed
<1>5. \A i \in D : i # 1 => LastOf(g[i - 1]) \o c[i] = g[i]
  BY <1>2, <1>4, NextFed
<1>6. DOMAIN g = D /\ g = [i \in D |-> g[i]]
  BY DEF Fed
<1> HIDE DEF g, c, D
<1>7. g = Turn(g)
  <2>1. \A i \in D : g[i] = IF i = 1 THEN c[1] ELSE LastOf(g[i - 1]) \o c[i]
    <3> TAKE i \in D
    <3>1. CASE i = 1
      BY <1>3, <1>4, <3>1
    <3>2. CASE i # 1
      BY <1>5, <3>2
    <3> QED BY <3>1, <3>2
  <2> QED BY <1>6, <2>1
<1>8. h = CHOOSE f : f = Turn(f)
  BY <1>1 DEF WithOverlap
<1> HIDE DEF Turn
<1>9. h = Turn(h)
  BY <1>7, <1>8
<1> HIDE DEF h
<1>10. DOMAIN h = D /\ h = [i \in D |-> h[i]] /\ \A i \in D : h[i] = IF i = 1 THEN c[1] ELSE LastOf(h[i - 1]) \o c[i]
  BY <1>9 DEF Turn
<1> DEFINE Other == {i \in D : h[i] # g[i]}
<1>11. ASSUME Other # {} PROVE FALSE
  <2>1. Other \in SUBSET Nat
    BY <1>1 DEF D
  <2> HIDE DEF Other
  <2>2. PICK i \in Other : \A k \in Other : i <= k
    BY <1>11, <2>1, LeastElement
  <2>3. i \in D /\ h[i] # g[i] /\ i \in Nat
    BY <2>1, <2>2 DEF Other
  <2>4. i # 1
    BY <1>3, <1>4, <1>10, <2>3
  <2>5. i - 1 \in D /\ ~ (i <= i - 1)
    BY <1>2, <2>3, <2>4
  <2>6. h[i - 1] = g[i - 1]
    BY <2>2, <2>5 DEF Other
  <2> QED BY <1>5, <1>10, <2>3, <2>4, <2>6
<1>12. h = g
  BY <1>6, <1>10, <1>11
<1> QED BY <1>12 DEF h, g, c

\* Every packet is in one chunk.
LEMMA ChunkOfPacket ==
  ASSUME NEW n \in Nat, NEW p \in 1..n
  PROVE  \E i \in 1..Chunks(n) :
             /\ (i - 1) * ChunkSize < p /\ p <= EndOf(i, n)
             /\ \A k \in 1..Chunks(n) : (k - 1) * ChunkSize < p /\ p <= EndOf(k, n) => k = i
<1> DEFINE i == (p + ChunkSize - 1) \div ChunkSize
<1>1. ChunkSize \in Nat /\ ChunkSize > 0 /\ p \in Nat /\ 1 <= p /\ p <= n
  BY CaptureAssumption
<1>2. i \in Nat /\ ChunkSize * i <= p + ChunkSize - 1 /\ p + ChunkSize - 1 < ChunkSize * i + ChunkSize
  BY <1>1
<1> HIDE DEF i
<1>3. /\ i * ChunkSize \in Int /\ p <= i * ChunkSize /\ i * ChunkSize - ChunkSize < p
      /\ (i - 1) * ChunkSize = i * ChunkSize - ChunkSize
  <2>1. (i - 1) * ChunkSize = i * ChunkSize - ChunkSize
    BY <1>2, Multiples
  <2> QED BY <1>1, <1>2, <2>1
<1>4. i # 0
  <2>1. 0 * ChunkSize = 0
    BY Multiples
  <2> QED BY <1>1, <1>3, <2>1
<1>5. Chunks(n) \in Nat /\ Chunks(n) * ChunkSize \in Int /\ n <= Chunks(n) * ChunkSize
  <2>1. Chunks(n) \in Nat /\ n <= Chunks(n) * ChunkSize
    BY CutIntoRuns
  <2> QED BY <2>1, Multiples
<1>6. i <= Chunks(n)
  <2>1. ASSUME Chunks(n) < i PROVE FALSE
    <3>1. Chunks(n) * ChunkSize + ChunkSize <= i * ChunkSize
      BY <1>2, <1>5, <2>1, Multiples
    <3> QED BY <1>1, <1>3, <1>5, <3>1
  <2> QED BY <1>2, <1>5, <2>1
<1>7. p <= EndOf(i, n)
  BY <1>1, <1>3 DEF EndOf
<1>8. ASSUME NEW k \in 1..Chunks(n), (k - 1) * ChunkSize < p, p <= EndOf(k, n)
      PROVE  k = i
  <2>1. k \in Int /\ i \in Int
    BY <1>2, <1>5
  <2>2. k * ChunkSize \in Int /\ (k - 1) * ChunkSize = k * ChunkSize - ChunkSize
    BY <2>1, Multiples
  <2>3. p <= k * ChunkSize
    BY <1>1, <1>8, <2>2 DEF EndOf
  <2>4. k < i => k * ChunkSize + ChunkSize <= i * ChunkSize
    BY <2>1, Multiples
  <2>5. i < k => i * ChunkSize + ChunkSize <= k * ChunkSize
    BY <2>1, Multiples
  <2> QED BY <1>1, <1>3, <1>8, <2>1, <2>2, <2>3, <2>4, <2>5
<1>9. i \in 1..Chunks(n)
  BY <1>2, <1>4, <1>5, <1>6
<1> QED BY <1>3, <1>7, <1>8, <1>9

\* Any Overlap + 1 packets in a row are in a chunk that is fed to the detector.
LEMMA FedTogether ==
  ASSUME NEW n \in Nat, NEW p \in 1..n, p + Overlap \in 1..n
  PROVE  \E i \in DOMAIN Fed(n) : p..(p + Overlap) \subseteq Range(Fed(n)[i])
<1>1. ChunkSize \in Nat /\ ChunkSize > 0 /\ Overlap \in 0..(ChunkSize - 1) /\ p \in Nat /\ 1 <= p
  BY CaptureAssumption
<1>2. PICK i \in 1..Chunks(n) : (i - 1) * ChunkSize < p + Overlap /\ p + Overlap <= EndOf(i, n)
  BY ChunkOfPacket
<1>3. EndOf(i, n) \in Int /\ (i - 1) * ChunkSize \in Int
  <2>1. EndOf(i, n) \in Int /\ Chunks(n) \in Nat
    BY CutIntoRuns
  <2>2. i - 1 \in Int
    BY <2>1
  <2> QED BY <2>1, <2>2, Multiples
<1>4. StartOf(i) \in Int /\ StartOf(i) <= p
  BY <1>1, <1>2, <1>3 DEF StartOf
<1>5. Fed(n)[i] = Run(StartOf(i), EndOf(i, n)) /\ i \in DOMAIN Fed(n)
  BY DEF Fed
<1>6. StartOf(i) <= EndOf(i, n) + 1
  BY <1>1, <1>2, <1>3, <1>4
<1>7. Range(Fed(n)[i]) = StartOf(i)..EndOf(i, n)
  BY <1>3, <1>4, <1>5, <1>6, RunFacts
<1>8. p..(p + Overlap) \subseteq StartOf(i)..EndOf(i, n)
  BY <1>1, <1>2, <1>3, <1>4
<1> QED BY <1>5, <1>7, <1>8

\* The chunks without it share no packet and leave none out.
LEMMA CutOnce ==
  ASSUME NEW n \in Nat
  PROVE  /\ UNION {Range(Cut(n)[i]) : i \in DOMAIN Cut(n)} = 1..n
         /\ \A p \in 1..n : Cardinality({i \in DOMAIN Cut(n) : p \in Range(Cut(n)[i])}) = 1
<1>1. ASSUME NEW i \in 1..Chunks(n)
      PROVE  Range(Cut(n)[i]) = ((i - 1) * ChunkSize + 1)..EndOf(i, n) /\ Range(Cut(n)[i]) \subseteq 1..n
  <2>1. /\ Cut(n)[i] = Run((i - 1) * ChunkSize + 1, EndOf(i, n))
        /\ EndOf(i, n) \in Int /\ EndOf(i, n) <= n
        /\ (i - 1) * ChunkSize + 1 <= EndOf(i, n) /\ 0 <= (i - 1) * ChunkSize
        /\ Chunks(n) \in Nat
    BY CutIntoRuns
  <2>2. (i - 1) * ChunkSize \in Int
    <3>1. i - 1 \in Int
      BY <2>1
    <3> QED BY <3>1, Multiples
  <2> DEFINE a == (i - 1) * ChunkSize + 1  b == EndOf(i, n)
  <2>3. a \in Int /\ b \in Int /\ 1 <= a /\ a <= b + 1 /\ b <= n
    BY <2>1, <2>2
  <2>4. Cut(n)[i] = Run(a, b)
    BY <2>1
  <2> HIDE DEF a, b
  <2>5. a..b \subseteq 1..n
    BY <2>3
  <2>6. Range(Cut(n)[i]) = a..b
    BY <2>3, <2>4, RunFacts
  <2> QED BY <2>5, <2>6 DEF a, b
<1>2. DOMAIN Cut(n) = 1..Chunks(n) /\ Chunks(n) \in Nat
  BY CutIntoRuns
<1>3. ASSUME NEW p \in 1..n, NEW i \in 1..Chunks(n)
      PROVE  p \in Range(Cut(n)[i]) <=> (i - 1) * ChunkSize < p /\ p <= EndOf(i, n)
  <2>1. (i - 1) * ChunkSize \in Int /\ EndOf(i, n) \in Int
    <3>1. i - 1 \in Int
      BY <1>2
    <3> QED BY <3>1, Multiples, CutIntoRuns
  <2> QED BY <1>1, <2>1
<1>4. ASSUME NEW p \in 1..n
      PROVE  /\ \E i \in DOMAIN Cut(n) : p \in Range(Cut(n)[i])
             /\ Cardinality({i \in DOMAIN Cut(n) : p \in Range(Cut(n)[i])}) = 1
  <2>1. PICK i \in 1..Chunks(n) :
            /\ (i - 1) * ChunkSize < p /\ p <= EndOf(i, n)
            /\ \A k \in 1..Chunks(n) : (k - 1) * ChunkSize < p /\ p <= EndOf(k, n) => k = i
    BY ChunkOfPacket
  <2>2. {k \in DOMAIN Cut(n) : p \in Range(Cut(n)[k])} = {i}
    BY <1>2, <1>3, <2>1
  <2>3. Cardinality({i}) = 1
    BY FS_Singleton
  <2> QED BY <2>2, <2>3
<1>5. UNION {Range(Cut(n)[i]) : i \in DOMAIN Cut(n)} = 1..n
  BY <1>1, <1>2, <1>4
<1> QED BY <1>4, <1>5

-----------------------------------------------------------------------------
(***************************************************************************)
(* What the processing of chunks keeps to.                                 *)
(***************************************************************************)
Ranking == [chunk : Int, score : 0..2]
ChunkInv ==
  /\ capture \in Seq(Range(capture))
  /\ ranked \in Seq(Ranking) /\ pending \subseteq Int
  /\ task # "parallel" => pending = {}
  /\ task = "stream" /\ answer = "result" => pieces = WithOverlap(Cut(Len(capture)))
  /\ task = "parallel" => /\ pieces \in {<<>>, Cut(Len(capture))} /\ pending \subseteq DOMAIN pieces
                          /\ answer = "result" => pieces = Cut(Len(capture))

LEMMA ChunkInvariance == CaptureSpec => []ChunkInv
<1>1. CaptureInit(Stored) => ChunkInv
  BY CaptureAssumption DEF CaptureInit, ChunkInv
<1>2. ChunkInv /\ [CaptureNext]_captureVars => ChunkInv'
  <2> SUFFICES ASSUME ChunkInv, [CaptureNext]_captureVars PROVE ChunkInv'
    OBVIOUS
  <2> USE DEF ChunkInv
  <2>1. ASSUME NEW bins, NEW count, NEW value, Answers(bins, count, value), task # "parallel",
               task = "stream" /\ value = "result" => bins = WithOverlap(Cut(Len(capture)))
        PROVE  ChunkInv'
    BY <2>1 DEF Answers
  <2>2. CASE PcapToSignals
    BY <2>1, <2>2 DEF PcapToSignals
  <2>3. CASE ParsePcap
    BY <2>1, <2>3 DEF ParsePcap
  <2>4. CASE ToEntropySignals
    BY <2>1, <2>4 DEF ToEntropySignals
  <2>5. CASE SessionizeObservations
    BY <2>1, <2>5 DEF SessionizeObservations
  <2>6. CASE ActivitySeries
    BY <2>1, <2>6 DEF ActivitySeries
  <2>7. CASE ProcessPcapStream
    BY <2>1, <2>7 DEF ProcessPcapStream
  <2>8. CASE Submit
    <3>1. Len(capture) \in Nat
      BY LenProperties
    <3>2. DOMAIN Cut(Len(capture)) \subseteq Int
      BY <3>1, CutIntoRuns
    <3> QED BY <2>8, <3>2 DEF Submit
  <2>9. ASSUME NEW c \in pending, Completes(c) PROVE ChunkInv'
    <3>1. task = "parallel" /\ pieces = Cut(Len(capture)) /\ c \in Int
      BY <2>9
    <3>2. /\ pending' = pending \ {c}
          /\ UNCHANGED <<capture, course, task, pieces, total>>
      BY <2>9 DEF Completes
    <3>3. ranked' \in Seq(Ranking)
      <4>1. CASE UNCHANGED ranked
        BY <4>1
      <4>2. CASE \E score \in 0..2 : ranked' = Append(ranked, [chunk |-> c, score |-> score])
        <5>1. PICK score \in 0..2 : ranked' = Append(ranked, [chunk |-> c, score |-> score])
          BY <4>2
        <5>2. [chunk |-> c, score |-> score] \in Ranking
          BY <3>1 DEF Ranking
        <5> QED BY <5>1, <5>2, AppendProperties
      <4> QED BY <2>9, <4>1, <4>2 DEF Completes
    <3> QED BY <3>1, <3>2, <3>3
  <2>10. CASE UNCHANGED captureVars
    BY <2>10 DEF captureVars
  <2> QED BY <2>2, <2>3, <2>4, <2>5, <2>6, <2>7, <2>8, <2>9, <2>10 DEF CaptureNext
<1> QED BY <1>1, <1>2, PTL DEF CaptureSpec

\* The chunk reported is the best of those that finished.
LEMMA BestIsBest ==
  ASSUME ranked \in Seq(Ranking), NEW r \in Range(ranked), r.score > 0
  PROVE  \E b \in Range(ranked) : b.chunk = Best /\ b.score >= r.score
<1> DEFINE detected == {i \in DOMAIN ranked : ranked[i].score > 0}
           top == {i \in detected : \A k \in detected : ranked[k].score <= ranked[i].score}
           Misses == {2 - ranked[i].score : i \in detected}
<1>1. DOMAIN ranked \subseteq Nat /\ \A i \in DOMAIN ranked : ranked[i] \in Ranking /\ ranked[i].score \in 0..2
  <2>1. DOMAIN ranked = 1..Len(ranked) /\ Len(ranked) \in Nat /\ \A i \in 1..Len(ranked) : ranked[i] \in Ranking
    BY LenProperties, ElementOfSeq
  <2>2. \A x \in Ranking : x.score \in 0..2
    BY DEF Ranking
  <2> QED BY <2>1, <2>2
<1>2. PICK j \in DOMAIN ranked : ranked[j] = r
  BY DEF Range
<1>3. j \in detected
  BY <1>2
<1>4. Misses \in SUBSET Nat /\ Misses # {}
  BY <1>1, <1>3
<1>5. PICK m \in Misses : \A x \in Misses : m <= x
  <2> HIDE DEF Misses
  <2> QED BY <1>4, LeastElement
<1>6. PICK i \in detected : m = 2 - ranked[i].score
  BY <1>5
<1>7. \A k \in detected : ranked[k].score <= ranked[i].score
  <2> TAKE k \in detected
  <2>1. 2 - ranked[k].score \in Misses /\ ranked[k].score \in 0..2 /\ ranked[i].score \in 0..2
    BY <1>1
  <2> HIDE DEF Misses, detected
  <2>2. 2 - ranked[i].score <= 2 - ranked[k].score
    BY <1>5, <1>6, <2>1
  <2> QED BY <2>1, <2>2
<1>8. i \in top /\ top \in SUBSET Nat
  BY <1>1, <1>7
<1>9. PICK first \in top : \A k \in top : first <= k
  <2> HIDE DEF top
  <2> QED BY <1>8, LeastElement
<1>10. Min(top) = first
  <2> HIDE DEF top
  <2> QED BY <1>8, <1>9, LeastIs
<1>11. Best = ranked[first].chunk
  BY <1>3, <1>10 DEF Best
<1>12. ranked[first].score >= r.score /\ first \in DOMAIN ranked
  BY <1>1, <1>2, <1>3, <1>9
<1> QED BY <1>11, <1>12 DEF Range

\* A change in the signal is seen whole by some worker; parallel chunks share no packet and
\* leave none out, and the one reported is the best of those that finished.
THEOREM ContinuityIsKept == CaptureSpec => []ChunksKeepContinuity
<1>1. ChunkInv => ChunksKeepContinuity
  <2> SUFFICES ASSUME ChunkInv PROVE ChunksKeepContinuity
    OBVIOUS
  <2> DEFINE n == Len(capture)
  <2>1. n \in Nat /\ Packets = 1..n
    BY LenProperties DEF ChunkInv, Packets
  <2>2. ASSUME task = "stream", answer = "result", NEW p \in Packets, p + Overlap \in Packets
        PROVE  \E i \in DOMAIN pieces : p..(p + Overlap) \subseteq Range(pieces[i])
    <3>1. pieces = Fed(n)
      BY <2>1, <2>2, StreamIsFedRuns DEF ChunkInv
    <3> QED BY <2>1, <2>2, <3>1, FedTogether
  <2>3. ASSUME task = "parallel", answer = "result"
        PROVE  /\ Covered = Packets /\ \A p \in Packets : Cardinality(PieceOf(p)) = 1
               /\ \A r \in Range(ranked) : r.score > 0 =>
                      \E b \in Range(ranked) : b.chunk = Best /\ b.score >= r.score
    <3>1. pieces = Cut(n)
      BY <2>3 DEF ChunkInv
    <3>2. Covered = Packets /\ \A p \in Packets : Cardinality(PieceOf(p)) = 1
      BY <2>1, <3>1, CutOnce DEF Covered, PieceOf
    <3>3. ranked \in Seq(Ranking)
      BY DEF ChunkInv
    <3> QED BY <3>2, <3>3, BestIsBest
  <2> QED BY <2>2, <2>3 DEF ChunksKeepContinuity
<1> QED BY <1>1, ChunkInvariance, PTL

-----------------------------------------------------------------------------
(***************************************************************************)
(* The detector: the technique a detection is filed under.                 *)
(***************************************************************************)
\* A signal that is off for most of the time has matched a rule, whatever else it does.
LEMMA DropMatchesARule ==
  ASSUME NEW v, DropRatio(v) >= 550
  PROVE  RulesMatched(v) >= 1
<1> DEFINE n == Len(v)
           mid == n \div 2
           low == {i \in 1..(n - 7) : CalculateEntropy(v)[i] < 300}
           matched == {r \in 1..3 : \/ r = 1 /\ Cardinality(low) >= 3
                                    \/ r = 2 /\ MostlyOff(v)
                                    \/ r = 3 /\ n > 10 /\ 10 * On(v, 1, mid) < 3 * mid
                                             /\ 10 * On(v, mid + 1, n) > 6 * (n - mid)}
<1>1. RulesMatched(v) = Cardinality(matched)
  BY DEF RulesMatched
<1>2. MostlyOff(v)
  BY DEF MostlyOff
<1>3. 2 \in matched /\ matched \in SUBSET (1..3)
  BY <1>2
<1> HIDE DEF matched
<1>4. IsFiniteSet(1..3)
  <2>1. 3 \in Nat
    OBVIOUS
  <2> QED BY <2>1, LengthCounts
<1>5. IsFiniteSet(matched)
  BY <1>3, <1>4, FS_Subset
<1>6. Cardinality(matched) \in Nat /\ (Cardinality(matched) = 0 <=> matched = {})
  BY <1>5, FS_CardinalityType, FS_EmptySet
<1> QED BY <1>1, <1>3, <1>6

LEMMA DropIsANumber ==
  ASSUME NEW v \in Seq({0, 1}), Len(v) > 0
  PROVE  DropRatio(v) \in Int
<1> DEFINE D == {i \in 1..Len(v) : v[i] = 1}
<1>1. Len(v) \in Nat
  BY LenProperties
<1>2. IsFiniteSet(1..Len(v)) /\ D \in SUBSET (1..Len(v))
  BY <1>1, LengthCounts
<1> HIDE DEF D
<1>3. Cardinality(D) \in Nat
  BY <1>2, FS_Subset, FS_CardinalityType
<1>4. Off(v) \in Int
  BY <1>1, <1>3 DEF Off, Total, On, D
<1> QED BY <1>1, <1>4 DEF DropRatio, Ratio

\* What the engine's results have beside the detector's figures.
DropHasRule == /\ signal \in Seq({0, 1}) /\ result.drop \in Int
               /\ result.detected /\ result.drop >= 550 => result.rules >= 1

LEMMA DropHasRuleInvariance == EngineSpec => []DropHasRule
<1>1. EngineInit(Trace) => DropHasRule
  BY EngineAssumption DEF EngineInit, DropHasRule, TooShort
<1>2. DropHasRule /\ [Detect]_engineVars => DropHasRule'
  <2> SUFFICES ASSUME DropHasRule, [Detect]_engineVars PROVE DropHasRule'
    OBVIOUS
  <2>1. CASE Detect
    <3>1. PICK r \in DetectFade(signal, timed) : result' = WithMl(r, ml)
      BY <2>1 DEF Detect
    <3>2. r.drop \in Int /\ (r.detected /\ r.drop >= 550 => r.rules >= 1)
      <4>1. CASE r = TooShort
        BY <4>1 DEF TooShort
      <4>2. CASE r # TooShort
        <5>1. r.drop = DropRatio(signal) /\ r.rules = RulesMatched(signal)
          BY <3>1, <4>2 DEF DetectFade
        <5>2. Len(signal) \in Nat /\ Len(signal) > 0
          BY <3>1, <4>2, EngineAssumption, LenProperties DEF DetectFade, DropHasRule
        <5>3. DropRatio(signal) \in Int
          BY <5>2, DropIsANumber DEF DropHasRule
        <5> QED BY <5>1, <5>3, DropMatchesARule
      <4> QED BY <4>1, <4>2
    <3>3. WithMl(r, ml).detected = r.detected /\ WithMl(r, ml).drop = r.drop /\ WithMl(r, ml).rules = r.rules
      <4>1. CASE r = TooShort
        BY <4>1 DEF WithMl, TooShort
      <4>2. CASE r # TooShort
        BY <3>1, <4>2 DEF WithMl, DetectFade
      <4> QED BY <4>1, <4>2
    <3>4. signal' = signal
      BY <2>1 DEF Detect
    <3> QED BY <3>1, <3>2, <3>3, <3>4 DEF DropHasRule
  <2>2. CASE UNCHANGED engineVars
    BY <2>2 DEF engineVars, DropHasRule
  <2> QED BY <2>1, <2>2
<1> QED BY <1>1, <1>2, PTL DEF EngineSpec

\* The technique a detection is filed under is the one ranked first, unless only generic
\* ones match (match_mitre_ttp, match_all_ttps).
THEOREM FiledUnderTheFirst == EngineSpec => []PrimaryIsTop
<1>1. DropHasRule => PrimaryIsTop
  <2> SUFFICES ASSUME DropHasRule,
                      NEW all, all = MatchAllTtps(result), NEW top, top = Min(DOMAIN all),
                      DOMAIN all # {}, all[top] \notin Generic
               PROVE  MatchTtp(result) = all[top]
    BY DEF PrimaryIsTop
  <2> DEFINE r == result
             ordering == <<"T1573.002", "T1071.001", "T1573.001", "T1071.004", "T1205.001", "T1571",
                           "T1027", "T1202">>
             asked == <<"T1573.002", "T1071.001", "T1573.001", "T1071.004", "T1205.001", "T1573.001",
                        "T1027.003", "T1202", "T1027">>
             A == {i \in 1..9 : \/ i = 1 /\ r.drop >= 800 /\ r.z >= 250
                                \/ i = 2 /\ Sure(r) /\ r.drop >= 400
                                \/ i = 3 /\ Sure(r)
                                \/ i = 4 /\ r.drop >= 600 /\ r.rules >= 1
                                \/ i = 5 /\ r.drop >= 600 /\ r.rules >= 2
                                \/ i = 6 /\ r.entropy >= 6500
                                \/ i = 7 /\ r.drop >= 500
                                \/ i = 8 /\ r.score >= 300 /\ r.rules >= 1
                                \/ i = 9}
             M == {i \in 1..8 : \/ i = 1 /\ r.drop >= 800 /\ r.z >= 250
                                \/ i = 2 /\ Sure(r) /\ r.drop >= 400
                                \/ i = 3 /\ Sure(r)
                                \/ i = 4 /\ r.drop >= 600
                                \/ i = 5 /\ r.drop >= 600 /\ r.rules >= 2
                                \/ i = 6 /\ r.z >= 300
                                \/ i \in {7, 8} /\ r.score >= 300}
  <2>1. all = [i \in {k \in M : r.detected} |-> ordering[i]] /\ MatchTtp(r) = IF r.detected THEN asked[Min(A)] ELSE "none"
    BY DEF MatchAllTtps, MatchTtp
  <2>2. r.detected /\ DOMAIN all = M /\ \A i \in M : all[i] = ordering[i]
    BY <2>1
  <2>3. top \in M /\ \A i \in M : top <= i
    <3>1. M \in SUBSET Nat /\ M # {}
      BY <2>2
    <3>2. PICK i \in M : \A k \in M : i <= k
      <4> HIDE DEF M
      <4> QED BY <3>1, LeastElement
    <3>3. Min(M) = i
      <4> HIDE DEF M
      <4> QED BY <3>1, <3>2, LeastIs
    <3> QED BY <2>2, <3>2, <3>3
  <2>4. top \in 1..4
    <3>1. all[top] = ordering[top] /\ ordering[top] \notin {"T1571", "T1027", "T1202"}
      BY <2>2, <2>3 DEF Generic
    <3>2. top # 5
      BY <2>3
    <3> QED BY <2>3, <3>1, <3>2
  <2>5. top \in A /\ \A i \in A : top <= i
    <3>1. r.drop >= 600 => r.rules >= 1
      BY <2>2 DEF DropHasRule
    <3>2. top \in A
      BY <2>3, <2>4, <3>1
    <3>3. \A i \in 1..3 : i \in A <=> i \in M
      OBVIOUS
    <3>4. top \in Int /\ A \in SUBSET (1..9)
      BY <2>3
    <3> HIDE DEF A, M
    <3>5. ASSUME NEW i \in A PROVE top <= i
      <4>1. i \in 1..9
        BY <3>4
      <4>2. i \in 1..3 => top <= i
        BY <2>3, <3>3
      <4> QED BY <2>4, <4>1, <4>2
    <3> QED BY <3>2, <3>5
  <2>6. Min(A) = top
    <3>1. A \in SUBSET Nat
      OBVIOUS
    <3> HIDE DEF A
    <3> QED BY <2>5, <3>1, LeastIs
  <2>7. asked[top] = ordering[top]
    BY <2>4
  <2> QED BY <2>1, <2>2, <2>3, <2>6, <2>7
<1> QED BY <1>1, DropHasRuleInvariance, PTL

-----------------------------------------------------------------------------
(***************************************************************************)
(* Where a fade is: a signal that is on for a intervals and off after them.*)
(***************************************************************************)
Faded(v, a) == /\ v \in Seq({0, 1}) /\ Len(v) >= 8 /\ a \in 4..(Len(v) - 4) /\ 2 * a <= Len(v)
               /\ \A i \in DOMAIN v : v[i] = IF i <= a THEN 1 ELSE 0

\* Every number has a root, rounded down, and the search for it is long enough.
LEMMA RootIsFound ==
  ASSUME NEW x \in Nat
  PROVE  Sqrt(x) \in Nat /\ (x >= 10000 => Sqrt(x) >= 100)
<1> DEFINE Above == {r \in Nat : (r + 1) * (r + 1) > x}
<1>1. x \in Above
  <2>1. (x + 1) * (x + 1) = x * x + 2 * x + 1 /\ x * x \in Nat
    OBVIOUS
  <2> QED BY <2>1
<1>2. Above \in SUBSET Nat
  OBVIOUS
<1> HIDE DEF Above
<1>3. PICK r \in Above : \A m \in Above : r <= m
  BY <1>1, <1>2, LeastElement
<1>4. r \in Nat /\ (r + 1) * (r + 1) > x
  BY <1>2, <1>3 DEF Above
<1>5. r * r <= x
  <2>1. CASE r = 0
    BY <2>1
  <2>2. CASE r # 0
    <3>1. r - 1 \in Nat /\ ~ (r <= r - 1) /\ r - 1 + 1 = r
      BY <1>4, <2>2
    <3>2. r - 1 \notin Above
      BY <1>3, <3>1
    <3>3. ~ (r * r > x)
      BY <3>1, <3>2 DEF Above
    <3>4. r * r \in Nat
      BY <1>4
    <3> QED BY <3>3, <3>4
  <2> QED BY <2>1, <2>2
<1>6. r <= 1300 + x \div 1300
  <2>1. CASE r <= 1300
    <3>1. x \div 1300 \in Nat
      OBVIOUS
    <3> QED BY <1>4, <2>1, <3>1
  <2>2. CASE r > 1300
    <3>1. 1300 * r <= r * r
      BY <1>4, <2>2
    <3>2. 1300 * r <= x
      <4>1. r * r \in Nat /\ 1300 * r \in Nat
        BY <1>4
      <4> QED BY <1>5, <3>1, <4>1
    <3>3. r <= x \div 1300
      BY <1>4, <3>2
    <3>4. x \div 1300 \in Nat
      OBVIOUS
    <3> QED BY <1>4, <3>3, <3>4
  <2> QED BY <1>4, <2>1, <2>2
<1>7. r \in 0..(1300 + x \div 1300)
  <2>1. x \div 1300 \in Nat
    OBVIOUS
  <2> QED BY <1>4, <1>6, <2>1
<1> DEFINE s == Sqrt(x)
<1>8. s \in 0..(1300 + x \div 1300) /\ s * s <= x /\ (s + 1) * (s + 1) > x
  BY <1>4, <1>5, <1>7 DEF Sqrt
<1>9. s \in Nat
  BY <1>8
<1> HIDE DEF s
<1>10. ASSUME x >= 10000, s < 100 PROVE FALSE
  <2>1. (s + 1) * (s + 1) <= 100 * 100
    BY <1>9, <1>10
  <2>2. (s + 1) * (s + 1) \in Int
    BY <1>9
  <2> QED BY <1>8, <1>10, <2>1, <2>2
<1> QED BY <1>9, <1>10 DEF s

\* A running total exists, and stays between bounds on its terms.
LEMMA SumBetween ==
  ASSUME NEW n \in Nat, NEW s \in [1..n -> Int], Len(s) = n
  PROVE  /\ SumOf(s) \in Int
         /\ \A top \in Nat : (\A i \in 1..n : 0 <= s[i] /\ s[i] <= top) =>
                0 <= SumOf(s) /\ SumOf(s) <= top * n
<1> DEFINE Totals(f, m) == /\ f \in [0..m -> Int] /\ f[0] = 0
                           /\ \A i \in 1..m : f[i] = f[i - 1] + s[i]
           Reached(m) == \E f : Totals(f, m)
           Unreached == {m \in 0..n : ~ Reached(m)}
<1> HIDE DEF Reached
<1>1. Unreached = {}
  <2> SUFFICES ASSUME Unreached # {} PROVE FALSE
    OBVIOUS
  <2>1. Unreached \in SUBSET Nat
    OBVIOUS
  <2> HIDE DEF Unreached
  <2>2. PICK m \in Unreached : \A k \in Unreached : m <= k
    BY <2>1, LeastElement
  <2>3. m \in 0..n /\ m \in Nat /\ ~ Reached(m)
    BY <2>2 DEF Unreached
  <2>4. m # 0
    <3> SUFFICES ASSUME m = 0 PROVE FALSE
      OBVIOUS
    <3>1. Totals([i \in 0..0 |-> 0], 0)
      OBVIOUS
    <3> HIDE DEF Totals
    <3>2. Reached(0)
      BY <3>1 DEF Reached
    <3> QED BY <2>3, <3>2
  <2>5. m - 1 \in 0..n /\ ~ (m <= m - 1)
    BY <2>3, <2>4
  <2>6. Reached(m - 1)
    BY <2>2, <2>5 DEF Unreached
  <2>7. PICK f : Totals(f, m - 1)
    BY <2>6 DEF Reached
  <2> DEFINE g == [i \in 0..m |-> IF i = m THEN f[m - 1] + s[m] ELSE f[i]]
  <2>8. m \in 1..n /\ m - 1 \in 0..(m - 1) /\ s[m] \in Int /\ f[m - 1] \in Int
    BY <2>3, <2>4, <2>7
  <2>9. \A i \in 0..m : i # m => i \in 0..(m - 1)
    BY <2>3
  <2>10. g \in [0..m -> Int]
    BY <2>7, <2>8, <2>9
  <2>11. g[0] = 0
    BY <2>3, <2>4, <2>7
  <2>12. ASSUME NEW i \in 1..m PROVE g[i] = g[i - 1] + s[i]
    <3>1. i - 1 \in 0..m /\ i - 1 # m /\ i \in 0..m
      BY <2>3
    <3>2. CASE i = m
      BY <3>1, <3>2
    <3>3. CASE i # m
      <4>1. i \in 1..(m - 1)
        BY <2>3, <3>3
      <4> QED BY <2>7, <3>1, <3>3, <4>1
    <3> QED BY <3>2, <3>3
  <2>13. Totals(g, m)
    BY <2>10, <2>11, <2>12
  <2> HIDE DEF Totals, g
  <2>14. Reached(m)
    BY <2>13 DEF Reached
  <2> QED BY <2>3, <2>14
<1>2. PICK f : Totals(f, n)
  <2>1. Reached(n)
    BY <1>1
  <2> HIDE DEF Totals
  <2> QED BY <2>1 DEF Reached
<1> DEFINE Turn(u) == [i \in 0..n |-> IF i = 0 THEN 0 ELSE u[i - 1] + s[i]]
           h == CHOOSE u : u = Turn(u)
<1>3. f = Turn(f)
  <2>1. f = [i \in 0..n |-> f[i]]
    BY <1>2
  <2>2. \A i \in 0..n : f[i] = IF i = 0 THEN 0 ELSE f[i - 1] + s[i]
    BY <1>2
  <2> QED BY <2>1, <2>2
<1>4. SumOf(s) = h[n]
  BY DEF SumOf
<1> HIDE DEF Turn
<1>5. h = Turn(h)
  BY <1>3
<1> HIDE DEF h
<1>6. \A i \in 0..n : h[i] = IF i = 0 THEN 0 ELSE h[i - 1] + s[i]
  BY <1>5 DEF Turn
<1>7. ASSUME NEW top \in Int, NEW low \in {0, 1}, low = 1 => top \in Nat /\ \A i \in 1..n : 0 <= s[i] /\ s[i] <= top
      PROVE  \A i \in 0..n : h[i] \in Int /\ (low = 1 => 0 <= h[i] /\ h[i] <= top * i)
  <2> DEFINE Good(i) == h[i] \in Int /\ (low = 1 => 0 <= h[i] /\ h[i] <= top * i)
             Bad == {i \in 0..n : ~ Good(i)}
  <2> SUFFICES ASSUME Bad # {} PROVE FALSE
    OBVIOUS
  <2>1. Bad \in SUBSET Nat
    OBVIOUS
  <2> HIDE DEF Bad
  <2>2. PICK m \in Bad : \A k \in Bad : m <= k
    BY <2>1, LeastElement
  <2>3. m \in 0..n /\ m \in Nat /\ ~ Good(m)
    BY <2>2 DEF Bad
  <2>4. m # 0
    <3> SUFFICES ASSUME m = 0 PROVE FALSE
      OBVIOUS
    <3>1. h[0] = 0 /\ top * 0 = 0
      BY <1>6
    <3>2. Good(0)
      BY <3>1
    <3> QED BY <2>3, <3>2
  <2>5. m - 1 \in 0..n /\ ~ (m <= m - 1) /\ m \in 1..n
    BY <2>3, <2>4
  <2>6. Good(m - 1)
    BY <2>2, <2>5 DEF Bad
  <2>7. h[m] = h[m - 1] + s[m] /\ s[m] \in Int
    BY <1>6, <2>3, <2>4, <2>5
  <2>8. top * m = top * (m - 1) + top /\ top * m \in Int /\ top * (m - 1) \in Int
    BY <2>3
  <2>9. h[m] \in Int
    BY <2>6, <2>7
  <2>10. ASSUME low = 1 PROVE 0 <= h[m] /\ h[m] <= top * m
    <3>1. 0 <= s[m] /\ s[m] <= top /\ 0 <= h[m - 1] /\ h[m - 1] <= top * (m - 1) /\ h[m - 1] \in Int
      BY <1>7, <2>5, <2>6, <2>10
    <3> QED BY <2>7, <2>8, <3>1
  <2> QED BY <2>3, <2>9, <2>10
<1>8. n \in 0..n
  OBVIOUS
<1>9. h[n] \in Int
  BY <1>7, <1>8
<1>10. ASSUME NEW top \in Nat, \A i \in 1..n : 0 <= s[i] /\ s[i] <= top
       PROVE  0 <= h[n] /\ h[n] <= top * n
  BY <1>7, <1>8, <1>10
<1> QED BY <1>4, <1>9, <1>10

LEMMA OnCounts ==
  ASSUME NEW v, NEW a, Faded(v, a), NEW from \in Nat \ {0}, NEW to \in 0..Len(v)
  PROVE  LET last == IF to <= a THEN to ELSE a
         IN  On(v, from, to) = IF from > last THEN 0 ELSE last - from + 1
<1> DEFINE last == IF to <= a THEN to ELSE a
<1>1. Len(v) \in Nat /\ DOMAIN v = 1..Len(v) /\ a \in Nat
  BY LenProperties DEF Faded
<1>2. last \in Int /\ from \in Int
  BY <1>1
<1>3. ASSUME NEW i \in from..to PROVE v[i] = 1 <=> i <= a
  <2>1. i \in DOMAIN v
    BY <1>1
  <2> QED BY <2>1 DEF Faded
<1>4. {i \in from..to : v[i] = 1} = from..last
  <2>1. \A i \in from..last : i \in from..to /\ i <= a
    BY <1>1
  <2>2. \A i \in from..to : i <= a => i \in from..last
    BY <1>1
  <2> HIDE DEF last
  <2> QED BY <1>3, <2>1, <2>2
<1> HIDE DEF last
<1>5. Cardinality(from..last) = IF from > last THEN 0 ELSE last - from + 1
  BY <1>2, FS_Interval
<1> QED BY <1>4, <1>5 DEF On, last

\* The figures of the detector, as far as the decision needs them.
LEMMA FadedFigures ==
  ASSUME NEW v, NEW a, Faded(v, a)
  PROVE  LET n == Len(v)
         IN  /\ n \in Nat /\ n >= 8 /\ a \in 4..(n - 4) /\ 2 * a <= n
             /\ Total(v) = a /\ Off(v) = n - a
             /\ \A c \in 0..n : On(v, 1, c) = IF c <= a THEN c ELSE a
             /\ DropRatio(v) \in Nat /\ DropRatio(v) >= 500
             /\ ZOutlier(v) \in Nat /\ ZOutlier(v) >= 100
             /\ Edge(v) \in 1..n /\ OnFirst(v) \in 1..Edge(v) /\ OnLast(v) = 0
             /\ SustainedDrop(v) = 1000
<1> DEFINE n == Len(v)
<1>1. /\ n \in Nat /\ DOMAIN v = 1..n /\ n >= 8 /\ a \in Nat /\ 4 <= a /\ a <= n - 4 /\ 2 * a <= n
  BY LenProperties DEF Faded
<1>2. \A c \in 0..n : On(v, 1, c) = IF c <= a THEN c ELSE a
  <2> TAKE c \in 0..n
  <2>1. On(v, 1, c) = IF 1 > (IF c <= a THEN c ELSE a) THEN 0 ELSE (IF c <= a THEN c ELSE a) - 1 + 1
    <3>1. 1 \in Nat \ {0}
      OBVIOUS
    <3> QED BY <3>1, OnCounts
  <2> QED BY <1>1, <2>1
<1> HIDE DEF n
<1>3. Total(v) = a /\ Off(v) = n - a
  <2>1. Total(v) = On(v, 1, n)
    BY DEF Total, n
  <2>2. Total(v) = a
    BY <1>1, <1>2, <2>1
  <2> QED BY <2>2 DEF Off, n
<1>4. DropRatio(v) \in Nat /\ DropRatio(v) >= 500
  <2>1. DropRatio(v) = (1000 * (n - a)) \div n
    BY <1>3 DEF DropRatio, Ratio, n
  <2> QED BY <1>1, <2>1
<1>5. ZOutlier(v) \in Nat /\ ZOutlier(v) >= 100
  <2>1. Min({Total(v), Off(v)}) = a
    <3>1. n - a \in Int /\ a <= n - a
      BY <1>1
    <3> DEFINE rest == n - a
    <3>2. rest \in Int /\ a <= rest /\ Total(v) = a /\ Off(v) = rest
      BY <1>3, <3>1
    <3> HIDE DEF rest
    <3>3. Min({a, rest}) = IF a <= rest THEN a ELSE rest
      <4>1. a \in Int /\ rest \in Int
        BY <1>1, <3>2
      <4> QED BY <4>1, LargerOf
    <3> QED BY <3>2, <3>3
  <2>2. ZOutlier(v) = Sqrt((10000 * (n - a)) \div a)
    BY <1>1, <2>1 DEF ZOutlier, n
  <2>3. (10000 * (n - a)) \div a \in Nat /\ (10000 * (n - a)) \div a >= 10000
    BY <1>1
  <2> QED BY <2>2, <2>3, RootIsFound
<1>6. Edge(v) \in 1..n /\ Edge(v) <= n - a
  <2> DEFINE fifth == (2 * n + 5) \div 10
  <2>1. fifth \in Nat /\ 10 * fifth <= 2 * n + 5
    BY <1>1
  <2>2. fifth <= n - a
    BY <1>1, <2>1
  <2>3. Edge(v) = Max({1, fifth})
    BY DEF Edge, n
  <2> HIDE DEF fifth
  <2>4. Edge(v) = IF 1 >= fifth THEN 1 ELSE fifth
    BY <2>1, <2>3, LargerOf
  <2> QED BY <1>1, <2>1, <2>2, <2>4
<1>7. OnFirst(v) \in 1..Edge(v)
  <2>1. OnFirst(v) = IF Edge(v) <= a THEN Edge(v) ELSE a
    BY <1>1, <1>2, <1>6 DEF OnFirst
  <2> QED BY <1>1, <1>6, <2>1
<1>8. OnLast(v) = 0
  <2> DEFINE from == n - Edge(v) + 1
  <2>1. from \in Nat \ {0} /\ from > a /\ n \in 0..n
    BY <1>1, <1>6
  <2>2. OnLast(v) = On(v, from, n)
    BY DEF OnLast, n
  <2> HIDE DEF from
  <2>3. On(v, from, n) = IF from > (IF n <= a THEN n ELSE a) THEN 0
                         ELSE (IF n <= a THEN n ELSE a) - from + 1
    BY <2>1, OnCounts DEF n
  <2>4. from > IF n <= a THEN n ELSE a
    BY <1>1, <2>1
  <2> QED BY <2>2, <2>3, <2>4
<1>9. SustainedDrop(v) = 1000
  <2>1. OnFirst(v) \in Nat /\ OnFirst(v) > 0
    BY <1>6, <1>7
  <2>2. (1000 * OnFirst(v)) \div OnFirst(v) = 1000
    BY <2>1
  <2>3. OnFirst(v) - OnLast(v) = OnFirst(v) /\ OnFirst(v) > OnLast(v)
    BY <1>8, <2>1
  <2> QED BY <2>2, <2>3 DEF SustainedDrop, Ratio
<1> QED BY <1>1, <1>2, <1>3, <1>4, <1>5, <1>6, <1>7, <1>8, <1>9 DEF n

\* What SMT knows of division, for a divisor that is a variable.
LEMMA QuotientAndRest ==
  ASSUME NEW x \in Nat, NEW d \in Nat, d > 0
  PROVE  /\ x \div d \in Int /\ x % d \in Int /\ 0 <= x % d /\ x % d < d
         /\ x = d * (x \div d) + (x % d)
         /\ 0 \div d = 0 /\ d % d = 0
OBVIOUS

\* The cuts tried lie in the signal, follow each other, and are no farther apart
\* than their number makes them; while there are no more than may be tried there
\* is no gap between them.
LEMMA CutsAreSpaced ==
  ASSUME NEW n \in Nat, n >= 8
  PROVE  \E last \in Nat :
           /\ Tried(n) = 0..last
           /\ CutAt(n, 0) = {4} /\ CutAt(n, last) = {n - 4}
           /\ \A k \in 0..last : CutAt(n, k) \subseteq Int
           /\ \A k \in 0..(last - 1) : \A c \in CutAt(n, k), d \in CutAt(n, k + 1) :
                /\ c < d
                /\ \/ d = c + 1
                   \/ n - 7 > MaxCandidates /\ (d - c - 1) * (MaxCandidates - 1) <= n - 8
<1> DEFINE last == Atmost(MaxCandidates, n - 7) - 1
           span == n - 8
           parts == Max({1, Max(Tried(n))})
           q(k) == (k * span) \div parts
           rest(k) == (k * span) % parts
           fallsShort(k) == rest(k) = 0 /\ span % parts # 0 /\ k \notin {0, parts}
<1>1. MaxCandidates \in Nat /\ MaxCandidates >= 2
  BY EngineAssumption
<1>2. /\ last \in Nat /\ span \in Nat
      /\ n - 7 > MaxCandidates => last = MaxCandidates - 1 /\ span > last
      /\ ~ (n - 7 > MaxCandidates) => last = span
  BY <1>1 DEF Atmost
<1>3. Tried(n) = 0..last
  BY DEF Tried
<1> HIDE DEF last, span
<1>4. parts = (IF last = 0 THEN 1 ELSE last) /\ parts \in Nat /\ parts > 0
  <2>1. \A x \in 0..last : (\A y \in 0..last : x >= y) => x = last
    BY <1>2
  <2>2. \E x \in 0..last : \A y \in 0..last : x >= y
    BY <1>2
  <2>3. Max(Tried(n)) = last
    BY <1>3, <2>1, <2>2 DEF Max
  <2>4. Max({1, last}) = IF 1 >= last THEN 1 ELSE last
    BY <1>2, LargerOf
  <2> QED BY <1>2, <2>3, <2>4
<1>5. \A k : CutAt(n, k) = IF fallsShort(k) THEN {(4 + q(k)) - 1, 4 + q(k)} ELSE {4 + q(k)}
  BY DEF CutAt, span
<1> HIDE DEF parts
<1>6. ASSUME NEW k \in Nat
      PROVE  /\ q(k) \in Int /\ rest(k) \in Int /\ 0 <= rest(k) /\ rest(k) < parts
             /\ k * span = parts * q(k) + rest(k)
  <2>1. k * span \in Nat
    BY <1>2
  <2> QED BY <1>4, <2>1, QuotientAndRest
<1> HIDE DEF q, rest
<1>7. CutAt(n, 0) = {4}
  <2>1. q(0) = 0
    <3>1. 0 * span = 0
      BY <1>2
    <3>2. 0 \div parts = 0
      BY <1>4, QuotientAndRest
    <3> QED BY <3>1, <3>2 DEF q
  <2> QED BY <1>5, <2>1
<1>8. CutAt(n, last) = {n - 4}
  <2>1. CASE last = 0
    <3>1. n = 8
      BY <1>1, <1>2, <2>1 DEF span
    <3> QED BY <1>7, <2>1, <3>1
  <2>2. CASE last # 0
    <3>1. parts = last
      BY <1>4, <2>2
    <3>2. last * span = parts * q(last) + rest(last) /\ 0 <= rest(last) /\ rest(last) < parts /\ q(last) \in Int
          /\ rest(last) \in Int
      BY <1>2, <1>6
    <3>3. q(last) = span
      <4>1. \A p, s, x, r \in Int : p > 0 /\ p * s = p * x + r /\ 0 <= r /\ r < p => x = s
        <5> TAKE p, s, x, r \in Int
        <5> HAVE p > 0 /\ p * s = p * x + r /\ 0 <= r /\ r < p
        <5>1. p * (s - x) = r
          OBVIOUS
        <5>2. s - x >= 1 => p * (s - x) >= p
          OBVIOUS
        <5>3. s - x <= -1 => p * (s - x) <= -p
          OBVIOUS
        <5>4. s - x \in Int /\ ~ (s - x >= 1) /\ ~ (s - x <= -1)
          BY <5>1, <5>2, <5>3
        <5> QED BY <5>4
      <4>2. last \in Int /\ span \in Int /\ last > 0
        BY <1>2, <2>2
      <4> QED BY <3>1, <3>2, <4>1, <4>2
    <3>4. ~ fallsShort(last)
      BY <3>1
    <3>5. CutAt(n, last) = {4 + span}
      BY <1>5, <3>3, <3>4
    <3> QED BY <3>5 DEF span
  <2> QED BY <2>1, <2>2
<1>9. \A k \in 0..last : CutAt(n, k) \subseteq Int
  BY <1>5, <1>6
<1>10. ASSUME NEW k \in 0..(last - 1), NEW c \in CutAt(n, k), NEW d \in CutAt(n, k + 1)
       PROVE  /\ c < d
              /\ \/ d = c + 1
                 \/ n - 7 > MaxCandidates /\ (d - c - 1) * (MaxCandidates - 1) <= n - 8
  <2>1. k \in Nat /\ k + 1 \in Nat /\ last # 0 /\ parts = last
    BY <1>2, <1>4
  <2> DEFINE x == q(k)  r == rest(k)  y == q(k + 1)  t == rest(k + 1)
  <2>2. /\ x \in Int /\ r \in Int /\ 0 <= r /\ r < parts /\ k * span = parts * x + r
        /\ y \in Int /\ t \in Int /\ 0 <= t /\ t < parts /\ (k + 1) * span = parts * y + t
    BY <1>6, <2>1
  <2>3. c \in {4 + x - 1, 4 + x} /\ (c = 4 + x - 1 => r = 0 /\ span % parts # 0)
    <3>1. c \in IF fallsShort(k) THEN {(4 + x) - 1, 4 + x} ELSE {4 + x}
      BY <1>5
    <3> QED BY <2>2, <3>1
  <2>4. d \in {4 + y - 1, 4 + y} /\ (d = 4 + y - 1 => t = 0 /\ span % parts # 0)
    <3>1. d \in IF fallsShort(k + 1) THEN {(4 + y) - 1, 4 + y} ELSE {4 + y}
      BY <1>5
    <3> QED BY <2>2, <3>1
  <2> HIDE DEF x, r, y, t
  <2> DEFINE step == y - x
  <2>5. step \in Int /\ parts * step = span + r - t /\ y = x + step
    <3>1. (k + 1) * span = k * span + span
      BY <1>2, <2>1
    <3>2. parts * y + t = parts * x + r + span
      BY <2>2, <3>1
    <3>3. parts * (y - x) = parts * y - parts * x /\ parts * y \in Int /\ parts * x \in Int
      BY <1>4, <2>2
    <3> QED BY <1>2, <2>2, <3>2, <3>3
  <2> HIDE DEF step
  <2>6. /\ step >= 1
        /\ span > parts /\ t = 0 => step >= 2
    <3>1. step <= 0 => parts * step <= 0
      BY <1>4, <2>5
    <3>2. step <= 1 => parts * step <= parts
      BY <1>4, <2>5
    <3>3. span >= parts
      BY <1>2, <2>1
    <3>4. parts * step \in Int
      BY <1>4, <2>5
    <3> QED BY <1>2, <1>4, <2>2, <2>5, <3>1, <3>2, <3>3, <3>4
  <2>7. span % parts # 0 => span > parts /\ n - 7 > MaxCandidates
    <3>1. span = parts => span % parts = 0
      BY <1>4, QuotientAndRest
    <3> QED BY <1>2, <2>1, <3>1
  <2>8. c \in Int /\ d \in Int /\ c < d
    BY <2>2, <2>3, <2>4, <2>5, <2>6, <2>7
  <2>9. CASE ~ (n - 7 > MaxCandidates)
    <3>1. parts = span /\ parts * (step - 1) = r - t
      <4>1. parts * (step - 1) = parts * step - parts
        BY <1>4, <2>5
      <4> QED BY <1>2, <1>4, <2>1, <2>2, <2>5, <2>9, <4>1
    <3>2. step - 1 >= 1 => parts * (step - 1) >= parts
      <4>1. \A i, j \in Int : i > 0 /\ j >= 1 => i * j >= i
        OBVIOUS
      <4>2. step - 1 \in Int /\ parts \in Int
        BY <1>4, <2>5
      <4> QED BY <1>4, <4>1, <4>2
    <3>3. step = 1
      BY <1>4, <2>2, <2>5, <2>6, <3>1, <3>2
    <3>4. d = c + 1
      BY <2>2, <2>3, <2>4, <2>5, <2>7, <2>9, <3>3
    <3> QED BY <2>8, <3>4
  <2>10. CASE n - 7 > MaxCandidates
    <3>1. parts = MaxCandidates - 1
      BY <1>2, <2>1, <2>10
    <3>2. d - c - 1 <= step /\ (c = 4 + x => d - c - 1 <= step - 1) /\ d - c - 1 \in Int
      BY <2>2, <2>3, <2>4, <2>5, <2>8
    <3>3. \A u, w \in Int : u <= w => parts * u <= parts * w
      BY <1>4
    <3>4. CASE c = 4 + x
      <4>1. parts * (d - c - 1) <= parts * (step - 1)
        BY <2>5, <3>2, <3>3, <3>4
      <4>2. parts * (step - 1) = parts * step - parts
        BY <1>4, <2>5
      <4>3. parts * (step - 1) <= span
        BY <1>2, <1>4, <2>2, <2>5, <4>2
      <4>4. parts * (d - c - 1) <= span
        <5>1. parts * (d - c - 1) \in Int /\ parts * (step - 1) \in Int /\ span \in Int
          BY <1>2, <1>4, <2>5, <3>2
        <5> QED BY <4>1, <4>3, <5>1
      <4>5. parts * (d - c - 1) = (d - c - 1) * parts
        BY <1>4, <3>2
      <4> QED BY <2>8, <2>10, <3>1, <4>4, <4>5 DEF span
    <3>5. CASE c # 4 + x
      <4>1. r = 0
        BY <2>3, <3>5
      <4>2. parts * (d - c - 1) <= parts * step
        BY <2>5, <3>2, <3>3
      <4>3. parts * step <= span
        BY <1>2, <2>2, <2>5, <4>1
      <4>4. parts * (d - c - 1) <= span
        <5>1. parts * (d - c - 1) \in Int /\ parts * step \in Int /\ span \in Int
          BY <1>2, <1>4, <2>5, <3>2
        <5> QED BY <4>2, <4>3, <5>1
      <4>5. parts * (d - c - 1) = (d - c - 1) * parts
        BY <1>4, <3>2
      <4> QED BY <2>8, <2>10, <3>1, <4>4, <4>5 DEF span
    <3> QED BY <3>4, <3>5
  <2> QED BY <2>9, <2>10
<1> QED BY <1>2, <1>3, <1>7, <1>8, <1>9, <1>10

\* The difference of means is largest where the signal ends: the change is dated
\* there, or beside it when that cut is not tried.
OnTime(v, start, a) ==
  \/ start = a
  \/ Len(v) - 7 > MaxCandidates /\ Beside(start, a) * (MaxCandidates - 1) <= Len(v) - 8

LEMMA ChangeIsAtTheEnd ==
  ASSUME NEW v, NEW a, Faded(v, a)
  PROVE  /\ -1 \notin ChangePoints(v)
         /\ \A c \in ChangePoints(v) : OnTime(v, c, a)
<1> DEFINE n == Len(v)
           cuts == 4..(n - 4)
           NoLess(c, d) == Shift(v, c) * d * (n - d) >= Shift(v, d) * c * (n - c)
           Largest(c, k) == \A j \in Tried(n) \ {k} : \E d \in CutAt(n, j) : NoLess(c, d)
<1>1. /\ n \in Nat /\ n >= 8 /\ a \in cuts /\ 2 * a <= n /\ Total(v) = a
      /\ \A c \in 0..n : On(v, 1, c) = IF c <= a THEN c ELSE a
  BY FadedFigures
<1>2. ChangePoints(v) = {c \in cuts : \E k \in Tried(n) : c \in CutAt(n, k) /\ Largest(c, k)}
  BY <1>1 DEF ChangePoints
<1>3. \A c \in cuts : Shift(v, c) = IF c <= a THEN c * (n - a) ELSE a * (n - c)
  <2> TAKE c \in cuts
  <2>1. c \in 0..n /\ c \in Nat /\ a \in Nat /\ n - a \in Nat /\ n - c \in Nat
    BY <1>1
  <2> DEFINE d == n * On(v, 1, c) - c * a
  <2>2. Shift(v, c) = IF d < 0 THEN -d ELSE d
    BY <1>1 DEF Shift
  <2>3. CASE c <= a
    <3>1. d = n * c - c * a
      BY <1>1, <2>1, <2>3
    <3>2. n * c - c * a = c * (n - a) /\ c * (n - a) \in Nat
      BY <1>1, <2>1
    <3> HIDE DEF d
    <3> QED BY <2>2, <2>3, <3>1, <3>2
  <2>4. CASE c > a
    <3>1. d = n * a - c * a /\ ~ (c <= a)
      BY <1>1, <2>1, <2>4
    <3>2. n * a - c * a = a * (n - c) /\ a * (n - c) \in Nat
      BY <1>1, <2>1
    <3> HIDE DEF d
    <3> QED BY <2>2, <3>1, <3>2
  <2> QED BY <2>1, <2>3, <2>4
\* Towards the end the difference grows, from either side.
<1>4. ASSUME NEW c \in cuts, NEW d \in cuts, c < d, d <= a PROVE ~ NoLess(c, d)
  <2> DEFINE z == n - a  x == n - c  y == n - d  m == c * z * d
  <2>1. /\ c \in Int /\ d \in Int /\ x \in Int /\ y \in Int /\ z \in Int
        /\ c > 0 /\ d > 0 /\ z > 0 /\ y < x
    BY <1>1, <1>4
  <2>2. Shift(v, c) = c * z /\ Shift(v, d) = d * z
    BY <1>1, <1>3, <1>4
  <2> HIDE DEF x, y, z
  <2>3. m \in Int /\ m > 0
    <3>1. c * z \in Int /\ c * z > 0
      BY <2>1
    <3> DEFINE w == c * z
    <3> HIDE DEF w
    <3>2. w \in Int /\ w > 0 => w * d \in Int /\ w * d > 0
      BY <2>1
    <3> QED BY <3>1, <3>2 DEF w
  <2>4. d * z * c * x = m * x
    <3>1. d * z * c = c * z * d
      BY <2>1
    <3> QED BY <3>1
  <2> HIDE DEF m
  <2>5. m * y < m * x /\ m * y \in Int /\ m * x \in Int
    BY <2>1, <2>3
  <2>6. ~ (m * y >= m * x)
    BY <2>5
  <2>7. NoLess(c, d) <=> c * z * d * y >= d * z * c * x
    BY <2>2 DEF x, y
  <2> HIDE DEF NoLess
  <2> QED BY <2>4, <2>6, <2>7 DEF m
<1>5. ASSUME NEW c \in cuts, NEW d \in cuts, a <= d, d < c PROVE ~ NoLess(c, d)
  <2> DEFINE x == n - c  y == n - d  m == a * x * y
  <2>1. /\ a \in Int /\ c \in Int /\ d \in Int /\ x \in Int /\ y \in Int
        /\ a > 0 /\ x > 0 /\ y > 0
    BY <1>1, <1>5
  <2>2. Shift(v, c) = a * x /\ Shift(v, d) = a * y
    <3>1. d = a => d * (n - a) = a * (n - d)
      BY <1>1
    <3>2. ~ (c <= a) /\ (d <= a => d = a)
      BY <1>1, <1>5
    <3>3. Shift(v, c) = a * (n - c)
      BY <1>3, <1>5, <3>2
    <3>4. Shift(v, d) = a * (n - d)
      BY <1>3, <1>5, <3>1, <3>2
    <3> QED BY <3>3, <3>4
  <2> HIDE DEF x, y
  <2>3. m \in Int /\ m > 0
    <3>1. a * x \in Int /\ a * x > 0
      BY <2>1
    <3> DEFINE w == a * x
    <3> HIDE DEF w
    <3>2. w \in Int /\ w > 0 => w * y \in Int /\ w * y > 0
      BY <2>1
    <3> QED BY <3>1, <3>2 DEF w
  <2>4. a * x * d * y = m * d /\ a * y * c * x = m * c
    <3> DEFINE w == a * x  u == a * y
    <3>1. w \in Int /\ u \in Int /\ w * y = u * x
      BY <2>1
    <3> HIDE DEF w, u
    <3>2. w * d * y = w * y * d /\ u * c * x = u * x * c
      BY <2>1, <3>1
    <3> QED BY <3>1, <3>2 DEF w, u
  <2> HIDE DEF m
  <2>5. m * d < m * c /\ m * d \in Int /\ m * c \in Int
    BY <1>5, <2>1, <2>3
  <2>6. ~ (m * d >= m * c)
    BY <2>5
  <2>7. NoLess(c, d) <=> a * x * d * y >= a * y * c * x
    BY <2>2 DEF x, y
  <2> HIDE DEF NoLess
  <2> QED BY <2>4, <2>6, <2>7
<1> HIDE DEF NoLess
<1>6. PICK last \in Nat :
        /\ Tried(n) = 0..last
        /\ CutAt(n, 0) = {4} /\ CutAt(n, last) = {n - 4}
        /\ \A k \in 0..last : CutAt(n, k) \subseteq Int
        /\ \A k \in 0..(last - 1) : \A c \in CutAt(n, k), d \in CutAt(n, k + 1) :
             /\ c < d
             /\ \/ d = c + 1
                \/ n - 7 > MaxCandidates /\ (d - c - 1) * (MaxCandidates - 1) <= n - 8
  BY <1>1, CutsAreSpaced
<1>7. MaxCandidates \in Nat /\ MaxCandidates >= 2
  BY EngineAssumption
\* Between two cuts with the end between them, each is near it.
<1>8. ASSUME NEW c \in Int, NEW d \in Int, c < a, a < d,
             \/ d = c + 1
             \/ n - 7 > MaxCandidates /\ (d - c - 1) * (MaxCandidates - 1) <= n - 8
      PROVE  OnTime(v, c, a) /\ OnTime(v, d, a)
  <2>1. a \in Int /\ n - 7 > MaxCandidates /\ (d - c - 1) * (MaxCandidates - 1) <= n - 8
    BY <1>1, <1>8
  <2>2. /\ Beside(c, a) = a - c /\ Beside(d, a) = d - a
        /\ a - c <= d - c - 1 /\ d - a <= d - c - 1
        /\ a - c \in Int /\ d - a \in Int /\ d - c - 1 \in Int
    BY <1>8, <2>1 DEF Beside
  <2>3. \A u, w, m \in Int : u <= w /\ m > 0 => u * m <= w * m /\ u * m \in Int /\ w * m \in Int
    OBVIOUS
  <2> DEFINE m == MaxCandidates - 1
  <2>4. m \in Int /\ m > 0
    BY <1>7
  <2>5. /\ (a - c) * m <= (d - c - 1) * m /\ (d - a) * m <= (d - c - 1) * m
        /\ (a - c) * m \in Int /\ (d - a) * m \in Int /\ (d - c - 1) * m \in Int
    BY <2>2, <2>3, <2>4
  <2>6. n - 8 \in Int /\ (d - c - 1) * m <= n - 8
    BY <1>1, <2>1
  <2> HIDE DEF m
  <2>7. (a - c) * m <= n - 8 /\ (d - a) * m <= n - 8
    BY <2>5, <2>6
  <2> QED BY <2>1, <2>2, <2>7 DEF OnTime, m, n
<1>9. ASSUME NEW c \in cuts, NEW k \in 0..last, c \in CutAt(n, k), Largest(c, k)
      PROVE  OnTime(v, c, a)
  <2>1. CASE c = a
    BY <2>1 DEF OnTime
  <2>2. CASE c < a
    <3>1. k # last
      BY <1>1, <1>6, <1>9, <2>2
    <3>2. k \in 0..(last - 1) /\ k + 1 \in Tried(n) \ {k} /\ k + 1 \in 0..last
      BY <1>6, <3>1
    <3>3. PICK d \in CutAt(n, k + 1) : NoLess(c, d)
      BY <1>9, <3>2
    <3>4. /\ d \in Int /\ c < d
          /\ \/ d = c + 1
             \/ n - 7 > MaxCandidates /\ (d - c - 1) * (MaxCandidates - 1) <= n - 8
      BY <1>6, <1>9, <3>2, <3>3
    <3>5. ~ (d <= a)
      <4>1. d <= a => d \in cuts
        BY <1>1, <3>4
      <4> QED BY <1>4, <3>3, <3>4, <4>1
    <3>6. a < d
      BY <1>1, <3>4, <3>5
    <3> QED BY <1>8, <2>2, <3>4, <3>6
  <2>3. CASE c > a
    <3>1. k # 0
      BY <1>1, <1>6, <1>9, <2>3
    <3>2. k - 1 \in 0..(last - 1) /\ k - 1 \in Tried(n) \ {k} /\ k - 1 \in 0..last /\ (k - 1) + 1 = k
      BY <1>6, <3>1
    <3>3. PICK d \in CutAt(n, k - 1) : NoLess(c, d)
      BY <1>9, <3>2
    <3>4. /\ d \in Int /\ d < c
          /\ \/ c = d + 1
             \/ n - 7 > MaxCandidates /\ (c - d - 1) * (MaxCandidates - 1) <= n - 8
      BY <1>6, <1>9, <3>2, <3>3
    <3>5. ~ (a <= d)
      <4>1. a <= d => d \in cuts
        BY <1>1, <3>4
      <4> QED BY <1>5, <3>3, <3>4, <4>1
    <3>6. d < a /\ a < c
      BY <1>1, <2>3, <3>4, <3>5
    <3> QED BY <1>8, <3>4, <3>6
  <2>4. c \in Int /\ a \in Int
    BY <1>1
  <2> QED BY <2>1, <2>2, <2>3, <2>4
<1> HIDE DEF Largest
<1>10. -1 \notin cuts
  OBVIOUS
<1> QED BY <1>2, <1>6, <1>9, <1>10

\* The remaining evidence is never negative.
LEMMA OtherEvidence ==
  ASSUME NEW v, NEW a, Faded(v, a)
  PROVE  /\ AverageEntropy(v) \in Nat /\ AverageEntropy(v) <= 3000
         /\ BaselineScore(v) \in Nat /\ SlopeChange(v) \in Nat /\ Persistence(v) \in Nat
         /\ Recovery(v) \in Nat
         /\ \A known \in BOOLEAN : Periodicity(v, known) \in Nat
<1> DEFINE n == Len(v)
<1>1. /\ n \in Nat /\ n >= 8 /\ a \in 4..(n - 4) /\ a \in Nat /\ 2 * a <= n
      /\ Total(v) = a /\ Off(v) = n - a
      /\ Edge(v) \in 1..n /\ OnFirst(v) \in 1..Edge(v) /\ OnLast(v) = 0 /\ SustainedDrop(v) = 1000
  BY FadedFigures
<1>2. AverageEntropy(v) \in Nat /\ AverageEntropy(v) <= 3000
  <2> DEFINE series == CalculateEntropy(v)
             count == n - 7
  <2>1. count \in Nat /\ count > 0
    BY <1>1
  <2>2. series = [i \in 1..count |-> WindowEntropy(On(v, i, i + 7))]
    BY DEF CalculateEntropy
  <2>3. \A k \in 0..8 : WindowEntropy(k) \in Nat /\ WindowEntropy(k) <= 3000
    BY DEF WindowEntropy
  <2>4. ASSUME NEW i \in 1..count PROVE On(v, i, i + 7) \in 0..8
    <3>1. {j \in i..(i + 7) : v[j] = 1} \in SUBSET (i..(i + 7))
      OBVIOUS
    <3>2. IsFiniteSet(i..(i + 7)) /\ Cardinality(i..(i + 7)) = 8
      <4>1. i \in Int /\ i + 7 \in Int
        BY <2>1
      <4> DEFINE k == i + 7
      <4>2. ~ (i > k) /\ k - i + 1 = 8
        BY <4>1
      <4> HIDE DEF k
      <4>3. IsFiniteSet(i..k) /\ Cardinality(i..k) = IF i > k THEN 0 ELSE k - i + 1
        BY <4>1, FS_Interval DEF k
      <4> QED BY <4>2, <4>3 DEF k
    <3>3. IsFiniteSet({j \in i..(i + 7) : v[j] = 1}) /\ Cardinality({j \in i..(i + 7) : v[j] = 1}) <= 8
      BY <3>1, <3>2, FS_Subset
    <3>4. Cardinality({j \in i..(i + 7) : v[j] = 1}) \in Nat
      BY <3>3, FS_CardinalityType
    <3> QED BY <3>3, <3>4 DEF On
  <2>5. \A i \in 1..count : series[i] \in Nat /\ series[i] <= 3000
    <3> TAKE i \in 1..count
    <3> DEFINE k == On(v, i, i + 7)
    <3>1. series[i] = WindowEntropy(k)
      BY <2>2
    <3>2. k \in 0..8
      BY <2>4
    <3> HIDE DEF k
    <3>3. WindowEntropy(k) \in Nat /\ WindowEntropy(k) <= 3000
      BY <2>3, <3>2
    <3> QED BY <3>1, <3>3
  <2>6. series \in [1..count -> Int] /\ Len(series) = count
    <3>1. \A i \in 1..count : series[i] \in Int
      BY <2>5
    <3>2. series = [i \in 1..count |-> series[i]]
      BY <2>2
    <3> HIDE DEF series, count
    <3>3. series \in [1..count -> Int]
      BY <3>1, <3>2
    <3> QED BY <2>1, <3>3
  <2> HIDE DEF series, count
  <2>7. SumOf(series) \in Int /\ 0 <= SumOf(series) /\ SumOf(series) <= 3000 * count
    <3>1. \A i \in 1..count : 0 <= series[i] /\ series[i] <= 3000
      BY <2>5
    <3>2. 3000 \in Nat
      OBVIOUS
    <3> QED BY <2>1, <2>6, <3>1, <3>2, SumBetween
  <2>8. AverageEntropy(v) = SumOf(series) \div count
    BY DEF AverageEntropy, series, count
  <2>9. SumOf(series) \div count \in Nat /\ SumOf(series) \div count <= 3000
    BY <2>1, <2>7
  <2> QED BY <2>8, <2>9
<1> HIDE DEF n
<1>3. BaselineScore(v) \in Nat
  <2> DEFINE o == OnFirst(v)
             e == Edge(v)
             d == OnLast(v) - o
             x == Atmost(1000000, (1000000 * d * d) \div (16 * o * (e - o)))
  <2>1. ASSUME o # e PROVE x \in Nat
    <3>1. o \in Nat /\ o > 0 /\ e - o \in Nat /\ e - o > 0 /\ d = -o
      BY <1>1, <2>1
    <3> HIDE DEF o, e, d
    <3>2. d * d \in Nat /\ 1000000 * d * d = 1000000 * (d * d)
      <4>1. (-o) * (-o) = o * o /\ o * o \in Nat
        BY <3>1
      <4> QED BY <3>1, <4>1
    <3>3. o * (e - o) \in Nat /\ o * (e - o) > 0 /\ 16 * o * (e - o) = 16 * (o * (e - o))
      BY <3>1
    <3>4. 1000000 * d * d \in Nat /\ 16 * o * (e - o) \in Nat /\ 16 * o * (e - o) > 0
      BY <3>2, <3>3
    <3>5. (1000000 * d * d) \div (16 * o * (e - o)) \in Nat
      <4>1. \A p, q \in Nat : q > 0 => p \div q \in Nat
        OBVIOUS
      <4> QED BY <3>4, <4>1
    <3> QED BY <3>5 DEF Atmost
  <2>2. o # e => Sqrt(x) \in Nat
    BY <2>1, RootIsFound
  <2> QED BY <2>2 DEF BaselineScore
<1>4. SlopeChange(v) \in Nat
  <2> DEFINE terms == [i \in 1..n |-> (i - 1) * v[i]]
             lean == 2 * SumOf(terms) - a * (n - 1)
             under == 3 * (n * n - 1) * a * (n - a)
  <2>1. SlopeChange(v) = 10 * Sqrt((10000 * lean * lean) \div under)
    BY <1>1 DEF SlopeChange, n
  <2>2. lean \in Int
    <3>1. \A i \in 1..n : terms[i] \in Int
      <4>1. v \in [1..n -> {0, 1}]
        BY LenProperties DEF Faded, n
      <4> QED BY <1>1, <4>1
    <3>2. terms \in [1..n -> Int] /\ Len(terms) = n
      <4>1. terms \in [1..n -> Int]
        BY <3>1
      <4> QED BY <1>1, <4>1
    <3> HIDE DEF terms
    <3>3. SumOf(terms) \in Int
      BY <1>1, <3>2, SumBetween
    <3>4. a * (n - 1) \in Int
      BY <1>1
    <3> QED BY <3>3, <3>4
  <2> HIDE DEF lean
  <2>3. 10000 * lean * lean \in Nat
    <3>1. lean * lean \in Int /\ lean * lean >= 0 /\ 10000 * lean * lean = 10000 * (lean * lean)
      BY <2>2
    <3> QED BY <3>1
  <2>4. under \in Nat /\ under > 0
    <3>1. n * n \in Nat /\ n * n > 1
      <4>1. n * n >= 8 * n
        BY <1>1
      <4> QED BY <1>1, <4>1
    <3> DEFINE p == 3 * (n * n - 1)
    <3>2. p \in Nat /\ p > 0
      BY <3>1
    <3> HIDE DEF p
    <3>3. p * a \in Nat /\ p * a > 0 /\ n - a \in Nat /\ n - a > 0
      BY <1>1, <3>2
    <3>4. p * a * (n - a) \in Nat /\ p * a * (n - a) > 0
      BY <3>3
    <3> QED BY <3>4 DEF p
  <2> HIDE DEF under
  <2>5. (10000 * lean * lean) \div under \in Nat
    <3>1. \A p, q \in Nat : q > 0 => p \div q \in Nat
      OBVIOUS
    <3> QED BY <2>3, <2>4, <3>1
  <2>6. Sqrt((10000 * lean * lean) \div under) \in Nat
    BY <2>5, RootIsFound
  <2> QED BY <2>1, <2>6
<1>5. Persistence(v) \in Nat
  <2> DEFINE D == 0..n
             Turn(f) == [i \in D |-> IF i = 0 \/ v[i] # 0 THEN 0 ELSE f[i - 1] + 1]
             g == [i \in D |-> IF i <= a THEN 0 ELSE i - a]
             h == CHOOSE f : f = Turn(f)
  <2>1. \A i \in D : i # 0 => (v[i] # 0 <=> i <= a)
    <3>1. DOMAIN v = 1..n
      BY LenProperties DEF Faded, n
    <3>2. \A i \in D : i # 0 => i \in 1..n
      BY <1>1
    <3> QED BY <3>1, <3>2 DEF Faded
  <2>2. g = Turn(g)
    <3>1. ASSUME NEW i \in D PROVE g[i] = IF i = 0 \/ v[i] # 0 THEN 0 ELSE g[i - 1] + 1
      <4>1. CASE i = 0 \/ i <= a
        BY <1>1, <2>1, <4>1
      <4>2. CASE i # 0 /\ ~ (i <= a)
        <5>1. i - 1 \in D /\ g[i] = i - a /\ g[i - 1] = i - 1 - a
          BY <1>1, <4>2
        <5> QED BY <1>1, <2>1, <4>2, <5>1
      <4> QED BY <4>1, <4>2
    <3>2. g = [i \in D |-> g[i]]
      OBVIOUS
    <3> HIDE DEF g
    <3> QED BY <3>1, <3>2
  <2>3. LongestLowRun(v) = Max({h[i] : i \in D})
    BY DEF LongestLowRun, n
  <2> HIDE DEF Turn
  <2>4. h = Turn(h)
    BY <2>2
  <2> HIDE DEF h
  <2>5. \A i \in D : h[i] = IF i = 0 \/ v[i] # 0 THEN 0 ELSE h[i - 1] + 1
    BY <2>4 DEF Turn
  <2> DEFINE Other == {i \in D : h[i] # g[i]}
  <2>6. Other = {}
    <3> SUFFICES ASSUME Other # {} PROVE FALSE
      OBVIOUS
    <3>1. Other \in SUBSET Nat
      BY <1>1
    <3> HIDE DEF Other
    <3>2. PICK i \in Other : \A k \in Other : i <= k
      BY <3>1, LeastElement
    <3>3. i \in D /\ i \in Nat /\ h[i] # g[i]
      BY <3>1, <3>2 DEF Other
    <3>4. i # 0 /\ ~ (i <= a)
      BY <1>1, <2>1, <2>5, <3>3
    <3>5. i - 1 \in D /\ ~ (i <= i - 1)
      BY <1>1, <3>3, <3>4
    <3>6. h[i - 1] = g[i - 1]
      BY <3>2, <3>5 DEF Other
    <3>7. h[i] = h[i - 1] + 1
      BY <2>1, <2>5, <3>3, <3>4
    <3>8. g[i] = g[i - 1] + 1
      BY <1>1, <3>3, <3>4, <3>5
    <3> QED BY <3>3, <3>6, <3>7, <3>8
  <2>7. {h[i] : i \in D} = {g[i] : i \in D}
    BY <2>6
  <2>8. /\ n - a \in Nat /\ n - a \in {g[i] : i \in D}
        /\ \A x \in {g[i] : i \in D} : x \in Nat /\ x <= n - a
    <3>1. n \in D /\ g[n] = n - a /\ n - a \in Nat
      BY <1>1
    <3>2. \A i \in D : g[i] \in Nat /\ g[i] <= n - a
      BY <1>1
    <3> HIDE DEF g, D
    <3> QED BY <3>1, <3>2
  <2> HIDE DEF g, D
  <2>9. LongestLowRun(v) \in Nat
    <3> DEFINE S == {g[i] : i \in D}
    <3>1. n - a \in S /\ \A x \in S : x \in Nat /\ x <= n - a
      BY <2>8
    <3>2. LongestLowRun(v) = Max(S)
      BY <2>3, <2>7
    <3> HIDE DEF S
    <3>3. \E x \in S : \A y \in S : x >= y
      BY <2>8, <3>1
    <3>4. Max(S) \in S
      BY <3>3 DEF Max
    <3> QED BY <3>1, <3>2, <3>4
  <2>10. (1000 * (2 * LongestLowRun(v))) \div n \in Nat
    BY <1>1, <2>9
  <2> QED BY <2>10 DEF Persistence, Ratio, Atmost, n
<1>6. Recovery(v) \in Nat
  <2>1. OnFirst(v) \in Nat /\ OnFirst(v) > 0 /\ (1000 * 0) \div OnFirst(v) = 0
    BY <1>1
  <2> QED BY <1>1, <2>1 DEF Recovery, Ratio, Atmost
<1>7. \A known \in BOOLEAN : Periodicity(v, known) \in Nat
  <2> DEFINE S == {SustainedDrop(v), SlopeChange(v), Persistence(v)}
  <2>1. \A x, y, z \in Nat : \E w \in {x, y, z} : \A u \in {x, y, z} : w >= u
    OBVIOUS
  <2>2. SustainedDrop(v) \in Nat
    BY <1>1
  <2>3. \E w \in S : \A u \in S : w >= u
    BY <1>4, <1>5, <2>1, <2>2
  <2>4. S \subseteq Nat
    BY <1>4, <1>5, <2>2
  <2> HIDE DEF S
  <2>5. Max(S) \in Nat
    BY <2>3, <2>4 DEF Max
  <2> QED BY <2>5 DEF Periodicity, S
<1> QED BY <1>2, <1>3, <1>4, <1>5, <1>6, <1>7

\* The decision: a score of a quarter at least, the start where the signal ends.
LEMMA FadeIsDecided ==
  ASSUME NEW v, NEW a, Faded(v, a), Len(v) >= EngineMinPoints, EngineMinPoints \in Nat,
         DetectionThreshold \in Int, DetectionThreshold <= 250,
         NEW known \in BOOLEAN, NEW r \in DetectFade(v, known)
  PROVE  /\ r.detected /\ OnTime(v, r.start, a) /\ r.score \in Int /\ r.score >= 250
         /\ r.drop \in Int /\ r.drop >= 500
<1>1. /\ Len(v) \in Nat /\ a \in 4..(Len(v) - 4) /\ Total(v) = a /\ Off(v) = Len(v) - a
      /\ DropRatio(v) \in Nat /\ DropRatio(v) >= 500
      /\ ZOutlier(v) \in Nat /\ ZOutlier(v) >= 100 /\ SustainedDrop(v) = 1000
  BY FadedFigures
<1>2. /\ AverageEntropy(v) \in Nat /\ AverageEntropy(v) <= 3000
      /\ BaselineScore(v) \in Nat /\ SlopeChange(v) \in Nat /\ Persistence(v) \in Nat
      /\ Recovery(v) \in Nat /\ Periodicity(v, known) \in Nat
  BY OtherEvidence
<1> DEFINE legacy == LegacyScore(v)
           evidence == CombineEvidence(v, known)
           score == CombinedScore(v, known)
<1>3. legacy \in Int /\ legacy >= 270
  <2> DEFINE z == Atmost(1000, ZOutlier(v))
             calm == 1000 - AverageEntropy(v) \div 3
  <2>1. z \in Int /\ z >= 100
    BY <1>1 DEF Atmost
  <2>2. calm \in Int /\ calm >= 0
    BY <1>2
  <2>3. legacy = (30 * calm + 50 * DropRatio(v) + 20 * z) \div 100
    BY DEF LegacyScore
  <2> HIDE DEF z, calm
  <2>4. 30 * calm + 50 * DropRatio(v) + 20 * z \in Int /\ 30 * calm + 50 * DropRatio(v) + 20 * z >= 27000
    BY <1>1, <2>1, <2>2
  <2> QED BY <2>3, <2>4
<1> HIDE DEF legacy
<1>4. evidence \in Int /\ evidence >= 261
  <2> DEFINE strength == Atmost(1000, legacy)
             p == Periodicity(v, known)
             whole == 30 * strength + 18 * BaselineScore(v) + 18 * 1000 + 10 * SlopeChange(v)
                      + 10 * Persistence(v) + 5 * p + 5 * Recovery(v)
  <2>1. strength \in Int /\ strength >= 270
    BY <1>3 DEF Atmost
  <2>2. evidence = whole \div 100
    BY <1>1 DEF CombineEvidence, legacy
  <2>3. p \in Nat
    BY <1>2
  <2> HIDE DEF strength, p
  <2>4. whole \in Int /\ whole >= 26100
    <3>1. /\ 18 * BaselineScore(v) \in Nat /\ 10 * SlopeChange(v) \in Nat
          /\ 10 * Persistence(v) \in Nat /\ 5 * p \in Nat /\ 5 * Recovery(v) \in Nat
      BY <1>2, <2>3
    <3>2. \A x \in Int, b, s, l, q, y \in Nat :
            x >= 270 => 30 * x + b + 18 * 1000 + s + l + q + y \in Int
                        /\ 30 * x + b + 18 * 1000 + s + l + q + y >= 26100
      OBVIOUS
    <3> QED BY <2>1, <3>1, <3>2
  <2> HIDE DEF whole
  <2> QED BY <2>2, <2>4
<1> HIDE DEF evidence
<1>5. score \in Int /\ score >= 250
  <2>1. score = (65 * legacy + 35 * evidence) \div 100
    BY DEF CombinedScore, legacy, evidence
  <2>2. 65 * legacy + 35 * evidence \in Int /\ 65 * legacy + 35 * evidence >= 26685
    BY <1>3, <1>4
  <2> QED BY <2>1, <2>2
<1>6. score >= DetectionThreshold
  BY <1>5
<1>7. \A s \in FadeStarts(v, TRUE) : OnTime(v, s, a)
  <2>1. -1 \notin ChangePoints(v) /\ \A c \in ChangePoints(v) : OnTime(v, c, a)
    BY ChangeIsAtTheEnd
  <2>2. FadeStarts(v, TRUE) = ChangePoints(v)
    BY <2>1 DEF FadeStarts
  <2> QED BY <2>1, <2>2
<1>8. ~ (Len(v) < EngineMinPoints)
  BY <1>1
<1> DEFINE detected == score >= DetectionThreshold \/ RulesMatched(v) >= RuleThreshold
<1>9. detected = TRUE
  BY <1>6
<1>10. /\ r.detected = TRUE /\ r.start \in FadeStarts(v, TRUE)
       /\ r.score = score /\ r.drop = DropRatio(v)
  <2>1. \E s \in FadeStarts(v, detected) :
           r = [detected |-> detected, score |-> score,
                confidence |-> ComputeConfidence(score, RulesMatched(v), ZOutlier(v), DropRatio(v)),
                entropy |-> AverageEntropy(v), drop |-> DropRatio(v), z |-> ZOutlier(v),
                start |-> s, rules |-> RulesMatched(v),
                combined |-> IF detected
                             THEN ComputeConfidence(score, RulesMatched(v), ZOutlier(v), DropRatio(v))
                             ELSE "info"]
    BY <1>8 DEF DetectFade
  <2> HIDE DEF detected, score
  <2>2. r.detected = detected /\ r.start \in FadeStarts(v, detected)
        /\ r.score = score /\ r.drop = DropRatio(v)
    BY <2>1
  <2> QED BY <1>9, <2>2, Zenon
<1> HIDE DEF detected, score
<1>11. OnTime(v, r.start, a)
  BY <1>7, <1>10
<1>12. r.detected
  BY <1>10, Zenon
<1>13. r.score \in Int /\ r.score >= 250 /\ r.drop \in Int /\ r.drop >= 500
  BY <1>1, <1>5, <1>10
<1> QED BY <1>11, <1>12, <1>13

\* What every result is: none yet, or one the detector gives for the signal.
Judged == /\ signal \in Trace /\ timed \in BOOLEAN
          /\ report = "made" => \E r \in DetectFade(signal, timed) : result = WithMl(r, ml)

LEMMA JudgedInvariance == EngineSpec => []Judged
<1>1. EngineInit(Trace) => Judged
  BY DEF EngineInit, Judged
<1>2. Judged /\ [Detect]_engineVars => Judged'
  <2>1. Judged /\ Detect => Judged'
    BY DEF Judged, Detect
  <2>2. Judged /\ UNCHANGED engineVars => Judged'
    BY DEF Judged, engineVars
  <2> QED BY <2>1, <2>2
<1> QED BY <1>1, <1>2, PTL DEF EngineSpec

\* A signal of any length that goes off for good and stays off for half of the time is
\* detected, dated and reported, at the default threshold and at any up to a quarter:
\* to the interval while every cut is tried, and no farther from it than the cuts lie
\* apart when the signal is longer (extract_temporal_features in core/detection_science.py).
THEOREM FadesAreFound ==
  ASSUME DetectionThreshold \in Int, DetectionThreshold <= 250
  PROVE  EngineSpec => []FadeIsLocated
<1>1. Judged => FadeIsLocated
  <2> SUFFICES ASSUME Judged, NEW a \in 4..(Len(signal) - 4), report = "made", 2 * a <= Len(signal),
                      Len(signal) >= EngineMinPoints,
                      \A i \in DOMAIN signal : signal[i] = (IF i <= a THEN 1 ELSE 0)
               PROVE  /\ result.detected /\ OnTime(signal, result.start, a)
                      /\ "drop_ratio" \in BuildEvidence(result, ml)
                      /\ Rank(ScoreToSeverity(result)) >= Rank("medium")
    BY DEF FadeIsLocated, OnTime
  <2>1. EngineMinPoints \in Nat /\ EngineMinPoints >= 8 /\ signal \in Seq({0, 1}) /\ timed \in BOOLEAN
    BY EngineAssumption DEF Judged
  <2>2. Len(signal) \in Nat
    BY <2>1, LenProperties
  <2>3. Faded(signal, a)
    BY <2>1, <2>2 DEF Faded
  <2>4. PICK r \in DetectFade(signal, timed) : result = WithMl(r, ml)
    BY DEF Judged
  <2>5. /\ r.detected /\ OnTime(signal, r.start, a) /\ r.score \in Int /\ r.score >= 250
        /\ r.drop \in Int /\ r.drop >= 500
    BY <2>1, <2>3, FadeIsDecided
  <2>6. /\ result.detected = r.detected /\ result.start = r.start
        /\ result.score = r.score /\ result.drop = r.drop
    BY <2>4 DEF WithMl
  <2>7. "drop_ratio" \in BuildEvidence(result, ml)
    BY <2>5, <2>6 DEF BuildEvidence
  <2>8. Rank(ScoreToSeverity(result)) >= Rank("medium")
    <3> DEFINE Is(rank) == CASE rank = 5 -> result.z >= 1000 \/ result.confidence = "critical"
                             [] rank = 4 -> result.score >= 400 \/ result.z >= 500 \/ result.confidence = "high"
                             [] rank = 3 -> result.score >= 250 \/ result.z >= 300 \/ result.confidence = "medium"
                             [] OTHER -> rank = 2
               S == {rank \in 2..5 : Is(rank)}
    <3>1. 3 \in S /\ S \subseteq {2, 3, 4, 5}
      <4>1. Is(3)
        BY <2>5, <2>6
      <4>2. 2..5 = {2, 3, 4, 5}
        OBVIOUS
      <4> HIDE DEF Is
      <4> QED BY <4>1, <4>2
    <3>2. ScoreToSeverity(result) = Level[Max(S)]
      BY DEF ScoreToSeverity
    <3> HIDE DEF S
    <3>3. \E x \in S : \A y \in S : x >= y
      BY <3>1
    <3>4. Max(S) \in {3, 4, 5}
      <4>1. Max(S) \in S /\ Max(S) >= 3
        BY <3>1, <3>3 DEF Max
      <4>2. Max(S) \in {2, 3, 4, 5}
        BY <3>1, <4>1
      <4>3. Max(S) # 2
        BY <4>1
      <4> QED BY <4>2, <4>3
    <3>5. Rank("medium") = 3 /\ Rank("high") = 4 /\ Rank("critical") = 5
      <4>1. \A i \in 1..5 : /\ Level[i] = "medium" <=> i = 3
                            /\ Level[i] = "high" <=> i = 4
                            /\ Level[i] = "critical" <=> i = 5
        BY DEF Level
      <4> QED BY <4>1 DEF Rank
    <3>6. Level[3] = "medium" /\ Level[4] = "high" /\ Level[5] = "critical"
      BY DEF Level
    <3> QED BY <3>2, <3>4, <3>5, <3>6
  <2> QED BY <2>5, <2>6, <2>7, <2>8
<1> QED BY <1>1, JudgedInvariance, PTL

-----------------------------------------------------------------------------
(***************************************************************************)
(* Evaluation: what is counted.                                            *)
(***************************************************************************)
\* Three disjoint ways to split a finite set in four.
LEMMA CountedOnce ==
  ASSUME NEW D, IsFiniteSet(D), NEW A \in SUBSET D, NEW P \in SUBSET D
  PROVE  /\ Cardinality(D) \in Nat
         /\ {Cardinality(A \cap P), Cardinality(A \ P), Cardinality((D \ A) \cap P), Cardinality((D \ A) \ P)} \subseteq Nat
         /\ Cardinality(A \cap P) + Cardinality(A \ P)
              + Cardinality((D \ A) \ P) + Cardinality((D \ A) \cap P) = Cardinality(D)
<1>1. ASSUME NEW S \in SUBSET D, NEW Q \in SUBSET D
      PROVE  /\ Cardinality(S) \in Nat /\ Cardinality(S \cap Q) \in Nat /\ Cardinality(S \ Q) \in Nat
             /\ Cardinality(S) = Cardinality(S \cap Q) + Cardinality(S \ Q)
  <2>1. IsFiniteSet(S) /\ IsFiniteSet(S \cap Q) /\ IsFiniteSet(S \ Q)
    <3>1. S \cap Q \in SUBSET D /\ S \ Q \in SUBSET D
      OBVIOUS
    <3> QED BY <3>1, FS_Subset
  <2>2. /\ Cardinality(S) \in Nat
        /\ Cardinality(S \cap Q) \in Nat
        /\ Cardinality(S \ Q) \in Nat
    BY <2>1, FS_CardinalityType
  <2>3. Cardinality((S \cap Q) \cup (S \ Q))
          = Cardinality(S \cap Q) + Cardinality(S \ Q) - Cardinality((S \cap Q) \cap (S \ Q))
    BY <2>1, FS_Union
  <2>4. (S \cap Q) \cup (S \ Q) = S /\ (S \cap Q) \cap (S \ Q) = {}
    OBVIOUS
  <2>5. Cardinality({}) = 0
    BY FS_EmptySet
  <2> QED BY <2>2, <2>3, <2>4, <2>5
<1>2. /\ Cardinality(D) = Cardinality(D \cap A) + Cardinality(D \ A)
      /\ Cardinality(D) \in Nat
  BY <1>1
<1>3. D \cap A = A
  OBVIOUS
<1>4. Cardinality(A) = Cardinality(A \cap P) + Cardinality(A \ P)
      /\ Cardinality(A \cap P) \in Nat /\ Cardinality(A \ P) \in Nat
  BY <1>1
<1>5. D \ A \in SUBSET D
  OBVIOUS
<1>6. Cardinality(D \ A) = Cardinality((D \ A) \cap P) + Cardinality((D \ A) \ P)
      /\ Cardinality((D \ A) \cap P) \in Nat /\ Cardinality((D \ A) \ P) \in Nat
  BY <1>1, <1>5
<1> QED BY <1>2, <1>3, <1>4, <1>6

LEMMA MatrixCounts ==
  ASSUME NEW cases, IsFiniteSet(DOMAIN cases), \A i \in DOMAIN cases : cases[i].expected \in BOOLEAN,
         NEW detected \in SUBSET DOMAIN cases
  PROVE  LET m == ConfusionMatrix(cases, detected)
         IN  /\ m.tp \in Nat /\ m.fp \in Nat /\ m.tn \in Nat /\ m.fn \in Nat
             /\ Support(m) = Cardinality(DOMAIN cases)
<1> DEFINE m == ConfusionMatrix(cases, detected)
           D == DOMAIN cases
           P == {i \in D : cases[i].expected = TRUE}
<1>1. P \in SUBSET D
  OBVIOUS
<1>2. /\ m.tp = Cardinality({i \in detected : cases[i].expected = TRUE})
      /\ m.fp = Cardinality({i \in detected : cases[i].expected = FALSE})
      /\ m.tn = Cardinality({i \in D \ detected : cases[i].expected = FALSE})
      /\ m.fn = Cardinality({i \in D \ detected : cases[i].expected = TRUE})
  BY DEF ConfusionMatrix
<1>3. /\ {i \in detected : cases[i].expected = TRUE} = detected \cap P
      /\ {i \in detected : cases[i].expected = FALSE} = detected \ P
      /\ {i \in D \ detected : cases[i].expected = FALSE} = (D \ detected) \ P
      /\ {i \in D \ detected : cases[i].expected = TRUE} = (D \ detected) \cap P
  OBVIOUS
<1> HIDE DEF m, D, P
<1>4. /\ {Cardinality(detected \cap P), Cardinality(detected \ P), Cardinality((D \ detected) \cap P),
            Cardinality((D \ detected) \ P)} \subseteq Nat
      /\ Cardinality(detected \cap P) + Cardinality(detected \ P)
           + Cardinality((D \ detected) \ P) + Cardinality((D \ detected) \cap P) = Cardinality(D)
  BY <1>1, CountedOnce DEF D
<1>5. /\ m.tp \in Nat /\ m.fp \in Nat /\ m.tn \in Nat /\ m.fn \in Nat
      /\ m.tp + m.fp + m.tn + m.fn = Cardinality(D)
  BY <1>2, <1>3, <1>4
<1> QED BY <1>5 DEF m, D, Support

-----------------------------------------------------------------------------
(***************************************************************************)
(* Governed runs.                                                          *)
(***************************************************************************)
Samples(s) == [i \in DOMAIN s |-> s[i].sample]
Used(corpus, cases) == {e \in Range(corpus) : \E i \in DOMAIN cases : cases[i].sample = e.sample}

\* The samples of a valid run are entries of its split, one for each case.
LEMMA OneEntryEach ==
  ASSUME NEW C, NEW corpus \in Seq(C), NEW K, NEW cases \in Seq(K), NEW split,
         Distinct(Samples(corpus)), Distinct(Samples(cases)),
         Range(Samples(cases)) \subseteq Governed(corpus, split)
  PROVE  /\ Cardinality(Used(corpus, cases)) = Len(cases)
         /\ \A e \in Used(corpus, cases) : e.split = split
<1> DEFINE used == {e \in Range(corpus) : \E i \in DOMAIN cases : cases[i].sample = e.sample}
<1>1. /\ Len(cases) \in Nat /\ DOMAIN cases = 1..Len(cases) /\ \A i \in DOMAIN cases : cases[i] \in K
      /\ Len(corpus) \in Nat /\ DOMAIN corpus = 1..Len(corpus) /\ \A i \in DOMAIN corpus : corpus[i] \in C
  BY LenProperties, ElementOfSeq
<1>3. /\ [i \in DOMAIN cases |-> cases[i].sample] \in Seq({c.sample : c \in K})
      /\ [i \in DOMAIN corpus |-> corpus[i].sample] \in Seq({e.sample : e \in C})
  BY <1>1, IsASeq
<1>4. /\ \A i, j \in DOMAIN cases : cases[i].sample = cases[j].sample => i = j
      /\ \A i, j \in DOMAIN corpus : corpus[i].sample = corpus[j].sample => i = j
  <2>2. \A i, j \in DOMAIN cases : [k \in DOMAIN cases |-> cases[k].sample][i]
                                     = [k \in DOMAIN cases |-> cases[k].sample][j] => i = j
    BY <1>3, RangeIsFinite DEF Samples
  <2>3. \A i, j \in DOMAIN corpus : [k \in DOMAIN corpus |-> corpus[k].sample][i]
                                     = [k \in DOMAIN corpus |-> corpus[k].sample][j] => i = j
    BY <1>3, RangeIsFinite DEF Samples
  <2> QED BY <2>2, <2>3
<1>5. \A i \in DOMAIN cases : \E e \in Range(corpus) : e.split = split /\ e.sample = cases[i].sample
  <2>1. \A i \in DOMAIN cases : cases[i].sample \in {e.sample : e \in OfSplit(corpus, split)}
    BY DEF Range, Governed, Samples
  <2> QED BY <2>1 DEF OfSplit
\* Entries with one sample are one entry.
<1>6. \A e, f \in Range(corpus) : e.sample = f.sample => e = f
  BY <1>4 DEF Range
<1> DEFINE entry == [i \in DOMAIN cases |-> CHOOSE e \in Range(corpus) : e.sample = cases[i].sample]
<1>7. \A i \in DOMAIN cases : entry[i] \in Range(corpus) /\ entry[i].sample = cases[i].sample
  BY <1>5
<1>8. entry \in Injection(1..Len(cases), used)
  <2>1. entry \in [1..Len(cases) -> used]
    BY <1>1, <1>7
  <2>2. \A i, j \in DOMAIN entry : entry[i] = entry[j] => i = j
    BY <1>4, <1>7
  <2> HIDE DEF entry, used
  <2> QED BY <2>1, <2>2 DEF Injection, IsInjective
<1>9. entry \in Surjection(1..Len(cases), used)
  <2>1. \A e \in used : \E i \in 1..Len(cases) : entry[i] = e
    BY <1>1, <1>6, <1>7
  <2>2. entry \in [1..Len(cases) -> used]
    BY <1>8 DEF Injection
  <2> HIDE DEF entry, used
  <2> QED BY <2>1, <2>2 DEF Surjection
<1>10. \A e \in used : e.split = split
  BY <1>5, <1>6
<1> HIDE DEF entry, used
<1>11. Cardinality(used) = Len(cases)
  <2>1. IsFiniteSet(1..Len(cases)) /\ Cardinality(1..Len(cases)) = Len(cases)
    BY <1>1, LengthCounts
  <2>2. Cardinality(used) = Cardinality(1..Len(cases)) <=> entry \in Injection(1..Len(cases), used)
    BY <1>9, <2>1, FS_Surjection
  <2> QED BY <1>8, <2>1, <2>2
<1> QED BY <1>10, <1>11 DEF used, Used

RunIsApart(q, v) ==
  ~ v.error =>
    LET used == {e \in Range(q.corpus) : \E i \in DOMAIN q.cases : q.cases[i].sample = e.sample}
    IN  /\ Support(v.matrix) = Cardinality(used)
        /\ \A e \in used : /\ e.split = q.split
                           /\ e.split \in {"holdout", "blind"} => e.known
                           /\ e.split = "blind" => q.independent
        /\ \A e \in used, f \in Range(q.corpus) :
               f.content = e.content => f.split = e.split

LEMMA RunsAreApart ==
  ASSUME NEW q \in Question, q.op = "run"
  PROVE  RunIsApart(q, EvaluateRun(q))
<1> DEFINE v == EvaluateRun(q)
           detected == {i \in DOMAIN q.cases : q.cases[i].detected}
<1>1. /\ q.cases \in Seq(Range(q.cases)) /\ q.corpus \in Seq(Range(q.corpus))
      /\ \A c \in Range(q.cases) : c.expected \in BOOLEAN
  BY EvaluationAssumption
<1>2. SUFFICES ASSUME ~ v.error PROVE RunIsApart(q, v)
  BY DEF RunIsApart
<1>3. /\ ValidForEvaluation(q.corpus, q.split)
      /\ Range(Pick(q.cases, LAMBDA c : c.sample)) \subseteq Governed(q.corpus, q.split)
      /\ Distinct(Pick(q.cases, LAMBDA c : c.sample))
      /\ q.split = "blind" => q.independent
      /\ v = [error |-> FALSE, matrix |-> ConfusionMatrix(q.cases, detected)]
  BY <1>2 DEF EvaluateRun, Raised
<1> HIDE DEF v
<1>4. v.matrix = ConfusionMatrix(q.cases, detected)
  BY <1>3
<1>5. /\ Distinct(Pick(q.corpus, LAMBDA e : e.sample)) /\ SplitsApart(q.corpus)
      /\ q.split \in {"holdout", "blind"} => \A e \in OfSplit(q.corpus, q.split) : e.known
  BY <1>3 DEF ValidForEvaluation, CorpusIsValid
<1> DEFINE used == {e \in Range(q.corpus) : \E i \in DOMAIN q.cases : q.cases[i].sample = e.sample}
<1>6. Cardinality(used) = Len(q.cases) /\ \A e \in used : e.split = q.split
  <2>1. /\ Range(Samples(q.cases)) \subseteq Governed(q.corpus, q.split)
        /\ Distinct(Samples(q.cases)) /\ Distinct(Samples(q.corpus))
    BY <1>3, <1>5 DEF Samples, Pick
  <2> HIDE DEF used
  <2>2. /\ Cardinality(Used(q.corpus, q.cases)) = Len(q.cases)
        /\ \A e \in Used(q.corpus, q.cases) : e.split = q.split
    BY <1>1, <2>1, OneEntryEach
  <2> QED BY <2>2 DEF used, Used
<1>7. Support(v.matrix) = Len(q.cases)
  <2>1. /\ Len(q.cases) \in Nat /\ DOMAIN q.cases = 1..Len(q.cases)
        /\ IsFiniteSet(1..Len(q.cases)) /\ Cardinality(1..Len(q.cases)) = Len(q.cases)
    BY <1>1, LenProperties, LengthCounts
  <2>2. \A i \in DOMAIN q.cases : q.cases[i].expected \in BOOLEAN
    BY <1>1 DEF Range
  <2>3. detected \in SUBSET DOMAIN q.cases
    OBVIOUS
  <2> HIDE DEF detected
  <2>4. Support(ConfusionMatrix(q.cases, detected)) = Cardinality(DOMAIN q.cases)
    BY <2>1, <2>2, <2>3, MatrixCounts
  <2> QED BY <1>4, <2>1, <2>4
<1>8. \A e \in used, f \in Range(q.corpus) : f.content = e.content => f.split = e.split
  BY <1>5 DEF SplitsApart, Range
<1>9. \A e \in used : e \in OfSplit(q.corpus, q.split)
  BY <1>6 DEF OfSplit
<1> QED BY <1>3, <1>5, <1>6, <1>7, <1>8, <1>9 DEF RunIsApart

-----------------------------------------------------------------------------
(***************************************************************************)
(* The manifest of a dataset.                                              *)
(***************************************************************************)
LEMMA ReorderedIsTheSame ==
  ASSUME NEW S, NEW cases \in Seq(S), NEW p \in [DOMAIN cases -> DOMAIN cases], Distinct(p)
  PROVE  LET again == [i \in DOMAIN p |-> cases[p[i]]]
         IN  /\ DOMAIN again = DOMAIN cases
             /\ \A i \in DOMAIN again : again[i] = cases[p[i]]
             /\ \A i \in DOMAIN cases : \E k \in DOMAIN again : p[k] = i
             /\ Range(again) = Range(cases)
<1>1. Len(cases) \in Nat /\ DOMAIN cases = 1..Len(cases)
  BY LenProperties
<1>2. p \in Seq(DOMAIN cases) /\ Len(p) = Len(cases)
  BY <1>1, IsASeq
<1>3. p \in Surjection(DOMAIN cases, Range(p)) /\ Range(p) \in SUBSET DOMAIN cases
  BY DEF Surjection, Range
<1>4. IsFiniteSet(DOMAIN cases) /\ Cardinality(DOMAIN cases) = Len(cases)
  BY <1>1, LengthCounts
<1>5. Cardinality(Range(p)) = Len(cases)
  BY <1>2 DEF Distinct
<1>6. Range(p) = DOMAIN cases
  BY <1>3, <1>4, <1>5, FS_Subset
<1>7. \A i \in DOMAIN cases : \E k \in DOMAIN cases : p[k] = i
  BY <1>6 DEF Range
<1> QED BY <1>7 DEF Range

LEMMA ManifestOfReordered ==
  ASSUME NEW S, NEW cases \in Seq(S), NEW p \in [DOMAIN cases -> DOMAIN cases], Distinct(p)
  PROVE  DatasetManifest([i \in DOMAIN p |-> cases[p[i]]]) = DatasetManifest(cases)
<1> DEFINE again == [i \in DOMAIN p |-> cases[p[i]]]
<1>1. /\ DOMAIN again = DOMAIN cases
      /\ \A i \in DOMAIN cases : again[i] = cases[p[i]] /\ p[i] \in DOMAIN cases
      /\ \A i \in DOMAIN cases : \E k \in DOMAIN cases : p[k] = i
      /\ Range(again) = Range(cases)
  BY ReorderedIsTheSame
<1>2. Len(cases) \in Nat /\ DOMAIN cases = 1..Len(cases) /\ again \in Seq(S) /\ Len(again) = Len(cases)
  BY <1>1, LenProperties, ElementOfSeq, IsASeq
<1> HIDE DEF again
<1>3. ASSUME NEW field PROVE LeavesSplit(again, field) <=> LeavesSplit(cases, field)
  <2>1. ASSUME LeavesSplit(cases, field) PROVE LeavesSplit(again, field)
    <3>1. PICK i, k \in DOMAIN cases : /\ cases[i][field] = cases[k][field] /\ cases[i][field] # 0
                                       /\ cases[i].split # cases[k].split
      BY <2>1 DEF LeavesSplit
    <3>2. PICK i0, k0 \in DOMAIN cases : p[i0] = i /\ p[k0] = k
      BY <1>1
    <3>3. again[i0] = cases[i] /\ again[k0] = cases[k]
      BY <1>1, <3>2
    <3>4. /\ again[i0][field] = again[k0][field] /\ again[i0][field] # 0
          /\ again[i0].split # again[k0].split
      BY <3>1, <3>3
    <3>5. i0 \in DOMAIN again /\ k0 \in DOMAIN again
      BY <1>1
    <3> QED BY <3>4, <3>5 DEF LeavesSplit
  <2>2. ASSUME LeavesSplit(again, field) PROVE LeavesSplit(cases, field)
    <3>1. PICK i, k \in DOMAIN again : /\ again[i][field] = again[k][field] /\ again[i][field] # 0
                                       /\ again[i].split # again[k].split
      BY <2>2 DEF LeavesSplit
    <3>2. again[i] = cases[p[i]] /\ again[k] = cases[p[k]] /\ p[i] \in DOMAIN cases /\ p[k] \in DOMAIN cases
      BY <1>1
    <3> QED BY <3>1, <3>2 DEF LeavesSplit
  <2> QED BY <2>1, <2>2
<1>4. (\A i \in DOMAIN again : again[i].sound) <=> (\A i \in DOMAIN cases : cases[i].sound)
  BY <1>1
<1>5. Distinct(Pick(again, LAMBDA c : c.id)) <=> Distinct(Pick(cases, LAMBDA c : c.id))
  <2>1. /\ Pick(again, LAMBDA c : c.id) = [i \in DOMAIN again |-> again[i].id]
        /\ Pick(cases, LAMBDA c : c.id) = [i \in DOMAIN cases |-> cases[i].id]
    BY DEF Pick
  <2>2. Range([i \in DOMAIN again |-> again[i].id]) = Range([i \in DOMAIN cases |-> cases[i].id])
    <3>1. \A x : (\E i \in DOMAIN again : again[i].id = x) <=> (\E i \in DOMAIN cases : cases[i].id = x)
      BY <1>1
    <3> QED BY <3>1 DEF Range
  <2>3. Len([i \in DOMAIN again |-> again[i].id]) = Len([i \in DOMAIN cases |-> cases[i].id])
    BY <1>1, <1>2
  <2> QED BY <2>1, <2>2, <2>3 DEF Distinct
<1>6. DatasetIsValid(again) <=> DatasetIsValid(cases)
  BY <1>3, <1>4, <1>5 DEF DatasetIsValid
<1>7. DatasetManifest(again) = DatasetManifest(cases)
  BY <1>1, <1>6 DEF DatasetManifest
<1> QED BY <1>7 DEF again

-----------------------------------------------------------------------------
(***************************************************************************)
(* The choice of a threshold.                                              *)
(***************************************************************************)
\* Cases with a score: finitely many, of a class each.
CaseSet(c) == /\ IsFiniteSet(DOMAIN c)
              /\ \A i \in DOMAIN c : c[i].expected \in BOOLEAN /\ c[i].score \in Int

LEMMA ScoredIsACaseSet ==
  ASSUME NEW q \in Question, q.op \in {"threshold", "ranking"}
  PROVE  /\ CaseSet(Scored(q.cases)) /\ DOMAIN Scored(q.cases) \in SUBSET Nat
         /\ q.op = "threshold" => q.limit \in Int
         /\ Full \in Nat
<1>1. /\ q.cases \in Seq(Range(q.cases)) /\ (q.op = "threshold" => q.limit \in Int) /\ Full \in Nat
      /\ \A c \in Range(q.cases) : c.expected \in BOOLEAN /\ c.score \in Int
  BY EvaluationAssumption
<1> DEFINE cases == q.cases
           c == Scored(cases)
<1>2. Len(cases) \in Nat /\ DOMAIN cases = 1..Len(cases)
  BY <1>1, LenProperties
<1>3. IsFiniteSet(DOMAIN cases)
  BY <1>2, LengthCounts
<1>4. DOMAIN c \in SUBSET DOMAIN cases /\ \A i \in DOMAIN c : c[i] = cases[i]
  BY DEF Scored
<1>5. IsFiniteSet(DOMAIN c)
  BY <1>3, <1>4, FS_Subset
<1>6. \A i \in DOMAIN c : c[i] \in Range(cases)
  BY <1>4 DEF Range
<1>7. DOMAIN c \in SUBSET Nat
  BY <1>2, <1>4
<1> QED BY <1>1, <1>5, <1>6, <1>7 DEF CaseSet

LEMMA Clipping ==
  ASSUME Full \in Nat, NEW s \in Int
  PROVE  /\ Clipped(s) \in 0..Full
         /\ s < 0 => Clipped(s) = 0
         /\ s > Full => Clipped(s) = Full
         /\ s \in 0..Full => Clipped(s) = s
<1>1. Max({0, s}) = IF 0 >= s THEN 0 ELSE s
  BY LargerOf
<1>2. ASSUME NEW m \in Nat
      PROVE  Min({Full, m}) = IF Full <= m THEN Full ELSE m
  BY LargerOf
<1> QED BY <1>1, <1>2 DEF Clipped

\* The three figures candidates are compared by are numbers.
LEMMA FiguresAreNumbers ==
  ASSUME NEW c, CaseSet(c), NEW q, NEW t
  PROVE  Tpr(c, t) \in Int /\ Fpr(c, t) \in Int /\ Value(q, c, t) \in Int /\ Common(c) \in Int
<1> DEFINE detected == {i \in DOMAIN c : c[i].score >= t}
<1>1. detected \in SUBSET DOMAIN c
  OBVIOUS
<1> HIDE DEF detected
<1>2. ConfusionMatrix(c, detected).tp \in Nat /\ ConfusionMatrix(c, detected).fp \in Nat
  BY <1>1, MatrixCounts DEF CaseSet
<1>3. At(c, t).tp \in Nat /\ At(c, t).fp \in Nat
  BY <1>2 DEF At, detected
<1>4. Positives(c) \in Nat /\ Cardinality(DOMAIN c) \in Nat
  <2>1. {i \in DOMAIN c : c[i].expected} \in SUBSET DOMAIN c
    OBVIOUS
  <2>2. IsFiniteSet({i \in DOMAIN c : c[i].expected})
    BY <2>1, FS_Subset DEF CaseSet
  <2> QED BY <2>2, FS_CardinalityType DEF Positives, CaseSet
<1>5. Negatives(c) \in Int
  BY <1>4 DEF Negatives
<1>6. ASSUME NEW n \in Int PROVE Max({1, n}) \in Int
  <2>1. \E x \in {1, n} : \A y \in {1, n} : x >= y
    OBVIOUS
  <2> QED BY <2>1 DEF Max
<1>7. Max({1, Positives(c)}) \in Int /\ Max({1, Negatives(c)}) \in Int
  BY <1>4, <1>5, <1>6
<1>8. Tpr(c, t) \in Int /\ Fpr(c, t) \in Int /\ Common(c) \in Int
  BY <1>3, <1>7 DEF Tpr, Fpr, Common
<1> QED BY <1>8 DEF Value

\* The comparison of candidates, written out.
LEMMA BeatsIsLexicographic ==
  ASSUME NEW q, NEW c, CaseSet(c), NEW t \in Int, NEW u \in Int
  PROVE  Beats(q, c, t, u) <=>
           \/ Value(q, c, t) > Value(q, c, u)
           \/ /\ Value(q, c, t) = Value(q, c, u)
              /\ \/ Tpr(c, t) > Tpr(c, u)
                 \/ /\ Tpr(c, t) = Tpr(c, u)
                    /\ Fpr(c, t) < Fpr(c, u) \/ (Fpr(c, t) = Fpr(c, u) /\ t < u)
<1> DEFINE a == <<Value(q, c, t), Tpr(c, t), -Fpr(c, t), -t>>
           b == <<Value(q, c, u), Tpr(c, u), -Fpr(c, u), -u>>
<1>1. /\ a[1] = Value(q, c, t) /\ a[2] = Tpr(c, t) /\ a[3] = -Fpr(c, t) /\ a[4] = -t
      /\ b[1] = Value(q, c, u) /\ b[2] = Tpr(c, u) /\ b[3] = -Fpr(c, u) /\ b[4] = -u
  OBVIOUS
<1>2. /\ Tpr(c, t) \in Int /\ Fpr(c, t) \in Int /\ Value(q, c, t) \in Int
      /\ Tpr(c, u) \in Int /\ Fpr(c, u) \in Int /\ Value(q, c, u) \in Int
  BY FiguresAreNumbers
<1>3. Beats(q, c, t, u) <=> \E i \in 1..4 : a[i] > b[i] /\ \A k \in 1..(i - 1) : a[k] = b[k]
  BY DEF Beats
<1> HIDE DEF a, b
<1>4. (\E i \in 1..4 : a[i] > b[i] /\ \A k \in 1..(i - 1) : a[k] = b[k]) <=>
        \/ a[1] > b[1]
        \/ a[2] > b[2] /\ a[1] = b[1]
        \/ a[3] > b[3] /\ a[1] = b[1] /\ a[2] = b[2]
        \/ a[4] > b[4] /\ a[1] = b[1] /\ a[2] = b[2] /\ a[3] = b[3]
  <2>1. 1..4 = {1, 2, 3, 4} /\ 1..(1 - 1) = {} /\ 1..(2 - 1) = {1} /\ 1..(3 - 1) = {1, 2} /\ 1..(4 - 1) = {1, 2, 3}
    OBVIOUS
  <2> QED BY <2>1
<1> QED BY <1>1, <1>2, <1>3, <1>4

LEMMA BestCandidate ==
  ASSUME NEW q, NEW c, CaseSet(c), Full \in Nat, NEW S \in SUBSET (0..Full), S # {}
  PROVE  /\ \E t \in S : \A u \in S \ {t} : Beats(q, c, t, u)
         /\ \A t \in S : (\A u \in S \ {t} : Beats(q, c, t, u))
                         => \A u \in S : Value(q, c, t) >= Value(q, c, u)
<1> DEFINE R == {p \in S \X S : Beats(q, c, p[1], p[2])}
<1>1. \A t, u \in S : <<t, u>> \in R <=> Beats(q, c, t, u)
  OBVIOUS
<1> HIDE DEF R
<1>2. \A t \in S : t \in Int /\ Value(q, c, t) \in Int /\ Tpr(c, t) \in Int /\ Fpr(c, t) \in Int
  BY FiguresAreNumbers
<1>3. \A t, u \in S : Beats(q, c, t, u) <=>
           \/ Value(q, c, t) > Value(q, c, u)
           \/ /\ Value(q, c, t) = Value(q, c, u)
              /\ \/ Tpr(c, t) > Tpr(c, u)
                 \/ /\ Tpr(c, t) = Tpr(c, u)
                    /\ Fpr(c, t) < Fpr(c, u) \/ (Fpr(c, t) = Fpr(c, u) /\ t < u)
  BY <1>2, BeatsIsLexicographic
<1>4. \A t, u \in S : t # u => <<t, u>> \in R \/ <<u, t>> \in R
  BY <1>1, <1>2, <1>3
<1>5. \A t, u, w \in S : <<t, u>> \in R /\ <<u, w>> \in R => <<t, w>> \in R
  BY <1>1, <1>2, <1>3
<1>6. \E b \in S : \A u \in S \ {b} : <<b, u>> \in R
  <2>1. Orders(R, S)
    BY <1>4, <1>5 DEF Orders
  <2> QED BY <2>1, FirstInOrder
<1>7. \E t \in S : \A u \in S \ {t} : Beats(q, c, t, u)
  BY <1>1, <1>6
<1>8. ASSUME NEW t \in S, \A u \in S \ {t} : Beats(q, c, t, u)
      PROVE  \A u \in S : Value(q, c, t) >= Value(q, c, u)
  BY <1>2, <1>3, <1>8
<1> QED BY <1>7, <1>8

\* Among the candidates is one that detects what any given threshold detects.
LEMMA CandidateForThreshold ==
  ASSUME NEW c, CaseSet(c), Full \in Nat, NEW t \in 0..Full
  PROVE  /\ Candidates(c) \subseteq 0..Full
         /\ \E u \in Candidates(c) : At(c, u) = At(c, t)
<1>1. \A i \in DOMAIN c : /\ Clipped(c[i].score) \in 0..Full /\ c[i].score \in Int
                          /\ c[i].score < 0 => Clipped(c[i].score) = 0
                          /\ c[i].score > Full => Clipped(c[i].score) = Full
                          /\ c[i].score \in 0..Full => Clipped(c[i].score) = c[i].score
  BY Clipping DEF CaseSet
<1>2. Candidates(c) \subseteq 0..Full
  BY <1>1 DEF Candidates
<1> DEFINE Above == {u \in Candidates(c) : u >= t}
<1>3. Above \in SUBSET Nat /\ Full \in Above
  BY <1>2 DEF Candidates
<1>4. PICK u \in Above : \A w \in Above : u <= w
  <2> HIDE DEF Above
  <2> QED BY <1>3, LeastElement
<1>5. \A i \in DOMAIN c : Clipped(c[i].score) \in Candidates(c)
  BY DEF Candidates
<1>6. \A i \in DOMAIN c : c[i].score >= t <=> c[i].score >= u
  BY <1>1, <1>2, <1>4, <1>5
<1>7. {i \in DOMAIN c : c[i].score >= t} = {i \in DOMAIN c : c[i].score >= u}
  BY <1>6
<1>8. At(c, u) = At(c, t)
  BY <1>7 DEF At
<1> QED BY <1>2, <1>4, <1>8

-----------------------------------------------------------------------------
(***************************************************************************)
(* The area under the curve: cases in the order of their scores, and the   *)
(* pairs of a positive and a negative one that are ranked rightly.         *)
(***************************************************************************)
\* Finitely many scored cases, no two of them with one score.
Distinguished(c) == /\ CaseSet(c) /\ DOMAIN c \in SUBSET Nat
                    /\ \A i, k \in DOMAIN c : c[i].score = c[k].score => i = k

ByScore(c) == Arranged(DOMAIN c, Descending(c))
Spot(c, i) == Place(DOMAIN c, Descending(c), i)
Upto(c, k, label) == {i \in DOMAIN c : c[i].expected = label /\ Spot(c, i) <= k}
RightPairs(c, k) ==
  {p \in (DOMAIN c) \X (DOMAIN c) : /\ c[p[1]].expected /\ ~ c[p[2]].expected
                                    /\ Spot(c, p[1]) < Spot(c, p[2]) /\ Spot(c, p[2]) <= k}

\* With distinct scores every case is the first of its score, and the places follow the scores.
LEMMA PlacesByScore ==
  ASSUME NEW c, Distinguished(c)
  PROVE  LET n == Cardinality(DOMAIN c)
             order == ByScore(c)
         IN  /\ n \in Nat /\ order \in [1..n -> DOMAIN c] /\ Firsts(c) = DOMAIN c
             /\ \A i \in DOMAIN c : Spot(c, i) \in 1..n /\ order[Spot(c, i)] = i
             /\ \A k \in 1..n : Spot(c, order[k]) = k
             /\ \A i, j \in DOMAIN c : c[i].score > c[j].score <=> Spot(c, i) < Spot(c, j)
<1> DEFINE S == DOMAIN c
           R == Descending(c)
           n == Cardinality(S)
           order == ByScore(c)
<1>1. /\ IsFiniteSet(S) /\ S \in SUBSET Nat /\ \A i \in S : c[i].score \in Int
      /\ \A i, k \in S : c[i].score = c[k].score => i = k
  BY DEF Distinguished, CaseSet
<1>2. \A i, j \in S : <<i, j>> \in R <=> c[i].score > c[j].score
  BY DEF Descending
<1> HIDE DEF R
<1>3. StrictOrder(R, S)
  <2>1. \A a, b \in S : a # b => c[a].score > c[b].score \/ c[b].score > c[a].score
    BY <1>1
  <2>2. \A a, b \in S : c[a].score > c[b].score => ~ (c[b].score > c[a].score) /\ a # b
    BY <1>1
  <2>3. \A a, b, d \in S : c[a].score > c[b].score /\ c[b].score > c[d].score => c[a].score > c[d].score
    BY <1>1
  <2> QED BY <1>2, <2>1, <2>2, <2>3 DEF StrictOrder
<1>4. /\ n \in Nat /\ order \in [1..n -> S]
      /\ \A i \in S : \E k \in 1..n : order[k] = i
      /\ \A k, m \in 1..n : k < m => <<order[k], order[m]>> \in R
      /\ \A k \in 1..n : Spot(c, order[k]) = k
  BY <1>1, <1>3, ArrangedInOrder DEF ByScore, Spot, R
<1> HIDE DEF order, n
<1>5. \A i \in S : Spot(c, i) \in 1..n /\ order[Spot(c, i)] = i
  BY <1>4
<1>6. \A k, m \in 1..n : k < m => c[order[k]].score > c[order[m]].score
  BY <1>2, <1>4
<1>7. ASSUME NEW i \in S, NEW j \in S PROVE c[i].score > c[j].score <=> Spot(c, i) < Spot(c, j)
  <2>1. /\ Spot(c, i) \in 1..n /\ Spot(c, j) \in 1..n /\ c[i].score \in Int /\ c[j].score \in Int
        /\ order[Spot(c, i)] = i /\ order[Spot(c, j)] = j
    BY <1>1, <1>5
  <2>2. CASE Spot(c, i) < Spot(c, j)
    BY <1>6, <2>1, <2>2
  <2>3. CASE Spot(c, i) = Spot(c, j)
    BY <2>1, <2>3
  <2>4. CASE Spot(c, j) < Spot(c, i)
    <3>1. c[j].score > c[i].score
      BY <1>6, <2>1, <2>4
    <3> QED BY <1>4, <2>1, <2>4, <3>1
  <2> QED BY <1>4, <2>1, <2>2, <2>3, <2>4
<1>8. Firsts(c) = S
  <2>1. \A i, k \in S : k < i => c[k].score # c[i].score
    BY <1>1
  <2> QED BY <2>1 DEF Firsts
<1> QED BY <1>4, <1>5, <1>7, <1>8 DEF order, n

\* The sets counted are finite; the next case adds itself, or a pair with each positive before it.
LEMMA NextCase ==
  ASSUME NEW c, Distinguished(c)
  PROVE  LET n == Cardinality(DOMAIN c)
             T(k) == Cardinality(Upto(c, k, TRUE))
             F(k) == Cardinality(Upto(c, k, FALSE))
             P(k) == Cardinality(RightPairs(c, k))
         IN  /\ \A k \in 0..n : T(k) \in Nat /\ F(k) \in Nat /\ P(k) \in Nat
             /\ T(0) = 0 /\ F(0) = 0 /\ P(0) = 0
             /\ \A k \in 1..n : \/ F(k) = F(k - 1) /\ P(k) = P(k - 1)
                                \/ F(k) = F(k - 1) + 1 /\ T(k) = T(k - 1) /\ P(k) = P(k - 1) + T(k)
<1> DEFINE S == DOMAIN c
           n == Cardinality(S)
           order == ByScore(c)
           T(k) == Cardinality(Upto(c, k, TRUE))
           F(k) == Cardinality(Upto(c, k, FALSE))
           P(k) == Cardinality(RightPairs(c, k))
<1>1. /\ n \in Nat /\ order \in [1..n -> S]
      /\ \A i \in S : Spot(c, i) \in 1..n /\ order[Spot(c, i)] = i
      /\ \A k \in 1..n : Spot(c, order[k]) = k
  BY PlacesByScore
<1>2. IsFiniteSet(S) /\ IsFiniteSet(S \X S)
  <2>1. IsFiniteSet(S)
    BY DEF Distinguished, CaseSet
  <2> QED BY <2>1, FS_Product
<1>3. \A i \in S : c[i].expected \in BOOLEAN
  BY DEF Distinguished, CaseSet
<1>4. \A k : /\ \A i : i \in Upto(c, k, TRUE) <=> i \in S /\ c[i].expected /\ Spot(c, i) <= k
             /\ \A i : i \in Upto(c, k, FALSE) <=> i \in S /\ ~ c[i].expected /\ Spot(c, i) <= k
  BY <1>3 DEF Upto
<1>5. \A k : \A p : p \in RightPairs(c, k) <=>
          /\ p \in S \X S /\ c[p[1]].expected /\ ~ c[p[2]].expected
          /\ Spot(c, p[1]) < Spot(c, p[2]) /\ Spot(c, p[2]) <= k
  BY DEF RightPairs
<1> HIDE DEF S, n, order
<1>6. \A k : IsFiniteSet(Upto(c, k, TRUE)) /\ IsFiniteSet(Upto(c, k, FALSE)) /\ IsFiniteSet(RightPairs(c, k))
  <2> TAKE k
  <2>1. Upto(c, k, TRUE) \in SUBSET S /\ Upto(c, k, FALSE) \in SUBSET S /\ RightPairs(c, k) \in SUBSET (S \X S)
    BY <1>4, <1>5
  <2> QED BY <1>2, <2>1, FS_Subset
<1>7. \A k : T(k) \in Nat /\ F(k) \in Nat /\ P(k) \in Nat
  BY <1>6, FS_CardinalityType
<1>8. T(0) = 0 /\ F(0) = 0 /\ P(0) = 0
  <2>1. \A i \in S : ~ (Spot(c, i) <= 0)
    BY <1>1
  <2>2. Upto(c, 0, TRUE) = {} /\ Upto(c, 0, FALSE) = {}
    BY <1>4, <2>1
  <2>3. \A p \in S \X S : p[2] \in S
    OBVIOUS
  <2>4. RightPairs(c, 0) = {}
    BY <1>5, <2>1, <2>3
  <2> QED BY <2>2, <2>4, FS_EmptySet
<1>9. ASSUME NEW k \in 1..n
      PROVE  \/ F(k) = F(k - 1) /\ P(k) = P(k - 1)
             \/ F(k) = F(k - 1) + 1 /\ T(k) = T(k - 1) /\ P(k) = P(k - 1) + T(k)
  <2> DEFINE x == order[k]
  <2>1. x \in S /\ Spot(c, x) = k /\ k \in Nat /\ k - 1 \in Int
    BY <1>1
  <2>2. \A i \in S : Spot(c, i) \in Int /\ (Spot(c, i) = k => i = x)
    BY <1>1
  <2>3. \A i \in S : Spot(c, i) <= k <=> Spot(c, i) <= k - 1 \/ i = x
    BY <2>1, <2>2
  <2>4. ~ (Spot(c, x) <= k - 1)
    BY <2>1
  <2> HIDE DEF x
  <2>5. \A p \in S \X S : p[1] \in S /\ p[2] \in S /\ p = <<p[1], p[2]>>
    OBVIOUS
  <2>6. CASE c[x].expected
    <3>1. Upto(c, k, FALSE) = Upto(c, k - 1, FALSE)
      BY <1>4, <2>3, <2>6
    <3>2. \A p : p \in RightPairs(c, k) <=> p \in RightPairs(c, k - 1)
      BY <1>5, <2>3, <2>5, <2>6
    <3>3. RightPairs(c, k) = RightPairs(c, k - 1)
      BY <3>2
    <3> QED BY <3>1, <3>3
  <2>7. CASE ~ c[x].expected
    <3> DEFINE A == Upto(c, k, TRUE)
               B == RightPairs(c, k - 1)
    <3>1. A = Upto(c, k - 1, TRUE)
      BY <1>4, <2>3, <2>7
    <3>2. F(k) = F(k - 1) + 1
      <4>1. Upto(c, k, FALSE) = Upto(c, k - 1, FALSE) \cup {x} /\ x \notin Upto(c, k - 1, FALSE)
        BY <1>4, <2>1, <2>3, <2>4, <2>7
      <4> QED BY <1>6, <4>1, FS_AddElement
    <3>3. \A p : p \in RightPairs(c, k) <=> p \in B \/ p \in A \X {x}
      <4>1. ASSUME NEW p \in S \X S, p[2] = x PROVE p \in RightPairs(c, k) <=> p \in A \X {x}
        <5>1. p \in RightPairs(c, k) <=> c[p[1]].expected /\ Spot(c, p[1]) < k
          BY <1>5, <2>1, <2>7, <4>1
        <5>2. Spot(c, p[1]) < k <=> Spot(c, p[1]) <= k - 1
          BY <2>1, <2>2, <2>5
        <5>3. p[1] \in A <=> c[p[1]].expected /\ Spot(c, p[1]) <= k - 1
          BY <1>4, <2>5, <3>1
        <5>4. p \in A \X {x} <=> p[1] \in A
          <6> HIDE DEF A
          <6> QED BY <2>5, <4>1
        <5> QED BY <5>1, <5>2, <5>3, <5>4
      <4>2. ASSUME NEW p \in S \X S, p[2] # x
            PROVE  (p \in RightPairs(c, k) <=> p \in B) /\ p \notin A \X {x}
        <5>1. p \in RightPairs(c, k) <=> p \in B
          BY <1>5, <2>3, <2>5, <4>2
        <5> QED BY <4>2, <5>1
      <4>3. ASSUME NEW p \in S \X S, p[2] = x PROVE p \notin B
        BY <1>5, <2>4, <4>3
      <4>4. ASSUME NEW p, p \notin S \X S PROVE p \notin RightPairs(c, k) /\ p \notin B /\ p \notin A \X {x}
        <5>1. \A i \in A : i \in S
          BY <1>4
        <5>2. p \notin A \X {x}
          <6> HIDE DEF A
          <6> QED BY <2>1, <4>4, <5>1
        <5> QED BY <1>5, <4>4, <5>2
      <4> HIDE DEF A, B
      <4> QED BY <4>1, <4>2, <4>3, <4>4
    <3>4. B \cap (A \X {x}) = {}
      <4>1. \A p \in B : ~ (p[2] = x)
        BY <1>5, <2>4
      <4> HIDE DEF A, B
      <4> QED BY <4>1
    <3>5. IsFiniteSet(A) /\ IsFiniteSet(B) /\ IsFiniteSet({x}) /\ Cardinality({x}) = 1
      BY <1>6, FS_Singleton
    <3>6. T(k) = Cardinality(A) /\ P(k - 1) = Cardinality(B) /\ T(k) \in Nat /\ P(k - 1) \in Nat
      BY <1>7
    <3>7. RightPairs(c, k) = B \cup (A \X {x})
      <4> HIDE DEF A, B
      <4> QED BY <3>3
    <3> HIDE DEF A, B
    <3>8. IsFiniteSet(A \X {x}) /\ Cardinality(A \X {x}) = Cardinality(A)
      <4>1. IsFiniteSet(A \X {x}) /\ Cardinality(A \X {x}) = Cardinality(A) * Cardinality({x})
        BY <3>5, FS_Product
      <4>2. Cardinality(A) \in Nat /\ \A m \in Nat : m * 1 = m
        BY <3>5, FS_CardinalityType
      <4> QED BY <3>5, <4>1, <4>2
    <3>9. P(k) = Cardinality(B) + Cardinality(A) - Cardinality({})
      BY <3>4, <3>5, <3>7, <3>8, FS_Union
    <3>10. P(k) = P(k - 1) + T(k)
      <4>1. Cardinality({}) = 0
        BY FS_EmptySet
      <4> HIDE DEF T, P
      <4> QED BY <3>6, <3>9, <4>1
    <3>11. T(k) = T(k - 1)
      BY <3>1 DEF A
    <3> QED BY <3>2, <3>10, <3>11
  <2> QED BY <2>6, <2>7
<1> QED BY <1>7, <1>8, <1>9 DEF n, S

\* The curve passes through what has been counted up to each case.
LEMMA CurveByCounting ==
  ASSUME NEW c, Distinguished(c)
  PROVE  LET n == Cardinality(DOMAIN c)
             Point(k) == <<Cardinality(Upto(c, k, FALSE)), Cardinality(Upto(c, k, TRUE))>>
         IN  /\ Len(Curve(c)) = n + 2 /\ DOMAIN Curve(c) = 1..(n + 2)
             /\ \A k \in 1..(n + 2) : Curve(c)[k] = Point(IF k = n + 2 THEN n ELSE k - 1)
<1> DEFINE S == DOMAIN c
           n == Cardinality(S)
           order == ByScore(c)
           T(k) == Cardinality(Upto(c, k, TRUE))
           F(k) == Cardinality(Upto(c, k, FALSE))
           Point(k) == <<F(k), T(k)>>
           middle == Pick(order, LAMBDA i : <<AtFirst(c, i, FALSE), AtFirst(c, i, TRUE)>>)
           end == <<Negatives(c), Positives(c)>>
<1>1. /\ n \in Nat /\ order \in [1..n -> S] /\ Firsts(c) = S
      /\ \A i \in S : Spot(c, i) \in 1..n /\ order[Spot(c, i)] = i
      /\ \A k \in 1..n : Spot(c, order[k]) = k
      /\ \A i, j \in S : c[i].score > c[j].score <=> Spot(c, i) < Spot(c, j)
  BY PlacesByScore
<1>2. \A k \in 0..n : T(k) \in Nat /\ F(k) \in Nat
  BY NextCase
<1>3. IsFiniteSet(S) /\ \A i \in S : c[i].expected \in BOOLEAN
  BY DEF Distinguished, CaseSet
<1>4. ASSUME NEW k \in 1..n, NEW label \in BOOLEAN
      PROVE  AtFirst(c, order[k], label) = Cardinality(Upto(c, k, label))
  <2>1. \A i \in S : c[i].score > c[order[k]].score \/ i = order[k] <=> Spot(c, i) <= k
    <3> TAKE i \in S
    <3>1. order[k] \in S /\ Spot(c, order[k]) = k /\ Spot(c, i) \in Int /\ k \in Int
      BY <1>1
    <3>2. c[i].score > c[order[k]].score <=> Spot(c, i) < k
      BY <1>1, <3>1
    <3>3. i = order[k] <=> Spot(c, i) = k
      BY <1>1
    <3> QED BY <3>1, <3>2, <3>3
  <2> HIDE DEF order
  <2>2. {i \in S : c[i].expected = label /\ (c[i].score > c[order[k]].score \/ i = order[k])}
        = Upto(c, k, label)
    BY <2>1 DEF Upto
  <2> QED BY <2>2 DEF AtFirst
<1>5. middle = [k \in 1..n |-> Point(k)]
  <2>1. DOMAIN order = 1..n
    BY <1>1
  <2>2. \A k \in 1..n : AtFirst(c, order[k], FALSE) = F(k) /\ AtFirst(c, order[k], TRUE) = T(k)
    BY <1>4
  <2> HIDE DEF order, T, F
  <2> QED BY <2>1, <2>2 DEF Pick
<1>6. end = Point(n)
  <2>1. /\ \A i \in S : i \in Upto(c, n, TRUE) <=> c[i].expected
        /\ \A i \in S : i \in Upto(c, n, FALSE) <=> ~ c[i].expected
        /\ Upto(c, n, TRUE) \in SUBSET S /\ Upto(c, n, FALSE) \in SUBSET S
    <3>1. \A i \in S : Spot(c, i) <= n
      BY <1>1
    <3> QED BY <1>3, <3>1 DEF Upto
  <2>2. Positives(c) = T(n)
    <3>1. {i \in S : c[i].expected} = Upto(c, n, TRUE)
      BY <2>1
    <3> QED BY <3>1 DEF Positives
  <2>3. Upto(c, n, TRUE) \cup Upto(c, n, FALSE) = S /\ Upto(c, n, TRUE) \cap Upto(c, n, FALSE) = {}
    <3> HIDE DEF S
    <3> QED BY <2>1
  <2>4. IsFiniteSet(Upto(c, n, TRUE)) /\ IsFiniteSet(Upto(c, n, FALSE))
    BY <1>3, <2>1, FS_Subset
  <2>5. Cardinality(S) = T(n) + F(n) - Cardinality({})
    BY <2>3, <2>4, FS_Union
  <2>6. T(n) \in Nat /\ F(n) \in Nat /\ Cardinality({}) = 0
    BY <2>4, FS_CardinalityType, FS_EmptySet
  <2>7. Negatives(c) = F(n)
    <3>1. Negatives(c) = Cardinality(S) - T(n)
      BY <2>2 DEF Negatives
    <3> HIDE DEF T, F, S
    <3> QED BY <2>5, <2>6, <3>1
  <2> QED BY <2>2, <2>7
<1>7. Curve(c) = << <<0, 0>> >> \o middle \o <<end>>
  BY <1>1 DEF Curve, ByScore
<1>8. Point(0) = <<0, 0>>
  <2>1. T(0) = 0 /\ F(0) = 0
    BY NextCase
  <2> QED BY <2>1
<1> HIDE DEF middle, end
<1>9. << <<0, 0>> >> \in Seq(Nat \X Nat) /\ middle \in Seq(Nat \X Nat) /\ <<end>> \in Seq(Nat \X Nat)
  <2>1. \A k \in 0..n : Point(k) \in Nat \X Nat
    BY <1>2
  <2> HIDE DEF T, F, Point, n
  <2>2. \A k \in 1..n : Point(k) \in Nat \X Nat
    BY <1>1, <2>1
  <2>3. middle \in Seq(Nat \X Nat)
    BY <1>1, <1>5, <2>2, IsASeq
  <2>4. end \in Nat \X Nat
    BY <1>1, <1>6, <2>1
  <2> QED BY <2>3, <2>4
<1>10. Len(middle) = n
  <2>1. DOMAIN middle = 1..n
    BY <1>5
  <2> QED BY <1>1, <1>9, <2>1, LenProperties
<1> DEFINE start == << <<0, 0>> >> \o middle
<1>11. /\ start \in Seq(Nat \X Nat) /\ Len(start) = 1 + n
       /\ \A k \in 1..(1 + n) : start[k] = Point(k - 1)
  <2>1. /\ start \in Seq(Nat \X Nat) /\ Len(start) = Len(<< <<0, 0>> >>) + Len(middle)
        /\ \A k \in 1..(Len(<< <<0, 0>> >>) + Len(middle)) :
               start[k] = IF k <= Len(<< <<0, 0>> >>) THEN << <<0, 0>> >>[k]
                                                     ELSE middle[k - Len(<< <<0, 0>> >>)]
    BY <1>9, ConcatProperties
  <2>2. Len(<< <<0, 0>> >>) = 1 /\ << <<0, 0>> >>[1] = <<0, 0>>
    OBVIOUS
  <2> HIDE DEF start
  <2>3. \A k \in 1..(1 + n) : start[k] = IF k <= 1 THEN << <<0, 0>> >>[k] ELSE middle[k - 1]
    BY <1>10, <2>1, <2>2
  <2>4. ASSUME NEW k \in 1..(1 + n) PROVE start[k] = Point(k - 1)
    <3>1. CASE k = 1
      <4>1. k - 1 = 0 /\ k <= 1 /\ Point(k - 1) = Point(0)
        BY <3>1
      <4> HIDE DEF Point
      <4> QED BY <1>8, <2>2, <2>3, <3>1, <4>1
    <3>2. CASE k # 1
      <4>1. k - 1 \in 1..n /\ ~ (k <= 1)
        BY <1>1, <3>2
      <4>2. middle[k - 1] = Point(k - 1)
        <5> HIDE DEF Point
        <5> QED BY <1>5, <4>1
      <4> HIDE DEF Point
      <4> QED BY <2>3, <4>1, <4>2
    <3> QED BY <3>1, <3>2
  <2> QED BY <1>10, <2>1, <2>2, <2>4
<1> HIDE DEF start
<1>12. /\ Len(Curve(c)) = n + 2 /\ Curve(c) \in Seq(Nat \X Nat)
       /\ \A k \in 1..(n + 2) : Curve(c)[k] = IF k <= n + 1 THEN start[k] ELSE end
  <2>1. /\ Curve(c) \in Seq(Nat \X Nat) /\ Len(Curve(c)) = Len(start) + Len(<<end>>)
        /\ \A k \in 1..(Len(start) + Len(<<end>>)) :
               Curve(c)[k] = IF k <= Len(start) THEN start[k] ELSE <<end>>[k - Len(start)]
    BY <1>7, <1>9, <1>11, ConcatProperties DEF start
  <2>2. Len(<<end>>) = 1 /\ <<end>>[1] = end
    OBVIOUS
  <2>3. \A k \in 1..(n + 2) : ~ (k <= n + 1) => k - (1 + n) = 1
    BY <1>1
  <2> HIDE DEF n
  <2> QED BY <1>1, <1>11, <2>1, <2>2, <2>3
<1>13. DOMAIN Curve(c) = 1..(n + 2)
  BY <1>12, LenProperties
<1>14. ASSUME NEW k \in 1..(n + 2)
       PROVE  Curve(c)[k] = Point(IF k = n + 2 THEN n ELSE k - 1)
  <2> HIDE DEF Point
  <2>1. CASE k = n + 2
    <3>1. ~ (k <= n + 1)
      BY <1>1, <2>1
    <3> QED BY <1>6, <1>12, <2>1, <3>1
  <2>2. CASE k # n + 2
    <3>1. k <= n + 1 /\ k \in 1..(1 + n)
      BY <1>1, <2>2
    <3> QED BY <1>11, <1>12, <2>2, <3>1
  <2> QED BY <2>1, <2>2
<1> QED BY <1>12, <1>13, <1>14

\* Each trapezium adds the rightly ranked pairs of one more case, twice.
LEMMA AreaByCounting ==
  ASSUME NEW c, Distinguished(c)
  PROVE  TwiceArea(Curve(c)) = 2 * Cardinality(RightPairs(c, Cardinality(DOMAIN c)))
<1> DEFINE n == Cardinality(DOMAIN c)
           D == 1..(n + 2)
           curve == Curve(c)
           T(k) == Cardinality(Upto(c, k, TRUE))
           F(k) == Cardinality(Upto(c, k, FALSE))
           P(k) == Cardinality(RightPairs(c, k))
           Seen(k) == IF k = n + 2 THEN n ELSE k - 1
           Slice(k) == (curve[k][1] - curve[k - 1][1]) * (curve[k][2] + curve[k - 1][2])
           g == [k \in D |-> 2 * P(Seen(k))]
           Turn(f) == [k \in D |-> IF k = 1 THEN 0 ELSE f[k - 1] + Slice(k)]
           h == CHOOSE f : f = Turn(f)
<1>1. n \in Nat
  BY PlacesByScore
<1>2. DOMAIN curve = D /\ Len(curve) = n + 2 /\ \A k \in D : curve[k] = <<F(Seen(k)), T(Seen(k))>>
  BY CurveByCounting
<1>3. TwiceArea(curve) = h[n + 2]
  <2> HIDE DEF curve
  <2> QED BY <1>2 DEF TwiceArea
<1>4. /\ \A k \in 0..n : T(k) \in Nat /\ F(k) \in Nat /\ P(k) \in Nat
      /\ P(0) = 0
      /\ \A k \in 1..n : \/ F(k) = F(k - 1) /\ P(k) = P(k - 1)
                         \/ F(k) = F(k - 1) + 1 /\ T(k) = T(k - 1) /\ P(k) = P(k - 1) + T(k)
  BY NextCase
<1> HIDE DEF curve, T, F, P, n
<1>5. ASSUME NEW k \in D, k # 1
      PROVE  k - 1 \in D /\ g[k] = g[k - 1] + Slice(k) /\ k \in Nat
  <2>1. k - 1 \in D /\ k \in Nat
    BY <1>1, <1>5
  <2>2. Seen(k) \in 0..n /\ Seen(k - 1) \in 0..n
    BY <1>1, <1>5
  <2> DEFINE a == Seen(k)
             b == Seen(k - 1)
  <2>3. curve[k][1] = F(a) /\ curve[k][2] = T(a) /\ curve[k - 1][1] = F(b) /\ curve[k - 1][2] = T(b)
    BY <1>2, <2>1
  <2>4. /\ F(a) \in Nat /\ T(a) \in Nat /\ P(a) \in Nat /\ F(b) \in Nat /\ T(b) \in Nat /\ P(b) \in Nat
    BY <1>4, <2>2
  <2>5. \/ F(a) = F(b) /\ P(a) = P(b)
        \/ F(a) = F(b) + 1 /\ T(a) = T(b) /\ P(a) = P(b) + T(a)
    <3>1. CASE k = n + 2
      <4>1. a = n /\ b = n
        BY <1>1, <3>1
      <4> QED BY <4>1
    <3>2. CASE k # n + 2
      <4>1. a \in 1..n /\ b = a - 1
        BY <1>1, <1>5, <3>2
      <4> HIDE DEF a, b
      <4> QED BY <1>4, <4>1
    <3> QED BY <3>1, <3>2
  <2>6. Slice(k) = (F(a) - F(b)) * (T(a) + T(b))
    BY <2>3
  <2> HIDE DEF a, b, Slice
  <2>7. 2 * P(a) = 2 * P(b) + Slice(k)
    <3>1. CASE F(a) = F(b) /\ P(a) = P(b)
      <4>1. F(a) - F(b) = 0 /\ T(a) + T(b) \in Nat /\ \A m \in Nat : 0 * m = 0
        BY <2>4, <3>1
      <4> QED BY <2>4, <2>6, <3>1, <4>1
    <3>2. CASE F(a) = F(b) + 1 /\ T(a) = T(b) /\ P(a) = P(b) + T(a)
      <4>1. F(a) - F(b) = 1 /\ T(a) + T(b) = 2 * T(a) /\ \A m \in Nat : 1 * m = m
        BY <2>4, <3>2
      <4>2. Slice(k) = 2 * T(a)
        BY <2>4, <2>6, <4>1
      <4> QED BY <2>4, <3>2, <4>2
    <3> QED BY <2>5, <3>1, <3>2
  <2>8. g[k] = 2 * P(a) /\ g[k - 1] = 2 * P(b)
    BY <2>1 DEF a, b
  <2> QED BY <2>1, <2>7, <2>8
<1>6. 1 \in D /\ n + 2 \in D /\ g[1] = 0 /\ g[n + 2] = 2 * P(n)
  <2>1. 1 \in D /\ n + 2 \in D /\ Seen(1) = 0 /\ Seen(n + 2) = n
    BY <1>1
  <2> HIDE DEF Seen
  <2> QED BY <1>4, <2>1
<1>7. g = [k \in D |-> g[k]]
  OBVIOUS
<1> HIDE DEF g, Slice, D
<1>8. g = Turn(g)
  <2>1. \A k \in D : g[k] = IF k = 1 THEN 0 ELSE g[k - 1] + Slice(k)
    BY <1>5, <1>6
  <2> QED BY <1>7, <2>1
<1> HIDE DEF Turn
<1>9. h = Turn(h)
  BY <1>8
<1> HIDE DEF h
<1>10. \A k \in D : h[k] = IF k = 1 THEN 0 ELSE h[k - 1] + Slice(k)
  BY <1>9 DEF Turn
<1> DEFINE Other == {k \in D : h[k] # g[k]}
<1>11. ASSUME Other # {} PROVE FALSE
  <2>1. Other \in SUBSET Nat
    BY <1>1 DEF D
  <2> HIDE DEF Other
  <2>2. PICK k \in Other : \A m \in Other : k <= m
    BY <1>11, <2>1, LeastElement
  <2>3. k \in D /\ h[k] # g[k] /\ k \in Nat
    BY <2>1, <2>2 DEF Other
  <2>4. k # 1
    BY <1>6, <1>10, <2>3
  <2>5. k - 1 \in D /\ ~ (k <= k - 1)
    BY <1>5, <2>3, <2>4
  <2>6. h[k - 1] = g[k - 1]
    BY <2>2, <2>5 DEF Other
  <2> QED BY <1>5, <1>10, <2>3, <2>4, <2>6
<1>12. h[n + 2] = g[n + 2]
  BY <1>6, <1>11
<1> QED BY <1>3, <1>6, <1>12 DEF curve, P, n

-----------------------------------------------------------------------------
\* What every answer is: none yet, or the function of the call.
Faithful ==
  \/ question \in Question /\ verdict = Raised
  \/ /\ question.op = "answered" /\ question.of \in Question
     /\ question.of.op = "run" => verdict = EvaluateRun(question.of)
     /\ question.of.op = "manifest" => verdict = DatasetManifest(question.of.cases)
     /\ question.of.op = "threshold" => verdict = CalibrateThreshold(question.of)
     /\ question.of.op = "ranking" => verdict = RankingMetrics(question.of)

LEMMA AnswersAreFaithful == EvaluationSpec => []Faithful
<1>1. EvaluationInit(Question) => Faithful
  BY DEF EvaluationInit, Faithful
<1>2. Faithful /\ [EvaluationNext]_evaluationVars => Faithful'
  <2> SUFFICES ASSUME Faithful, [EvaluationNext]_evaluationVars PROVE Faithful'
    OBVIOUS
  <2>1. ASSUME NEW op \in {"run", "manifest", "threshold", "ranking"}, NEW value, Answer(op, value)
        PROVE  /\ question \in Question /\ question.op = op /\ verdict' = value
               /\ question'.op = "answered" /\ question'.of = question
    BY <2>1, EvaluationAssumption DEF Answer, Faithful
  <2>2. CASE EvaluatesRun
    BY <2>1, <2>2 DEF EvaluatesRun, Faithful
  <2>3. CASE BuildsManifest
    BY <2>1, <2>3 DEF BuildsManifest, Faithful
  <2>4. CASE Calibrates
    BY <2>1, <2>4 DEF Calibrates, Faithful
  <2>5. CASE Ranks
    BY <2>1, <2>5 DEF Ranks, Faithful
  <2>6. CASE UNCHANGED evaluationVars
    BY <2>6 DEF evaluationVars, Faithful
  <2> QED BY <2>2, <2>3, <2>4, <2>5, <2>6 DEF EvaluationNext
<1> QED BY <1>1, <1>2, PTL DEF EvaluationSpec

\* A figure that is published is of samples the detector was not built on, each counted
\* once, and a manifest does not depend on the order of its cases.
THEOREM FiguresAreOfOtherData == EvaluationSpec => []EvaluatedApart
<1>1. Faithful => EvaluatedApart
  <2> SUFFICES ASSUME Faithful PROVE EvaluatedApart
    OBVIOUS
  <2> DEFINE q == question.of
  <2>1. ASSUME Answered("run") PROVE RunIsApart(q, verdict)
    <3>1. q \in Question /\ q.op = "run" /\ verdict = EvaluateRun(q)
      BY <2>1, EvaluationAssumption DEF Answered, Faithful
    <3> QED BY <3>1, RunsAreApart
  <2>2. ASSUME Answered("manifest"), NEW p \in [DOMAIN q.cases -> DOMAIN q.cases], Distinct(p)
        PROVE  DatasetManifest([i \in DOMAIN p |-> q.cases[p[i]]]) = verdict
    <3>1. q \in Question /\ q.op = "manifest" /\ verdict = DatasetManifest(q.cases)
      BY <2>2, EvaluationAssumption DEF Answered, Faithful
    <3>2. q.cases \in Seq(Range(q.cases))
      BY <3>1, EvaluationAssumption
    <3> QED BY <2>2, <3>1, <3>2, ManifestOfReordered
  <2> QED BY <2>1, <2>2 DEF EvaluatedApart, RunIsApart
<1> QED BY <1>1, AnswersAreFaithful, PTL

\* The threshold chosen among the scores is as good as any from zero to one, and
\* refused only if none of them keeps to the limit (calibrate_threshold).
LEMMA ChoiceIsBest == EvaluationSpec => []ChosenIsBest
<1>1. Faithful => ChosenIsBest
  <2> DEFINE q == question.of
             c == Scored(q.cases)
             S == {u \in Candidates(c) : Feasible(q, c, u)}
  <2> SUFFICES ASSUME Faithful, Answered("threshold"), Askable(q)
               PROVE  /\ verdict.error => \A t \in 0..Full : ~ Feasible(q, c, t)
                      /\ ~ verdict.error =>
                           /\ verdict.threshold \in 0..Full /\ Feasible(q, c, verdict.threshold)
                           /\ \A t \in 0..Full : Feasible(q, c, t) =>
                                 Value(q, c, verdict.threshold) >= Value(q, c, t)
    BY DEF ChosenIsBest
  <2>1. q \in Question /\ q.op = "threshold" /\ verdict = CalibrateThreshold(q)
    BY EvaluationAssumption DEF Answered, Faithful
  <2>2. CaseSet(c) /\ q.limit \in Int /\ Full \in Nat
    BY <2>1, ScoredIsACaseSet
  <2>3. Candidates(c) \subseteq 0..Full
    <3>1. 0 \in 0..Full
      BY <2>2
    <3> QED BY <2>2, <3>1, CandidateForThreshold
  \* What any threshold detects, one of the candidates does.
  <2>4. ASSUME NEW t \in 0..Full, Feasible(q, c, t)
        PROVE  \E u \in S : Value(q, c, u) = Value(q, c, t)
    <3>1. PICK u \in Candidates(c) : At(c, u) = At(c, t)
      BY <2>2, CandidateForThreshold
    <3>2. Tpr(c, u) = Tpr(c, t) /\ Fpr(c, u) = Fpr(c, t)
      BY <3>1 DEF Tpr, Fpr
    <3>3. Value(q, c, u) = Value(q, c, t) /\ (Feasible(q, c, u) <=> Feasible(q, c, t))
      BY <3>2 DEF Value, Feasible
    <3> QED BY <2>4, <3>1, <3>3
  <2> DEFINE best == CHOOSE w \in S : \A x \in S \ {w} : Beats(q, c, w, x)
  <2>5. CASE S = {}
    <3>1. verdict = Raised
      BY <2>1, <2>5 DEF CalibrateThreshold
    <3>2. verdict.error
      BY <3>1 DEF Raised
    <3>3. \A t \in 0..Full : ~ Feasible(q, c, t)
      BY <2>4, <2>5
    <3> QED BY <3>2, <3>3
  <2>6. CASE S # {}
    <3>1. verdict = [error |-> FALSE, threshold |-> best, matrix |-> At(c, best)]
      BY <2>1, <2>6 DEF CalibrateThreshold
    <3>2. \E w \in S : \A x \in S \ {w} : Beats(q, c, w, x)
      BY <2>2, <2>6, <2>3, BestCandidate
    <3>3. best \in S /\ \A x \in S \ {best} : Beats(q, c, best, x)
      BY <3>2
    <3> HIDE DEF best
    <3>4. \A w \in S : Value(q, c, best) >= Value(q, c, w)
      BY <2>2, <2>6, <2>3, <3>3, BestCandidate
    <3>5. best \in 0..Full /\ Feasible(q, c, best)
      BY <2>3, <3>3
    <3>6. ~ verdict.error /\ verdict.threshold = best
      BY <3>1
    <3> HIDE DEF S, q, c
    <3> QED BY <2>4, <3>4, <3>5, <3>6
  <2> QED BY <2>5, <2>6
<1> QED BY <1>1, AnswersAreFaithful, PTL

\* The area is the share of the pairs ranked rightly (ranking_metrics).
LEMMA AreaIsTheShare == EvaluationSpec => []AreaIsShare
<1>1. Faithful => AreaIsShare
  <2> DEFINE q == question.of
             c == Scored(q.cases)
             right == {p \in (DOMAIN c) \X (DOMAIN c) :
                          c[p[1]].expected /\ ~ c[p[2]].expected /\ c[p[1]].score > c[p[2]].score}
             n == Cardinality(DOMAIN c)
  <2> SUFFICES ASSUME Faithful, Answered("ranking"), \A i, k \in DOMAIN c : c[i].score = c[k].score => i = k
               PROVE  verdict.area = 2 * Cardinality(right)
    BY DEF AreaIsShare
  <2>1. q \in Question /\ q.op = "ranking" /\ verdict = RankingMetrics(q)
    BY EvaluationAssumption DEF Answered, Faithful
  <2>2. Distinguished(c)
    BY <2>1, ScoredIsACaseSet DEF Distinguished
  <2>3. verdict.area = TwiceArea(Curve(c))
    BY <2>1 DEF RankingMetrics
  <2> HIDE DEF c
  <2>4. /\ n \in Nat /\ \A i \in DOMAIN c : Spot(c, i) \in 1..n
        /\ \A i, j \in DOMAIN c : c[i].score > c[j].score <=> Spot(c, i) < Spot(c, j)
    BY <2>2, PlacesByScore
  <2>5. \A i \in DOMAIN c : Spot(c, i) <= n
    BY <2>4
  <2>6. right = RightPairs(c, n)
    BY <2>4, <2>5 DEF RightPairs
  <2> QED BY <2>2, <2>3, <2>6, AreaByCounting
<1> QED BY <1>1, AnswersAreFaithful, PTL

\* The threshold chosen is as good as any from zero to one (calibrate_threshold), and the
\* area reported (ranking_metrics) is the share of the pairs of a positive and a negative case that the scores rank rightly.
THEOREM ThresholdAndAreaAreRight == EvaluationSpec => []ThresholdIsBest
BY ChoiceIsBest, AreaIsTheShare, PTL DEF ThresholdIsBest

-----------------------------------------------------------------------------
(***************************************************************************)
(* The signal of a feed: sorting by counting what comes before, and what   *)
(* scaling leaves of the order of the readings.                            *)
(***************************************************************************)
Datum == [text : Int, time : {"given", "absent", "malformed"}, instant : Int,
          read : {"given", "absent", "text", "null"}, reading : Int]

\* The order of texts lists every usable record once, each before the next.
LEMMA TimeOrderSorts ==
  ASSUME NEW records \in Seq(Datum)
  PROVE  LET n == Cardinality(Usable(records))
             order == TimeOrder(records)
         IN  /\ n \in Nat /\ order \in [1..n -> Usable(records)]
             /\ \A i \in Usable(records) : \E k \in 1..n : order[k] = i
             /\ \A k, m \in 1..n : k < m => Precedes(records, order[k], order[m])
<1> DEFINE kept == Usable(records)
           n == Cardinality(kept)
           R == {p \in kept \X kept : Precedes(records, p[1], p[2])}
           order == Arranged(kept, R)
<1>1. kept \subseteq Nat /\ IsFiniteSet(kept) /\ \A i \in kept : records[i].text \in Int
  <2>1. Len(records) \in Nat /\ DOMAIN records = 1..Len(records) /\ \A i \in DOMAIN records : records[i] \in Datum
    BY LenProperties, ElementOfSeq
  <2>2. kept \in SUBSET (1..Len(records))
    BY <2>1 DEF Usable
  <2>3. IsFiniteSet(1..Len(records))
    BY <2>1, LengthCounts
  <2>4. IsFiniteSet(kept)
    BY <2>2, <2>3, FS_Subset
  <2> QED BY <2>1, <2>2, <2>4 DEF Datum, Usable
<1>2. TimeOrder(records) = order
  BY DEF TimeOrder
<1> HIDE DEF kept
<1>3. \A i, j \in kept : <<i, j>> \in R <=> Precedes(records, i, j)
  OBVIOUS
<1> HIDE DEF R
<1>4. /\ \A i, j \in kept : i # j => Precedes(records, i, j) \/ Precedes(records, j, i)
      /\ \A i, j \in kept : Precedes(records, i, j) => ~ Precedes(records, j, i) /\ i # j
      /\ \A i, j, k \in kept : Precedes(records, i, j) /\ Precedes(records, j, k) => Precedes(records, i, k)
  BY <1>1 DEF Precedes
<1>5. StrictOrder(R, kept)
  BY <1>3, <1>4 DEF StrictOrder
<1>6. /\ n \in Nat /\ order \in [1..n -> kept]
      /\ \A i \in kept : \E k \in 1..n : order[k] = i
      /\ \A k, m \in 1..n : k < m => <<order[k], order[m]>> \in R
  BY <1>1, <1>5, ArrangedInOrder
<1>7. \A k, m \in 1..n : k < m => Precedes(records, order[k], order[m])
  BY <1>3, <1>6
<1> HIDE DEF order, n
<1> QED BY <1>2, <1>6, <1>7 DEF kept, n

LEMMA TimesLarger ==
  ASSUME NEW d \in Nat, NEW a \in Int, NEW b \in Int, a <= b
  PROVE  d * a <= d * b /\ d * a \in Int /\ d * b \in Int
BY Z3

\* What is known of a quotient from what is known of the number divided.
LEMMA Quotients ==
  ASSUME NEW d \in Nat, d > 0, NEW a \in Int
  PROVE  /\ a \div d \in Int
         /\ \A x \in Int : d * x <= a => x <= a \div d
         /\ \A x \in Int : a < d * x => a \div d < x
<1> DEFINE q == a \div d
<1>1. q \in Int /\ d * q <= a /\ a < d * (q + 1)
  BY Z3
<1> HIDE DEF q
<1>2. ASSUME NEW x \in Int, d * x <= a PROVE x <= q
  <2>1. q + 1 <= x => d * (q + 1) <= d * x
    BY <1>1, TimesLarger
  <2>2. d * (q + 1) \in Int /\ d * x \in Int
    BY <1>1
  <2> QED BY <1>1, <1>2, <2>1, <2>2
<1>3. ASSUME NEW x \in Int, a < d * x PROVE q < x
  <2>1. x <= q => d * x <= d * q
    BY <1>1, TimesLarger
  <2>2. d * q \in Int /\ d * x \in Int
    BY <1>1
  <2> QED BY <1>1, <1>3, <2>1, <2>2
<1> QED BY <1>1, <1>2, <1>3 DEF q

LEMMA QuotientsFollow ==
  ASSUME NEW d \in Nat, d > 0, NEW a \in Int, NEW b \in Int, a <= b
  PROVE  a \div d <= b \div d
<1>1. a \div d \in Int /\ d * (a \div d) <= a
  BY Z3
<1>2. d * (a \div d) \in Int
  BY <1>1
<1>3. d * (a \div d) <= b
  BY <1>1, <1>2
<1> QED BY <1>1, <1>3, Quotients

LEMMA Extremes ==
  ASSUME NEW n \in Nat \ {0}, NEW values \in [1..n -> Int]
  PROVE  LET mn == Min(Range(values))
             mx == Max(Range(values))
         IN  /\ \E k \in 1..n : values[k] = mn
             /\ \E k \in 1..n : values[k] = mx
             /\ \A k \in 1..n : mn <= values[k] /\ values[k] <= mx
<1> DEFINE Least == {p \in (1..n) \X (1..n) : values[p[1]] <= values[p[2]]}
           Largest == {p \in (1..n) \X (1..n) : values[p[1]] >= values[p[2]]}
<1>1. \A a, b \in 1..n : /\ <<a, b>> \in Least <=> values[a] <= values[b]
                         /\ <<a, b>> \in Largest <=> values[a] >= values[b]
  OBVIOUS
<1>2. \A a \in 1..n : values[a] \in Int
  OBVIOUS
<1> HIDE DEF Least, Largest
<1>3. Orders(Least, 1..n) /\ Orders(Largest, 1..n)
  BY <1>1, <1>2 DEF Orders
<1>4. (1..n) \in SUBSET (0..n) /\ 1..n # {}
  OBVIOUS
<1>5. PICK b \in 1..n : \A u \in (1..n) \ {b} : <<b, u>> \in Least
  BY <1>3, <1>4, FirstInOrder
<1>6. PICK t \in 1..n : \A u \in (1..n) \ {t} : <<t, u>> \in Largest
  BY <1>3, <1>4, FirstInOrder
<1>7. \A u \in 1..n : values[b] <= values[u] /\ values[t] >= values[u]
  <2> TAKE u \in 1..n
  <2>1. values[u] \in Int /\ values[b] \in Int /\ values[t] \in Int
    BY <1>2
  <2>3. values[b] <= values[u]
    <3>1. CASE u = b
      BY <2>1, <3>1
    <3>2. CASE u # b
      BY <1>1, <1>5, <3>2
    <3> QED BY <3>1, <3>2
  <2>4. values[t] >= values[u]
    <3>1. CASE u = t
      BY <2>1, <3>1
    <3>2. CASE u # t
      BY <1>1, <1>6, <3>2
    <3> QED BY <3>1, <3>2
  <2> QED BY <2>3, <2>4
<1>8. Range(values) = {values[k] : k \in 1..n}
  BY DEF Range
<1>9. Min(Range(values)) = values[b]
  <2>1. values[b] \in Range(values) /\ \A y \in Range(values) : values[b] <= y
    BY <1>7, <1>8
  <2>2. ASSUME NEW x \in Range(values), \A y \in Range(values) : x <= y PROVE x = values[b]
    <3>1. x \in Int /\ values[b] \in Int
      BY <1>2, <1>8
    <3>2. x <= values[b] /\ values[b] <= x
      BY <2>1, <2>2
    <3> QED BY <3>1, <3>2
  <2> QED BY <2>1, <2>2 DEF Min
<1>10. Max(Range(values)) = values[t]
  <2>1. values[t] \in Range(values) /\ \A y \in Range(values) : values[t] >= y
    BY <1>7, <1>8
  <2>2. ASSUME NEW x \in Range(values), \A y \in Range(values) : x >= y PROVE x = values[t]
    <3>1. x \in Int /\ values[t] \in Int
      BY <1>2, <1>8
    <3>2. x >= values[t] /\ values[t] >= x
      BY <2>1, <2>2
    <3> QED BY <3>1, <3>2
  <2> QED BY <2>1, <2>2 DEF Max
<1> QED BY <1>2, <1>7, <1>9, <1>10

LEMMA Normalized ==
  ASSUME NEW n \in Nat, NEW values \in [1..n -> Int]
  PROVE  LET scaled == Normalize(values)
         IN  /\ scaled \in [1..n -> 0..1000]
             /\ \A i, j \in 1..n : values[i] < values[j] => scaled[i] <= scaled[j]
<1> DEFINE scaled == Normalize(values)
           mn == Min(Range(values))
           mx == Max(Range(values))
<1>1. CASE n = 0
  BY <1>1 DEF Normalize
<1>2. CASE n # 0
  <2>1. n \in Nat \ {0}
    BY <1>2
  <2>2. /\ \E k \in 1..n : values[k] = mn
        /\ \E k \in 1..n : values[k] = mx
        /\ \A k \in 1..n : mn <= values[k] /\ values[k] <= mx
    BY <2>1, Extremes
  <2>3. mn \in Int /\ mx \in Int /\ \A k \in 1..n : values[k] \in Int
    BY <2>2
  <2>4. scaled = [i \in 1..n |-> IF mx = mn THEN 500 ELSE (1000 * (values[i] - mn)) \div (mx - mn)]
    BY DEF Normalize
  <2> HIDE DEF mn, mx, scaled
  <2>5. CASE mx = mn
    <3>1. scaled = [i \in 1..n |-> 500]
      BY <2>4, <2>5
    <3> QED BY <3>1 DEF scaled
  <2>6. CASE mx # mn
    <3> DEFINE d == mx - mn
               a(i) == 1000 * (values[i] - mn)
    <3>1. d \in Nat /\ d > 0
      BY <2>1, <2>2, <2>3, <2>6
    <3>2. \A i \in 1..n : a(i) \in Int /\ d * 0 <= a(i) /\ a(i) < d * 1001
      BY <2>2, <2>3, <3>1
    <3>3. \A i \in 1..n : scaled[i] = a(i) \div d
      BY <2>4, <2>6
    <3>4. \A i, j \in 1..n : values[i] < values[j] => a(i) <= a(j)
      BY <2>3
    <3> HIDE DEF d, a
    <3>5. \A i \in 1..n : scaled[i] \in 0..1000
      <4> TAKE i \in 1..n
      <4> DEFINE q == a(i) \div d
      <4>1. a(i) \in Int /\ d * 0 <= a(i) /\ a(i) < d * 1001
        BY <3>2
      <4>2. q \in Int /\ 0 <= q /\ q < 1001
        BY <3>1, <4>1, Quotients
      <4>3. scaled[i] = q
        BY <3>3
      <4> HIDE DEF q
      <4> QED BY <4>2, <4>3
    <3>6. \A i, j \in 1..n : values[i] < values[j] => scaled[i] <= scaled[j]
      BY <3>1, <3>2, <3>3, <3>4, QuotientsFollow
    <3>7. scaled = [i \in 1..n |-> scaled[i]]
      BY <2>4
    <3>8. scaled \in [1..n -> 0..1000]
      BY <3>5, <3>7
    <3> QED BY <3>6, <3>8 DEF scaled
  <2> QED BY <2>5, <2>6
<1> QED BY <1>1, <1>2

LEMMA StrengthFollows ==
  ASSUME NEW v \in Int
  PROVE  /\ Strength(v) \in 0..1000
         /\ \A w \in Int : v <= w => Strength(v) <= Strength(w)
         /\ v <= -110 => Strength(v) < 500
         /\ v >= -75 => Strength(v) >= 500
<1> DEFINE Scaled(u) == (1000 * (u + 120)) \div 60
<1>1. ASSUME NEW u \in Int
      PROVE  /\ Scaled(u) \in Int
             /\ Strength(u) = IF Scaled(u) < 0 THEN 0 ELSE IF Scaled(u) > 1000 THEN 1000 ELSE Scaled(u)
  <2>1. Scaled(u) \in Int
    BY Quotients
  <2>2. Strength(u) = Max({0, Min({1000, Scaled(u)})})
    BY DEF Strength
  <2> HIDE DEF Scaled
  <2>3. Min({1000, Scaled(u)}) = IF 1000 <= Scaled(u) THEN 1000 ELSE Scaled(u)
    BY <2>1, LargerOf
  <2> DEFINE m == Min({1000, Scaled(u)})
  <2>4. m \in Int
    BY <2>1, <2>3
  <2> HIDE DEF m
  <2>5. Max({0, m}) = IF 0 >= m THEN 0 ELSE m
    BY <2>4, LargerOf
  <2> QED BY <2>1, <2>2, <2>3, <2>5 DEF m
<1>2. \A w \in Int : v <= w => Scaled(v) <= Scaled(w)
  <2> SUFFICES ASSUME NEW w \in Int, v <= w PROVE Scaled(v) <= Scaled(w)
    OBVIOUS
  <2>1. 1000 * (v + 120) <= 1000 * (w + 120)
    OBVIOUS
  <2> QED BY <2>1, QuotientsFollow
<1>3. v <= -110 => Scaled(v) < 500
  <2> SUFFICES ASSUME v <= -110 PROVE Scaled(v) < 500
    OBVIOUS
  <2>1. 1000 * (v + 120) < 60 * 500
    OBVIOUS
  <2> QED BY <2>1, Quotients
<1>4. v >= -75 => Scaled(v) >= 500
  <2> SUFFICES ASSUME v >= -75 PROVE 500 <= Scaled(v)
    BY <1>1
  <2>1. 60 * 500 <= 1000 * (v + 120)
    OBVIOUS
  <2> QED BY <2>1, Quotients
<1> HIDE DEF Scaled
<1>5. Strength(v) \in 0..1000
  <2>1. Strength(v) \in Int /\ 0 <= Strength(v) /\ Strength(v) <= 1000
    BY <1>1
  <2> QED BY <2>1
<1>6. \A w \in Int : v <= w => Strength(v) <= Strength(w)
  BY <1>1, <1>2
<1> QED BY <1>1, <1>3, <1>4, <1>5, <1>6

-----------------------------------------------------------------------------
(***************************************************************************)
(* The feeds of the simulators.                                            *)
(***************************************************************************)
Ways == {"least", "largest", "mixed"}

LEMMA SimulatedFeed ==
  ASSUME NEW source \in Kinds, NEW quiet \in Ways, NEW normal \in Ways
  PROVE  LET records == Simulated(source, quiet, normal)
         IN  /\ records \in Seq(Datum) /\ Usable(records) = 1..100
             /\ TimeOrder(records) = [k \in 1..100 |-> k]
             /\ \A i \in 1..100 :
                    /\ ReadingOf(source, records[i]) \in Int
                    /\ IF i - 1 \in Dark(source)
                       THEN /\ Quiet(source)[1] <= ReadingOf(source, records[i])
                            /\ ReadingOf(source, records[i]) <= Quiet(source)[2]
                       ELSE /\ Normal(source)[1] <= ReadingOf(source, records[i])
                            /\ ReadingOf(source, records[i]) <= Normal(source)[2]
<1> DEFINE records == Simulated(source, quiet, normal)
           Drawn(i) == IF i - 1 \in Dark(source) THEN Draw(Quiet(source), quiet, i)
                       ELSE Draw(Normal(source), normal, i)
<1>1. ASSUME NEW i \in 1..100, NEW range, range[1] \in Int, range[2] \in Int, range[1] <= range[2],
             NEW how \in Ways
      PROVE  /\ Draw(range, how, i) \in Int
             /\ range[1] <= Draw(range, how, i) /\ Draw(range, how, i) <= range[2]
  <2>1. i % 2 = 0 \/ i % 2 = 1
    OBVIOUS
  <2>2. Draw(range, how, i) = range[1] \/ Draw(range, how, i) = range[2]
    BY <2>1 DEF Draw, Ways
  <2> QED BY <1>1, <2>2
<1>2. /\ Quiet(source)[1] \in Int /\ Quiet(source)[2] \in Int /\ Quiet(source)[1] <= Quiet(source)[2]
      /\ Normal(source)[1] \in Int /\ Normal(source)[2] \in Int /\ Normal(source)[1] <= Normal(source)[2]
  BY DEF Kinds, Quiet, Normal
<1>3. ASSUME NEW i \in 1..100
      PROVE  /\ Drawn(i) \in Int
             /\ i - 1 \in Dark(source) => Quiet(source)[1] <= Drawn(i) /\ Drawn(i) <= Quiet(source)[2]
             /\ i - 1 \notin Dark(source) => Normal(source)[1] <= Drawn(i) /\ Drawn(i) <= Normal(source)[2]
  BY <1>1, <1>2
<1> HIDE DEF Drawn
<1>4. records = [i \in 1..100 |-> [text |-> i, time |-> "given", instant |-> i, read |-> "given",
                                   reading |-> Drawn(i)]]
  BY DEF Simulated, Drawn
<1> HIDE DEF records
<1>5. records \in [1..100 -> Datum]
  BY <1>3, <1>4 DEF Datum
<1>6. records \in Seq(Datum)
  <2>1. records = [i \in 1..100 |-> records[i]] /\ \A i \in 1..100 : records[i] \in Datum
    BY <1>5
  <2>2. [i \in 1..100 |-> records[i]] \in Seq(Datum)
    BY <2>1, IsASeq
  <2> QED BY <2>1, <2>2
<1>7. \A i \in 1..100 : /\ records[i].text = i /\ Readable(records[i])
                        /\ ReadingOf(source, records[i]) = Drawn(i)
  BY <1>4 DEF Readable, ReadingOf
<1>8. Usable(records) = 1..100
  BY <1>4, <1>7 DEF Usable
<1>9. TimeOrder(records) = [k \in 1..100 |-> k]
  <2> DEFINE R == {p \in (1..100) \X (1..100) : Precedes(records, p[1], p[2])}
  <2>1. \A i \in 1..100 : Place(1..100, R, i) = i
    <3> TAKE i \in 1..100
    <3>1. ASSUME NEW j \in 1..100 PROVE j = i \/ <<j, i>> \in R <=> j \in 1..i
      <4>1. records[j].text = j /\ records[i].text = i
        BY <1>7
      <4> QED BY <4>1 DEF Precedes
    <3>2. {j \in 1..100 : j = i \/ <<j, i>> \in R} = 1..i
      <4>1. \A j \in 1..i : j \in 1..100
        OBVIOUS
      <4> HIDE DEF R
      <4> QED BY <3>1, <4>1
    <3>3. Cardinality(1..i) = i
      BY LengthCounts
    <3> QED BY <3>2, <3>3 DEF Place
  <2>2. Cardinality(1..100) = 100
    BY LengthCounts
  <2>3. TimeOrder(records) = [k \in 1..100 |-> CHOOSE i \in 1..100 : Place(1..100, R, i) = k]
    BY <1>8, <2>2 DEF TimeOrder, Arranged
  <2> HIDE DEF R
  <2>4. \A k \in 1..100 : (CHOOSE i \in 1..100 : Place(1..100, R, i) = k) = k
    BY <2>1
  <2> QED BY <2>3, <2>4
<1>10. \A i \in 1..100 :
           /\ ReadingOf(source, records[i]) \in Int
           /\ IF i - 1 \in Dark(source)
              THEN /\ Quiet(source)[1] <= ReadingOf(source, records[i])
                   /\ ReadingOf(source, records[i]) <= Quiet(source)[2]
              ELSE /\ Normal(source)[1] <= ReadingOf(source, records[i])
                   /\ ReadingOf(source, records[i]) <= Normal(source)[2]
  BY <1>3, <1>7
<1> QED BY <1>6, <1>8, <1>9, <1>10 DEF records

\* In the signal of a simulated feed what is silent stays below half.
AsDrawn(source, values) ==
  \A i \in 1..100 : IF i - 1 \in Dark(source)
                    THEN Quiet(source)[1] <= values[i] /\ values[i] <= Quiet(source)[2]
                    ELSE Normal(source)[1] <= values[i] /\ values[i] <= Normal(source)[2]

LEMMA SimulatedSignal ==
  ASSUME NEW source \in Kinds, NEW values \in [1..100 -> Int], AsDrawn(source, values),
         NEW k \in 1..100, k - 1 \in Dark(source), NEW m \in 1..100, m - 1 \notin Dark(source)
  PROVE  LET scaled == IF source = "gps" THEN [i \in 1..100 |-> Strength(values[i])] ELSE Normalize(values)
         IN  /\ scaled[k] < 500 /\ scaled[k] < scaled[m]
             /\ source # "ais" => scaled[m] >= 500
<1>1. CASE source = "gps"
  <2>1. values[k] \in Int /\ values[m] \in Int /\ values[k] <= -110 /\ values[m] >= -75
    BY <1>1 DEF AsDrawn, Quiet, Normal
  <2>2. Strength(values[k]) \in 0..1000 /\ Strength(values[k]) < 500
    BY <2>1, StrengthFollows
  <2>3. Strength(values[m]) \in 0..1000 /\ Strength(values[m]) >= 500
    BY <2>1, StrengthFollows
  <2>4. Strength(values[k]) < Strength(values[m])
    <3>1. \A x, y \in 0..1000 : x < 500 /\ y >= 500 => x < y
      OBVIOUS
    <3> QED BY <2>2, <2>3, <3>1
  <2> QED BY <1>1, <2>2, <2>3, <2>4
<1>2. CASE source # "gps"
  <2> DEFINE mn == Min(Range(values))
             mx == Max(Range(values))
             d == mx - mn
             a(i) == 1000 * (values[i] - mn)
  <2>1. /\ \E i \in 1..100 : values[i] = mn
        /\ \E i \in 1..100 : values[i] = mx
        /\ \A i \in 1..100 : mn <= values[i] /\ values[i] <= mx
    <3>1. 100 \in Nat \ {0}
      OBVIOUS
    <3> QED BY <3>1, Extremes
  <2>2. /\ mn \in Int /\ mx \in Int /\ \A i \in 1..100 : values[i] \in Int
        /\ mn <= values[k] /\ mn <= values[m] /\ values[k] <= mx /\ values[m] <= mx
    BY <2>1
  <2>3. DOMAIN values = 1..100
    OBVIOUS
  <2>4. mx # mn => \A i \in 1..100 : Normalize(values)[i] = a(i) \div d
    BY <2>3 DEF Normalize
  <2> HIDE DEF mn, mx
  <2>5. CASE source = "ais"
    <3>1. 0 <= values[k] /\ values[k] <= 5 /\ 100 <= values[m]
      BY <2>5 DEF AsDrawn, Quiet, Normal
    <3>2. \A i \in 1..100 : 0 <= values[i] /\ values[i] <= 200
      BY <2>2, <2>5 DEF AsDrawn, Quiet, Normal
    <3>3. 0 <= mn /\ mx <= 200
      BY <2>1, <3>2
    <3>4. d \in Nat /\ d > 0 /\ a(k) \in Int /\ a(m) \in Int /\ a(k) < d * 53 /\ d * 53 <= a(m)
      <4>1. d \in Nat /\ d > 0 /\ a(k) \in Int /\ a(m) \in Int
        BY <2>2, <3>1, <3>3
      <4>2. a(k) < d * 53
        BY <2>2, <3>1, <3>3
      <4>3. d * 53 <= a(m)
        BY <2>2, <3>1, <3>3
      <4> QED BY <4>1, <4>2, <4>3
    <3> HIDE DEF d, a
    <3>5. a(k) \div d < 53 /\ 53 <= a(m) \div d /\ a(k) \div d \in Int /\ a(m) \div d \in Int
      BY <3>4, Quotients
    <3>6. mx # mn
      BY <2>2, <3>4 DEF d
    <3> QED BY <1>2, <2>4, <2>5, <3>5, <3>6
  <2>6. CASE source = "adsb"
    <3>1. 0 <= values[k] /\ values[k] <= 1000 /\ 30000 <= values[m]
      BY <2>6 DEF AsDrawn, Quiet, Normal
    <3>2. \A i \in 1..100 : 0 <= values[i] /\ values[i] <= 40000
      BY <2>2, <2>6 DEF AsDrawn, Quiet, Normal
    <3>3. 0 <= mn /\ mx <= 40000
      BY <2>1, <3>2
    <3>4. d \in Nat /\ d > 0 /\ a(k) \in Int /\ a(m) \in Int /\ a(k) < d * 500 /\ d * 500 <= a(m)
      BY <2>2, <3>1, <3>3
    <3> HIDE DEF d, a
    <3>5. a(k) \div d < 500 /\ 500 <= a(m) \div d /\ a(k) \div d \in Int /\ a(m) \div d \in Int
      BY <3>4, Quotients
    <3>6. mx # mn
      BY <2>2, <3>4 DEF d
    <3> QED BY <1>2, <2>4, <2>6, <3>5, <3>6
  <2> QED BY <1>2, <2>5, <2>6 DEF Kinds
<1> QED BY <1>1, <1>2

-----------------------------------------------------------------------------
(***************************************************************************)
(* What is ingested is a feed that was given, or the simulator's.          *)
(***************************************************************************)
FeedInv ==
  /\ kind \in Kinds \cup {"other"} /\ feed \in Seq(Datum)
  /\ simulated \in BOOLEAN
  /\ simulated => kind \in Kinds /\ \E quiet, normal \in Ways : feed = Simulated(kind, quiet, normal)
  /\ ending = "signals" => kind \in Kinds /\ parsed = Parse(kind, feed)

LEMMA FeedInvariance == TelemetrySpec => []FeedInv
<1>1. TelemetryInit(Received) => FeedInv
  <2>1. Received \subseteq Seq(Datum)
    BY TelemetryAssumption DEF Datum
  <2> QED BY <2>1 DEF TelemetryInit, FeedInv
<1>2. FeedInv /\ [TelemetryNext]_telemetryVars => FeedInv'
  <2> SUFFICES ASSUME FeedInv, [TelemetryNext]_telemetryVars PROVE FeedInv'
    OBVIOUS
  <2>1. CASE Simulate
    <3>1. PICK quiet \in Ways, normal \in Ways : feed' = Simulated(kind, quiet, normal)
      BY <2>1 DEF Simulate, Ways
    <3>2. kind' = kind /\ kind \in Kinds /\ simulated' = TRUE /\ ending' = "open"
      BY <2>1 DEF Simulate
    <3>3. feed' \in Seq(Datum)
      BY <3>1, <3>2, SimulatedFeed
    <3> QED BY <3>1, <3>2, <3>3 DEF FeedInv
  <2>2. CASE Ingest
    <3>1. UNCHANGED <<kind, feed, simulated>>
      BY <2>2 DEF Ingest
    <3>2. ending' = "signals" => kind # "other" /\ parsed' = Parse(kind, feed)
      BY <2>2 DEF Ingest
    <3> QED BY <3>1, <3>2 DEF FeedInv
  <2>3. CASE UNCHANGED telemetryVars
    BY <2>3 DEF FeedInv, telemetryVars
  <2> QED BY <2>1, <2>2, <2>3 DEF TelemetryNext
<1> QED BY <1>1, <1>2, PTL DEF TelemetrySpec

ReadBy(source, records) ==
  [k \in 1..Cardinality(Usable(records)) |-> ReadingOf(source, records[TimeOrder(records)[k]])]

SignalOf(source, records, times, values) ==
  LET n == Cardinality(Usable(records))
      order == TimeOrder(records)
      read == ReadBy(source, records)
  IN  /\ n \in Nat
      /\ times = [k \in 1..n |-> records[order[k]].instant]
      /\ read \in [1..n -> Int]
      /\ values = IF source = "gps" THEN [k \in 1..n |-> Strength(read[k])] ELSE Normalize(read)
      /\ values \in [1..n -> 0..1000]
      /\ \A k, m \in 1..n : read[k] < read[m] => values[k] <= values[m]

LEMMA ParsedSignal ==
  ASSUME NEW source \in Kinds, NEW records \in Seq(Datum)
  PROVE  SignalOf(source, records, Parse(source, records).times, Parse(source, records).values)
<1> DEFINE n == Cardinality(Usable(records))
           order == TimeOrder(records)
           read == [k \in 1..n |-> ReadingOf(source, records[order[k]])]
           scaled == Parse(source, records)
<1>1. n \in Nat /\ order \in [1..n -> Usable(records)]
  BY TimeOrderSorts
<1>2. \A i \in Usable(records) : records[i] \in Datum
  BY ElementOfSeq, LenProperties DEF Usable
<1>3. \A i \in Usable(records) : ReadingOf(source, records[i]) \in Int
  BY <1>2 DEF Datum, ReadingOf, Missing, Kinds
<1>4. DOMAIN order = 1..n /\ \A k \in 1..n : order[k] \in Usable(records)
  BY <1>1
<1>5. read \in [1..n -> Int]
  BY <1>3, <1>4
<1> DEFINE values == scaled.values
<1>6. /\ scaled.times = [k \in 1..n |-> records[order[k]].instant]
      /\ values = IF source = "gps" THEN [k \in 1..n |-> Strength(read[k])] ELSE Normalize(read)
  <2>1. DOMAIN read = 1..n
    OBVIOUS
  <2> HIDE DEF n
  <2> QED BY <1>4, <2>1 DEF Parse
<1>7. read = ReadBy(source, records)
  BY DEF ReadBy
<1> HIDE DEF n, order, read, scaled, values
<1>8. values \in [1..n -> 0..1000] /\ \A k, m \in 1..n : read[k] < read[m] => values[k] <= values[m]
  <2>1. CASE source = "gps"
    <3>1. \A k \in 1..n : read[k] \in Int
      BY <1>5
    <3>2. \A k \in 1..n : Strength(read[k]) \in 0..1000
      BY <3>1, StrengthFollows
    <3>3. \A k, m \in 1..n : read[k] < read[m] => Strength(read[k]) <= Strength(read[m])
      BY <3>1, StrengthFollows
    <3>4. values = [k \in 1..n |-> Strength(read[k])]
      BY <1>6, <2>1
    <3> QED BY <3>2, <3>3, <3>4
  <2>2. CASE source # "gps"
    <3>1. values = Normalize(read)
      BY <1>6, <2>2
    <3>2. /\ Normalize(read) \in [1..n -> 0..1000]
          /\ \A k, m \in 1..n : read[k] < read[m] => Normalize(read)[k] <= Normalize(read)[m]
      BY <1>1, <1>5, Normalized
    <3> QED BY <3>1, <3>2
  <2> QED BY <2>1, <2>2
<1> QED BY <1>1, <1>5, <1>6, <1>7, <1>8 DEF SignalOf, n, order, scaled, values

\* However many records a feed has, in whatever order and however flawed: the signal
\* has a value for each usable one, in order of time, as high or low as its reading,
\* and a simulated silence is below half (satellite_ingestor.py).
THEOREM SignalIsTheFeeds == TelemetrySpec => []SignalFollowsFeed
<1>1. FeedInv => SignalFollowsFeed
  <2> SUFFICES ASSUME FeedInv, ending = "signals" PROVE SignalFollowsFeed
    BY DEF SignalFollowsFeed
  <2> DEFINE kept == Usable(feed)
             n == Cardinality(kept)
             order == TimeOrder(feed)
             read == ReadBy(kind, feed)
             values == parsed.values
  <2>1. kind \in Kinds /\ feed \in Seq(Datum) /\ parsed = Parse(kind, feed)
    BY DEF FeedInv
  <2>2. /\ n \in Nat /\ order \in [1..n -> kept]
        /\ \A i \in kept : \E k \in 1..n : order[k] = i
        /\ \A k, m \in 1..n : k < m => Precedes(feed, order[k], order[m])
    BY <2>1, TimeOrderSorts
  <2>3. /\ parsed.times = [k \in 1..n |-> feed[order[k]].instant]
        /\ read \in [1..n -> Int]
        /\ values = IF kind = "gps" THEN [k \in 1..n |-> Strength(read[k])] ELSE Normalize(read)
        /\ values \in [1..n -> 0..1000]
        /\ \A k, m \in 1..n : read[k] < read[m] => values[k] <= values[m]
    <3>1. SignalOf(kind, feed, parsed.times, parsed.values)
      BY <2>1, ParsedSignal
    <3> QED BY <3>1 DEF SignalOf
  <2>4. \A i \in kept : feed[i].instant \in Int /\ feed[i].text \in Int
    <3>1. \A i \in kept : feed[i] \in Datum
      BY <2>1, ElementOfSeq, LenProperties DEF Usable
    <3> QED BY <3>1 DEF Datum
  <2>5. \A k \in 1..n : /\ parsed.times[k] = feed[order[k]].instant /\ order[k] \in kept
                        /\ read[k] = ReadingOf(kind, feed[order[k]])
    BY <2>2, <2>3 DEF ReadBy
  <2> HIDE DEF kept, n, order, read, values
  <2>6. Len(values) = n /\ Len(parsed.times) = n
    <3>1. DOMAIN values = 1..n /\ DOMAIN parsed.times = 1..n
      BY <2>3
    <3> QED BY <2>2, <3>1
  <2>7. \A v \in Range(values) : v \in 0..1000
    <3>1. DOMAIN values = 1..n /\ \A k \in 1..n : values[k] \in 0..1000
      BY <2>3
    <3> TAKE v \in Range(values)
    <3>2. PICK k \in 1..n : v = values[k]
      BY <3>1 DEF Range
    <3> QED BY <3>1, <3>2
  <2>8. ASSUME \A i \in kept, j \in kept : feed[i].text <= feed[j].text => feed[i].instant <= feed[j].instant,
               NEW k \in 1..(n - 1)
        PROVE  parsed.times[k] <= parsed.times[k + 1]
    <3>1. k \in 1..n /\ k + 1 \in 1..n /\ k < k + 1
      BY <2>2
    <3>2. Precedes(feed, order[k], order[k + 1]) /\ order[k] \in kept /\ order[k + 1] \in kept
      BY <2>2, <2>5, <3>1
    <3>3. feed[order[k]].text <= feed[order[k + 1]].text
      BY <2>4, <3>2 DEF Precedes
    <3> QED BY <2>5, <2>8, <3>1, <3>2, <3>3
  <2>9. ASSUME NEW i \in kept, NEW j \in kept, ReadingOf(kind, feed[i]) < ReadingOf(kind, feed[j])
        PROVE  \E k \in 1..n, m \in 1..n : /\ parsed.times[k] = feed[i].instant
                                           /\ parsed.times[m] = feed[j].instant
                                           /\ values[k] <= values[m]
    <3>1. PICK k \in 1..n, m \in 1..n : order[k] = i /\ order[m] = j
      BY <2>2
    <3>2. read[k] < read[m]
      BY <2>5, <2>9, <3>1
    <3> QED BY <2>3, <2>5, <3>1, <3>2
  <2>10. ASSUME simulated, NEW k \in 1..n, NEW m \in 1..n, k - 1 \in Dark(kind), m - 1 \notin Dark(kind)
         PROVE  /\ values[k] < 500 /\ values[k] < values[m]
                /\ kind # "ais" => values[m] >= 500
    <3>1. PICK quiet \in Ways, normal \in Ways : feed = Simulated(kind, quiet, normal)
      BY <2>10 DEF FeedInv
    <3>2. /\ kept = 1..100 /\ order = [u \in 1..100 |-> u]
          /\ \A u \in 1..100 :
                 IF u - 1 \in Dark(kind)
                 THEN /\ Quiet(kind)[1] <= ReadingOf(kind, feed[u])
                      /\ ReadingOf(kind, feed[u]) <= Quiet(kind)[2]
                 ELSE /\ Normal(kind)[1] <= ReadingOf(kind, feed[u])
                      /\ ReadingOf(kind, feed[u]) <= Normal(kind)[2]
      BY <2>1, <3>1, SimulatedFeed DEF kept, order
    <3>3. n = 100
      BY <3>2, LengthCounts DEF n
    <3>4. \A u \in 1..100 : read[u] = ReadingOf(kind, feed[u])
      BY <2>5, <3>2, <3>3
    <3>5. AsDrawn(kind, read)
      BY <3>2, <3>4 DEF AsDrawn
    <3>6. k \in 1..100 /\ m \in 1..100
      BY <3>3
    <3>7. values = IF kind = "gps" THEN [u \in 1..100 |-> Strength(read[u])] ELSE Normalize(read)
      BY <2>3, <3>3
    <3>8. read \in [1..100 -> Int]
      BY <2>3, <3>3
    <3> DEFINE scaled == IF kind = "gps" THEN [u \in 1..100 |-> Strength(read[u])] ELSE Normalize(read)
    <3>9. scaled[k] < 500 /\ scaled[k] < scaled[m] /\ (kind # "ais" => scaled[m] >= 500)
      BY <2>1, <2>10, <3>5, <3>6, <3>8, SimulatedSignal
    <3>10. values = scaled
      BY <3>7
    <3> HIDE DEF scaled
    <3> QED BY <3>9, <3>10
  <2> QED BY <2>6, <2>7, <2>8, <2>9, <2>10 DEF SignalFollowsFeed, kept, n, values
<1> QED BY <1>1, FeedInvariance, PTL

-----------------------------------------------------------------------------
(***************************************************************************)
(* Bins: what each holds, told by the bin every packet is in.              *)
(***************************************************************************)
\* Numbers are listed in their order.
LEMMA StoredOrder ==
  ASSUME NEW S \in SUBSET Int, IsFiniteSet(S)
  PROVE  LET n == Cardinality(S)
             order == Ascending(S)
         IN  /\ n \in Nat /\ order \in [1..n -> S] /\ order \in Seq(S)
             /\ \A i \in S : \E k \in 1..n : order[k] = i
             /\ \A k, m \in 1..n : k < m => order[k] < order[m]
             /\ Range(order) = S /\ (order = <<>> <=> S = {})
<1> DEFINE n == Cardinality(S)
           R == {pair \in S \X S : pair[1] < pair[2]}
           order == Arranged(S, R)
<1>1. Ascending(S) = order
  BY DEF Ascending
<1>2. \A i, j \in S : <<i, j>> \in R <=> i < j
  OBVIOUS
<1> HIDE DEF R
<1>3. StrictOrder(R, S)
  BY <1>2 DEF StrictOrder
<1>4. /\ n \in Nat /\ order \in [1..n -> S]
      /\ \A i \in S : \E k \in 1..n : order[k] = i
      /\ \A k, m \in 1..n : k < m => <<order[k], order[m]>> \in R
  BY <1>3, ArrangedInOrder
<1>5. \A k, m \in 1..n : k < m => order[k] < order[m]
  BY <1>2, <1>4
<1> HIDE DEF order, n
<1>6. order \in Seq(S) /\ Len(order) = n /\ DOMAIN order = 1..n
  BY <1>4, SeqDef, LenProperties
<1>7. Range(order) = S
  BY <1>4, <1>6 DEF Range
<1>8. order = <<>> <=> S = {}
  <2>1. ASSUME order = <<>> PROVE S = {}
    BY <2>1, <1>7 DEF Range
  <2>2. ASSUME S = {} PROVE order = <<>>
    <3>1. n = 0
      BY <2>2, FS_EmptySet DEF n
    <3> QED BY <3>1, <1>6, EmptySeq
  <2> QED BY <2>1, <2>2
<1> QED BY <1>1, <1>4, <1>5, <1>6, <1>7, <1>8 DEF n

\* Packets are listed in the order of their times.
LEMMA PacketsInTime ==
  ASSUME capture \in Seq(Nat), NEW S \in SUBSET Packets
  PROVE  LET n == Cardinality(S)
             order == InTime(S)
         IN  /\ n \in Nat /\ order \in [1..n -> S] /\ order \in Seq(S) /\ Len(order) = n
             /\ \A i \in S : \E k \in 1..n : order[k] = i
             /\ \A k, m \in 1..n : k < m => Sooner(order[k], order[m])
             /\ Range(order) = S
<1> DEFINE n == Cardinality(S)
           R == {pair \in S \X S : Sooner(pair[1], pair[2])}
           order == Arranged(S, R)
<1>1. InTime(S) = order
  BY DEF InTime
<1>2. /\ S \in SUBSET Nat /\ IsFiniteSet(S)
      /\ \A i \in S : capture[i] \in Nat
  <2>1. Len(capture) \in Nat /\ Packets = 1..Len(capture) /\ \A i \in Packets : capture[i] \in Nat
    BY LenProperties, ElementOfSeq DEF Packets
  <2>2. IsFiniteSet(1..Len(capture))
    BY <2>1, LengthCounts
  <2>3. S \in SUBSET (1..Len(capture))
    BY <2>1
  <2>4. IsFiniteSet(S)
    BY <2>2, <2>3, FS_Subset
  <2> QED BY <2>1, <2>3, <2>4
<1>3. \A i, j \in S : <<i, j>> \in R <=> Sooner(i, j)
  OBVIOUS
<1> HIDE DEF R
<1>4. /\ \A i, j \in S : i # j => Sooner(i, j) \/ Sooner(j, i)
      /\ \A i, j \in S : Sooner(i, j) => ~ Sooner(j, i) /\ i # j
      /\ \A i, j, k \in S : Sooner(i, j) /\ Sooner(j, k) => Sooner(i, k)
  BY <1>2 DEF Sooner
<1>5. StrictOrder(R, S)
  BY <1>3, <1>4 DEF StrictOrder
<1>6. /\ n \in Nat /\ order \in [1..n -> S]
      /\ \A i \in S : \E k \in 1..n : order[k] = i
      /\ \A k, m \in 1..n : k < m => <<order[k], order[m]>> \in R
  <2>1. IsFiniteSet(S)
    BY <1>2
  <2> QED BY <1>5, <2>1, ArrangedInOrder
<1>7. \A k, m \in 1..n : k < m => Sooner(order[k], order[m])
  BY <1>3, <1>6
<1> HIDE DEF order, n
<1>8. order \in Seq(S) /\ Len(order) = n /\ DOMAIN order = 1..n
  BY <1>6, SeqDef, LenProperties
<1>9. Range(order) = S
  BY <1>6, <1>8 DEF Range
<1> QED BY <1>1, <1>6, <1>7, <1>8, <1>9 DEF n

\* The pieces are n bins, the packets of bin i being those at i, which no later
\* packet is before.
Binned(at, n) ==
  /\ DOMAIN pieces = 1..n /\ at \in [Packets -> Int]
  /\ \A i \in 1..n : Range(pieces[i]) = {p \in Packets : at[p] = i}
  /\ \A p, q \in Packets : capture[p] <= capture[q] => at[p] <= at[q]

LEMMA InBins ==
  ASSUME capture \in Seq(Nat), NEW n \in Nat, NEW at, Binned(at, n)
  PROVE  /\ \A p \in Packets : Cardinality(PieceOf(p)) <= 1
         /\ \A p \in Covered, q \in Covered :
                capture[p] < capture[q] => Max(PieceOf(p)) <= Max(PieceOf(q))
         /\ Covered = {p \in Packets : at[p] \in 1..n}
<1>1. \A p \in Packets : at[p] \in Int /\ capture[p] \in Nat
  BY ElementOfSeq, LenProperties DEF Binned, Packets
<1>2. Covered = {p \in Packets : at[p] \in 1..n}
  BY <1>1 DEF Covered, Binned
<1>3. \A p \in Packets : PieceOf(p) = IF at[p] \in 1..n THEN {at[p]} ELSE {}
  BY <1>1 DEF PieceOf, Binned
<1>4. ASSUME NEW p \in Packets PROVE Cardinality(PieceOf(p)) <= 1
  <2>1. \A x : Cardinality({x}) = 1
    BY FS_Singleton
  <2>2. Cardinality({}) = 0
    BY FS_EmptySet
  <2>3. CASE at[p] \in 1..n
    <3>1. Cardinality(PieceOf(p)) = 1
      BY <1>3, <2>1, <2>3
    <3> QED BY <3>1
  <2>4. CASE at[p] \notin 1..n
    <3>1. Cardinality(PieceOf(p)) = 0
      BY <1>3, <2>2, <2>4
    <3> QED BY <3>1
  <2> QED BY <2>3, <2>4
<1>5. ASSUME NEW p \in Covered, NEW q \in Covered, capture[p] < capture[q]
      PROVE  Max(PieceOf(p)) <= Max(PieceOf(q))
  <2>1. /\ p \in Packets /\ q \in Packets
        /\ PieceOf(p) = {at[p]} /\ PieceOf(q) = {at[q]}
    BY <1>2, <1>3
  <2>2. at[p] <= at[q] /\ at[p] \in Int /\ at[q] \in Int
    BY <1>1, <1>5, <2>1 DEF Binned
  <2>3. \A x \in Int : Max({x}) = x
    <3> TAKE x \in Int
    <3>1. {x} = {x, x}
      OBVIOUS
    <3> QED BY <3>1, LargerOf
  <2> QED BY <2>1, <2>2, <2>3
<1> QED BY <1>2, <1>4, <1>5

\* The slot of a number, when slots of equal length follow each other from zero.
LEMMA SlotOf ==
  ASSUME NEW d \in Nat, d > 0, NEW x \in Int, NEW i \in Int
  PROVE  /\ x \div d \in Int /\ (i - 1) * d \in Int
         /\ (i - 1) * d <= x /\ x < (i - 1) * d + d <=> i = x \div d + 1
         /\ x >= 0 => x \div d >= 0
<1> DEFINE q == x \div d
<1>1. q \in Int /\ d * q <= x /\ x < d * (q + 1)
  BY Z3
<1>2. /\ (i - 1) * d = d * (i - 1) /\ (i - 1) * d + d = d * i /\ d * i \in Int /\ d * (i - 1) \in Int
      /\ d * q \in Int /\ d * (q + 1) \in Int /\ d * 0 = 0
  BY <1>1
<1> HIDE DEF q
<1>3. i <= q => d * i <= d * q
  BY <1>1, TimesLarger
<1>4. q + 1 <= i - 1 => d * (q + 1) <= d * (i - 1)
  BY <1>1, TimesLarger
<1>5. i = q + 1 => d * (i - 1) = d * q /\ d * i = d * (q + 1)
  BY <1>1
<1>6. (i - 1) * d <= x /\ x < (i - 1) * d + d <=> i = q + 1
  <2>1. CASE i <= q
    BY <1>1, <1>2, <1>3, <2>1
  <2>2. CASE i >= q + 2
    <3>1. d * (q + 1) <= d * (i - 1)
      BY <1>1, <1>4, <2>2
    <3> QED BY <1>1, <1>2, <2>2, <3>1
  <2>3. CASE i = q + 1
    BY <1>1, <1>2, <1>5, <2>3
  <2> QED BY <1>1, <2>1, <2>2, <2>3
<1>7. x >= 0 => q >= 0
  <2>1. q + 1 <= 0 => d * (q + 1) <= d * 0
    BY <1>1, TimesLarger
  <2> QED BY <1>1, <1>2, <2>1
<1> QED BY <1>1, <1>2, <1>6, <1>7 DEF q

\* The first and the last time of a capture.
LEMMA TimesOfCapture ==
  ASSUME capture \in Seq(Nat), capture # <<>>
  PROVE  LET mn == Min(Range(capture))
             mx == Max(Range(capture))
         IN  /\ mn \in Nat /\ mx \in Nat /\ mn <= mx
             /\ \E p \in Packets : capture[p] = mn
             /\ \E p \in Packets : capture[p] = mx
             /\ \A p \in Packets : capture[p] \in Nat /\ mn <= capture[p] /\ capture[p] <= mx
<1> DEFINE n == Len(capture)
<1>1. n \in Nat \ {0} /\ Packets = 1..n /\ capture \in [1..n -> Nat]
  BY LenProperties, EmptySeq DEF Packets
<1>2. capture \in [1..n -> Int] /\ \A p \in Packets : capture[p] \in Nat
  BY <1>1
<1> HIDE DEF n
<1>3. LET mn == Min(Range(capture))
          mx == Max(Range(capture))
      IN  /\ \E k \in 1..n : capture[k] = mn
          /\ \E k \in 1..n : capture[k] = mx
          /\ \A k \in 1..n : mn <= capture[k] /\ capture[k] <= mx
  BY <1>1, <1>2, Extremes
<1> QED BY <1>1, <1>2, <1>3

LEMMA Halves ==
  ASSUME NEW c \in Nat, NEW x \in Int
  PROVE  /\ 2 * x <= c <=> x <= Second(c)
         /\ c < 2 * x <=> Second(c) < x
         /\ Second(c) \in Nat
BY DEF Second

LEMMA SecondsFollow ==
  ASSUME NEW a \in Nat, NEW b \in Nat, a <= b
  PROVE  Second(a) <= Second(b)
BY DEF Second

\* What a bin of a stretch of time holds.
LEMMA WithinHolds ==
  ASSUME capture \in Seq(Nat), NEW from \in Int, NEW length \in Int
  PROVE  LET inside == {p \in Packets : from <= Second(capture[p]) /\ Second(capture[p]) < from + length}
         IN  /\ Range(Within(from, length)) = inside
             /\ Within(from, length) = <<>> <=> inside = {}
<1> DEFINE inside == {p \in Packets : from <= Second(capture[p]) /\ Second(capture[p]) < from + length}
<1>1. /\ Len(capture) \in Nat /\ Packets = 1..Len(capture) /\ \A p \in Packets : capture[p] \in Nat
  BY LenProperties, ElementOfSeq DEF Packets
<1>2. \A p \in Packets : /\ 2 * from <= capture[p] <=> from <= Second(capture[p])
                         /\ capture[p] < 2 * (from + length) <=> Second(capture[p]) < from + length
  <2> TAKE p \in Packets
  <2>1. capture[p] \in Nat /\ from + length \in Int
    BY <1>1
  <2> QED BY <2>1, Halves
<1>3. {p \in Packets : 2 * from <= capture[p] /\ capture[p] < 2 * (from + length)} = inside
  BY <1>2
<1>4. inside \in SUBSET Int /\ IsFiniteSet(inside)
  <2>1. inside \in SUBSET (1..Len(capture))
    BY <1>1
  <2>2. IsFiniteSet(1..Len(capture))
    BY <1>1, LengthCounts
  <2>3. inside \in SUBSET Int
    BY <1>1
  <2> HIDE DEF inside
  <2>4. IsFiniteSet(inside)
    BY <2>1, <2>2, FS_Subset
  <2> QED BY <2>3, <2>4
<1>5. Within(from, length) = Ascending(inside)
  BY <1>3 DEF Within
<1> HIDE DEF inside
<1>6. Range(Ascending(inside)) = inside /\ (Ascending(inside) = <<>> <=> inside = {})
  BY <1>4, StoredOrder
<1> QED BY <1>5, <1>6 DEF inside

\* The API's bins: every packet is in one, and there are enough of them.
LEMMA ApiBinned ==
  ASSUME capture \in Seq(Nat), capture # <<>>, pieces = Padded(ApiBins)
  PROVE  \E n \in Nat : \E at : Binned(at, n) /\ Len(pieces) >= MinPoints /\ \A p \in Packets : at[p] \in 1..n
<1> DEFINE start == Second(Min(Range(capture)))
           end == Second(Max(Range(capture)))
           step == Interval(end - start)
           count == (end - start) \div step + 1
           n == IF count >= MinPoints THEN count ELSE MinPoints
           slot(p) == (Second(capture[p]) - start) \div step + 1
           at == [p \in Packets |-> slot(p)]
<1>1. /\ start \in Nat /\ end \in Nat /\ start <= end
      /\ \A p \in Packets : /\ capture[p] \in Nat /\ Second(capture[p]) \in Nat
                            /\ start <= Second(capture[p]) /\ Second(capture[p]) <= end
  <2> DEFINE mn == Min(Range(capture))
             mx == Max(Range(capture))
  <2>1. /\ mn \in Nat /\ mx \in Nat /\ mn <= mx
        /\ \A p \in Packets : capture[p] \in Nat /\ mn <= capture[p] /\ capture[p] <= mx
    BY TimesOfCapture
  <2> HIDE DEF mn, mx
  <2>2. Second(mn) \in Nat /\ Second(mx) \in Nat /\ Second(mn) <= Second(mx)
    BY <2>1, Halves, SecondsFollow
  <2>3. \A p \in Packets : /\ Second(capture[p]) \in Nat
                           /\ Second(mn) <= Second(capture[p]) /\ Second(capture[p]) <= Second(mx)
    BY <2>1, Halves, SecondsFollow
  <2> QED BY <2>1, <2>2, <2>3 DEF mn, mx
<1>2. step \in Nat /\ step > 0
  BY DEF Interval
<1>3. MinPoints \in Nat
  BY CaptureAssumption
<1>4. /\ count \in Nat /\ count >= 1
  <2> DEFINE x == end - start
  <2>1. x \in Int /\ x >= 0
    BY <1>1
  <2> HIDE DEF x, step, start, end
  <2>2. x \div step \in Int /\ x \div step >= 0
    BY <1>2, <2>1, SlotOf
  <2> QED BY <2>2 DEF x
<1> DEFINE Held == {ApiBins[i] : i \in 1..count} \cup {<<>>}
<1>5. DOMAIN ApiBins = 1..count /\ ApiBins \in Seq(Held) /\ Len(ApiBins) = count
      /\ \A i \in 1..count : ApiBins[i] = Within(start + (i - 1) * step, step)
  <2>1. ApiBins = [i \in 1..count |-> Within(start + (i - 1) * step, step)]
    BY DEF ApiBins
  <2> HIDE DEF count, step, start, end
  <2>2. ApiBins \in [1..count -> Held]
    BY <2>1
  <2> HIDE DEF Held
  <2>3. ApiBins \in Seq(Held)
    BY <1>4, <2>2, SeqDef
  <2> QED BY <1>4, <2>1, <2>2, <2>3, LenProperties
<1> HIDE DEF start, end, step, count, Held
<1>16. <<>> \in Held
  BY DEF Held
<1>6. /\ DOMAIN pieces = 1..n /\ \A i \in 1..n : pieces[i] = IF i <= count THEN ApiBins[i] ELSE <<>>
      /\ Len(pieces) = n
  <2> DEFINE fill == [i \in 1..(MinPoints - count) |-> <<>>]
  <2>1. pieces = ApiBins \o fill
    BY <1>5 DEF Padded
  <2>2. fill \in Seq(Held) /\ Len(fill) = n - count /\ \A i \in 1..(n - count) : fill[i] = <<>>
    <3>1. CASE count >= MinPoints
      <4>2. n - count = 0
        BY <1>3, <1>4, <3>1
      <4>3. 1..(MinPoints - count) = {}
        BY <1>3, <1>4, <3>1
      <4>4. fill = <<>>
        BY <4>3
      <4> HIDE DEF fill, n
      <4> QED BY <4>2, <4>4, EmptySeq
    <3>2. CASE ~ (count >= MinPoints)
      <4>1. MinPoints - count \in Nat /\ n - count = MinPoints - count
        BY <1>3, <1>4, <3>2
      <4>2. fill \in [1..(n - count) -> Held]
        BY <1>16, <4>1
      <4> QED BY <4>1, <4>2, SeqDef, LenProperties
    <3> QED BY <3>1, <3>2
  <2>4. n \in Nat /\ n >= count
    BY <1>3, <1>4
  <2> HIDE DEF fill, n
  <2>3. Len(ApiBins) + (n - count) = n
    BY <1>4, <1>5, <2>4
  <2>5. /\ pieces \in Seq(Held) /\ Len(pieces) = n
        /\ \A i \in 1..n : pieces[i] = IF i <= Len(ApiBins) THEN ApiBins[i] ELSE fill[i - Len(ApiBins)]
    <3>1. ApiBins \in Seq(Held) /\ fill \in Seq(Held)
      BY <1>5, <2>2
    <3>2. Len(ApiBins) = count /\ Len(fill) = n - count
      BY <1>5, <2>2
    <3>3. /\ ApiBins \o fill \in Seq(Held) /\ Len(ApiBins \o fill) = Len(ApiBins) + Len(fill)
          /\ \A i \in 1..(Len(ApiBins) + Len(fill)) :
                (ApiBins \o fill)[i] = IF i <= Len(ApiBins) THEN ApiBins[i] ELSE fill[i - Len(ApiBins)]
      BY <3>1, ConcatProperties
    <3> QED BY <2>1, <2>3, <3>2, <3>3
  <2>6. \A i \in 1..n : ~ (i <= count) => i - count \in 1..(n - count)
    BY <1>4, <2>4
  <2>7. DOMAIN pieces = 1..n
    BY <2>5, LenProperties
  <2> QED BY <1>5, <2>2, <2>5, <2>6, <2>7
<1>7. \A p \in Packets : slot(p) \in 1..count
  <2> TAKE p \in Packets
  <2> DEFINE x == Second(capture[p]) - start
             y == end - start
  <2>1. x \in Nat /\ y \in Nat /\ x <= y
    BY <1>1
  <2> HIDE DEF x, y
  <2>2. x \div step \in Int /\ x \div step >= 0 /\ x \div step <= y \div step /\ y \div step \in Int
    BY <1>2, <2>1, SlotOf, QuotientsFollow
  <2> QED BY <2>2 DEF x, y, count
<1>8. \A i \in 1..count : Range(ApiBins[i]) = {p \in Packets : slot(p) = i}
  <2> TAKE i \in 1..count
  <2> DEFINE from == start + (i - 1) * step
  <2>1. i \in Int /\ (i - 1) * step \in Int /\ from \in Int
    BY <1>1, <1>2, <1>4
  <2>2. Range(ApiBins[i]) = {p \in Packets : from <= Second(capture[p]) /\ Second(capture[p]) < from + step}
    <3> HIDE DEF from
    <3>1. Range(Within(from, step)) = {p \in Packets : from <= Second(capture[p]) /\ Second(capture[p]) < from + step}
      BY <1>2, <2>1, WithinHolds
    <3> QED BY <1>5, <3>1 DEF from
  <2>3. ASSUME NEW p \in Packets
        PROVE  from <= Second(capture[p]) /\ Second(capture[p]) < from + step <=> slot(p) = i
    <3> DEFINE x == Second(capture[p]) - start
    <3>1. x \in Int /\ Second(capture[p]) = x + start
      BY <1>1
    <3> HIDE DEF x
    <3>2. (i - 1) * step <= x /\ x < (i - 1) * step + step <=> i = x \div step + 1
      BY <1>2, <2>1, <3>1, SlotOf
    <3>3. /\ from <= Second(capture[p]) <=> (i - 1) * step <= x
          /\ Second(capture[p]) < from + step <=> x < (i - 1) * step + step
      BY <1>1, <1>2, <2>1, <3>1
    <3> QED BY <3>2, <3>3 DEF x
  <2> HIDE DEF from, slot
  <2> QED BY <2>2, <2>3
<1>9. \A p, q \in Packets : capture[p] <= capture[q] => slot(p) <= slot(q)
  <2> SUFFICES ASSUME NEW p \in Packets, NEW q \in Packets, capture[p] <= capture[q] PROVE slot(p) <= slot(q)
    OBVIOUS
  <2> DEFINE x == Second(capture[p]) - start
             y == Second(capture[q]) - start
  <2>1. x \in Int /\ y \in Int /\ x <= y
    BY <1>1, SecondsFollow
  <2> HIDE DEF x, y
  <2>2. x \div step \in Int /\ y \div step \in Int /\ x \div step <= y \div step
    BY <1>2, <2>1, SlotOf, QuotientsFollow
  <2> QED BY <2>2 DEF x, y
<1>10. n \in Nat /\ n >= MinPoints /\ n >= count
  BY <1>3, <1>4
<1> HIDE DEF slot, n
<1>11. \A p \in Packets : at[p] = slot(p) /\ slot(p) \in Int /\ slot(p) \in 1..n /\ slot(p) <= count
  BY <1>4, <1>7, <1>10
<1>12. \A i \in 1..n : Range(pieces[i]) = {p \in Packets : at[p] = i}
  <2> TAKE i \in 1..n
  <2>1. CASE i <= count
    <3>1. i \in 1..count
      BY <1>4, <1>10, <2>1
    <3>2. pieces[i] = ApiBins[i]
      BY <1>6, <2>1
    <3> QED BY <1>8, <1>11, <3>1, <3>2
  <2>2. CASE ~ (i <= count)
    <3>1. \A p \in Packets : at[p] # i
      BY <1>11, <2>2
    <3>2. pieces[i] = <<>>
      BY <1>6, <2>2
    <3>3. Range(pieces[i]) = {}
      BY <3>2 DEF Range
    <3> QED BY <3>1, <3>3
  <2> QED BY <2>1, <2>2
<1>13. at \in [Packets -> Int]
  BY <1>11
<1>14. Binned(at, n)
  <2>1. \A p, q \in Packets : capture[p] <= capture[q] => at[p] <= at[q]
    BY <1>9, <1>11
  <2> HIDE DEF at
  <2> QED BY <1>6, <1>12, <1>13, <2>1 DEF Binned
<1>15. \A p \in Packets : at[p] \in 1..n
  BY <1>11
<1> HIDE DEF at
<1> QED BY <1>6, <1>10, <1>14, <1>15

\* What a selection of packets, listed as stored or in the order of time, holds.
LEMMA SelectionHolds ==
  ASSUME capture \in Seq(Nat), NEW S \in SUBSET Packets
  PROVE  Range(Ascending(S)) = S /\ Range(InTime(S)) = S
<1>1. /\ Len(capture) \in Nat /\ Packets = 1..Len(capture)
  BY LenProperties DEF Packets
<1>2. S \in SUBSET Int
  BY <1>1
<1>3. IsFiniteSet(S)
  <2>1. IsFiniteSet(1..Len(capture)) /\ S \in SUBSET (1..Len(capture))
    BY <1>1, LengthCounts
  <2> QED BY <2>1, FS_Subset
<1>4. Range(Ascending(S)) = S
  BY <1>2, <1>3, StoredOrder
<1> QED BY <1>4, PacketsInTime

\* Live bins: what is in none was stamped a bin or more before the first packet.
LEMMA LiveBinned ==
  ASSUME capture \in Seq(Nat), capture # <<>>, pieces = LiveBins
  PROVE  \E n \in Nat : \E at :
           Binned(at, n) /\ \A p \in Packets : at[p] \in 1..n \/ capture[1] - capture[p] >= 2 * BinSec
<1> DEFINE bin == [p \in Packets |-> BinOf(p)]
           at == [p \in Packets |-> BinOf(p) + 1]
           mx == Max({BinOf(p) : p \in Packets})
           n == mx + 1
<1>1. /\ Len(capture) \in Nat \ {0} /\ Packets = 1..Len(capture) /\ 1 \in Packets
      /\ \A p \in Packets : capture[p] \in Nat
  BY LenProperties, EmptySeq DEF Packets
<1>2. 2 * BinSec \in Nat /\ 2 * BinSec > 0 /\ 2 * BinSec * 1 = 2 * BinSec /\ 2 * BinSec * 0 = 0
  BY CaptureAssumption
<1>3. ASSUME NEW p \in Packets
      PROVE  /\ BinOf(p) \in Int
             /\ BinOf(p) < 0 => capture[1] - capture[p] >= 2 * BinSec
  <2> DEFINE d == capture[p] - capture[1]
             b == 2 * BinSec
  <2>1. d \in Int /\ - d \in Int /\ b \in Nat /\ b > 0 /\ b * 1 = b
    BY <1>1, <1>2
  <2>2. BinOf(p) = IF d < 0 THEN - ((- d) \div b) ELSE d \div b
    BY DEF BinOf
  <2>3. - d = capture[1] - capture[p]
    BY <1>1
  <2> HIDE DEF d, b
  <2>4. d \div b \in Int /\ (d >= 0 => d \div b >= 0)
    BY <2>1, SlotOf
  <2> DEFINE m == - d
  <2>5. m \in Int
    BY <2>1
  <2> HIDE DEF m
  <2>6. m \div b \in Int /\ (m < b * 1 => m \div b < 1)
    BY <2>1, <2>5, Quotients
  <2>7. BinOf(p) = IF d < 0 THEN - (m \div b) ELSE d \div b
    BY <2>2 DEF m
  <2> DEFINE q == m \div b
             r == d \div b
  <2>8. /\ q \in Int /\ r \in Int /\ (d >= 0 => r >= 0) /\ (m < b => q < 1)
        /\ BinOf(p) = IF d < 0 THEN - q ELSE r
    BY <2>1, <2>4, <2>6, <2>7
  <2> HIDE DEF q, r
  <2>9. BinOf(p) \in Int
    BY <2>8
  <2>10. BinOf(p) < 0 => m >= b
    BY <2>1, <2>5, <2>8
  <2> QED BY <2>3, <2>9, <2>10 DEF m, b
<1>4. ASSUME NEW p \in Packets, NEW q \in Packets, capture[p] <= capture[q]
      PROVE  BinOf(p) <= BinOf(q)
  <2> DEFINE d == capture[p] - capture[1]
             e == capture[q] - capture[1]
             b == 2 * BinSec
  <2>1. d \in Int /\ e \in Int /\ d <= e /\ b \in Nat /\ b > 0
    BY <1>1, <1>2, <1>4
  <2>2. /\ BinOf(p) = IF d < 0 THEN - ((- d) \div b) ELSE d \div b
        /\ BinOf(q) = IF e < 0 THEN - ((- e) \div b) ELSE e \div b
    BY DEF BinOf
  <2> HIDE DEF d, e, b
  <2> DEFINE f == - d
             g == - e
  <2>3. f \in Int /\ g \in Int /\ g <= f
    BY <2>1
  <2> HIDE DEF f, g
  <2>4. /\ d \div b \in Int /\ (d >= 0 => d \div b >= 0) /\ e \div b \in Int /\ (e >= 0 => e \div b >= 0)
        /\ d \div b <= e \div b
    BY <2>1, SlotOf, QuotientsFollow
  <2>5. /\ f \div b \in Int /\ (f >= 0 => f \div b >= 0) /\ g \div b \in Int
        /\ g \div b <= f \div b
    BY <2>1, <2>3, SlotOf, QuotientsFollow
  <2>6. CASE d < 0 /\ e < 0
    BY <2>2, <2>5, <2>6 DEF f, g
  <2>7. CASE d < 0 /\ ~ (e < 0)
    <3>1. f >= 0
      BY <2>1, <2>7 DEF f
    <3> QED BY <2>1, <2>2, <2>4, <2>5, <2>7, <3>1 DEF f
  <2>8. CASE ~ (d < 0)
    BY <2>1, <2>2, <2>4, <2>8
  <2> QED BY <2>6, <2>7, <2>8
<1>5. mx \in Int /\ \A p \in Packets : BinOf(p) <= mx
  <2>1. bin \in [1..Len(capture) -> Int] /\ \A p \in Packets : bin[p] = BinOf(p)
    BY <1>1, <1>3
  <2>2. {BinOf(p) : p \in Packets} = Range(bin)
    BY DEF Range
  <2> HIDE DEF bin
  <2>3. LET m == Max(Range(bin))
        IN  (\E k \in 1..Len(capture) : bin[k] = m) /\ \A k \in 1..Len(capture) : bin[k] <= m
    BY <1>1, <2>1, Extremes
  <2> QED BY <1>1, <1>3, <2>1, <2>2, <2>3
<1>6. BinOf(1) = 0
  <2>1. capture[1] - capture[1] = 0
    BY <1>1
  <2>2. BinOf(1) = 0 \div (2 * BinSec)
    BY <2>1 DEF BinOf
  <2> DEFINE b == 2 * BinSec
  <2>3. b \in Nat /\ b > 0 /\ b * 1 = b
    BY <1>2
  <2> HIDE DEF b
  <2>4. 0 \div b \in Int /\ 0 \div b >= 0 /\ 0 \div b < 1
    BY <2>3, SlotOf, Quotients
  <2> QED BY <2>2, <2>4 DEF b
<1>7. n \in Nat
  BY <1>1, <1>5, <1>6
<1>8. DOMAIN pieces = 1..n /\ \A i \in 1..n : pieces[i] = Ascending({p \in Packets : BinOf(p) = i - 1})
  BY DEF LiveBins
<1> HIDE DEF mx, n
<1>9. \A p \in Packets : at[p] = BinOf(p) + 1 /\ at[p] \in Int
  BY <1>3
<1>10. at \in [Packets -> Int]
  BY <1>3
<1> HIDE DEF at
<1>11. ASSUME NEW i \in 1..n PROVE Range(pieces[i]) = {p \in Packets : at[p] = i}
  <2>1. {p \in Packets : BinOf(p) = i - 1} = {p \in Packets : at[p] = i}
    BY <1>3, <1>9
  <2> DEFINE S == {p \in Packets : at[p] = i}
  <2>2. S \in SUBSET Packets
    OBVIOUS
  <2>3. pieces[i] = Ascending(S)
    BY <1>8, <2>1
  <2> HIDE DEF S
  <2>4. Range(Ascending(S)) = S
    BY <2>2, SelectionHolds
  <2> QED BY <2>3, <2>4 DEF S
<1>12. \A p, q \in Packets : capture[p] <= capture[q] => at[p] <= at[q]
  BY <1>3, <1>4, <1>9
<1>13. Binned(at, n)
  BY <1>8, <1>10, <1>11, <1>12 DEF Binned
<1>14. \A p \in Packets : at[p] \in 1..n \/ capture[1] - capture[p] >= 2 * BinSec
  <2> TAKE p \in Packets
  <2>1. BinOf(p) \in Int /\ mx \in Int /\ BinOf(p) <= mx /\ n = mx + 1
    BY <1>3, <1>5 DEF n
  <2>2. BinOf(p) >= 0 => at[p] \in 1..n
    BY <1>9, <2>1
  <2> QED BY <1>3, <2>1, <2>2
<1> QED BY <1>7, <1>13, <1>14

\* The series of activity: every packet is in one of its intervals.
LEMMA ActivityBinned ==
  ASSUME capture \in Seq(Nat), capture # <<>>, pieces = Activity
  PROVE  \E n \in Nat : \E at : Binned(at, n) /\ \A p \in Packets : at[p] \in 1..n
<1> DEFINE start == Min(Range(capture))
           end == Max(Range(capture))
           b == 2 * BinSec
           n == (end - start) \div b + 1
           slot(p) == (capture[p] - start) \div b + 1
           Index(p) == Min({n, slot(p)})
           at == [p \in Packets |-> slot(p)]
<1>1. /\ start \in Nat /\ end \in Nat /\ start <= end
      /\ \A p \in Packets : capture[p] \in Nat /\ start <= capture[p] /\ capture[p] <= end
  BY TimesOfCapture
<1>2. b \in Nat /\ b > 0
  BY CaptureAssumption
<1>3. pieces = [i \in 1..n |-> InTime({p \in Packets : Index(p) = i})]
  BY DEF Activity
<1> HIDE DEF start, end, b
<1>4. ASSUME NEW p \in Packets PROVE slot(p) \in 1..n /\ n \in Nat
  <2> DEFINE x == capture[p] - start
             y == end - start
  <2>1. x \in Int /\ y \in Int /\ 0 <= x /\ x <= y
    BY <1>1
  <2> HIDE DEF x, y
  <2>2. x \div b \in Int /\ y \div b \in Int /\ 0 <= x \div b /\ x \div b <= y \div b
    BY <1>2, <2>1, SlotOf, QuotientsFollow
  <2>3. slot(p) = x \div b + 1 /\ n = y \div b + 1
    BY DEF x, y
  <2> HIDE DEF slot, n
  <2> QED BY <2>2, <2>3
<1>5. ASSUME NEW p \in Packets, NEW q \in Packets, capture[p] <= capture[q]
      PROVE  slot(p) <= slot(q)
  <2> DEFINE x == capture[p] - start
             y == capture[q] - start
  <2>1. x \in Int /\ y \in Int /\ x <= y
    BY <1>1, <1>5
  <2> HIDE DEF x, y
  <2>2. x \div b \in Int /\ y \div b \in Int /\ x \div b <= y \div b
    BY <1>2, <2>1, SlotOf, QuotientsFollow
  <2> QED BY <2>2 DEF x, y
<1> HIDE DEF slot, n
<1>6. n \in Nat
  <2>1. 1 \in Packets
    BY LenProperties, EmptySeq DEF Packets
  <2> QED BY <1>4, <2>1
<1>7. \A p \in Packets : Index(p) = slot(p) /\ slot(p) \in Int
  <2> TAKE p \in Packets
  <2> DEFINE k == slot(p)
  <2>1. k \in Int /\ n \in Int /\ k <= n
    BY <1>4
  <2> HIDE DEF k
  <2>2. Min({n, k}) = k
    <3>1. Min({n, k}) = IF n <= k THEN n ELSE k
      BY <2>1, LargerOf
    <3> QED BY <2>1, <3>1
  <2> QED BY <2>1, <2>2 DEF k
<1> HIDE DEF Index
<1>8. \A p \in Packets : at[p] = slot(p) /\ at[p] \in Int
  BY <1>7
<1>9. at \in [Packets -> Int]
  BY <1>7
<1> HIDE DEF at
<1>10. ASSUME NEW i \in 1..n PROVE Range(pieces[i]) = {p \in Packets : at[p] = i}
  <2>1. {p \in Packets : Index(p) = i} = {p \in Packets : at[p] = i}
    BY <1>7, <1>8
  <2> DEFINE S == {p \in Packets : at[p] = i}
  <2>2. S \in SUBSET Packets
    OBVIOUS
  <2>3. pieces[i] = InTime(S)
    BY <1>3, <2>1
  <2> HIDE DEF S
  <2>4. Range(InTime(S)) = S
    BY <2>2, SelectionHolds
  <2> QED BY <2>3, <2>4 DEF S
<1>11. Binned(at, n)
  <2>1. DOMAIN pieces = 1..n
    BY <1>3
  <2>2. \A p, q \in Packets : capture[p] <= capture[q] => at[p] <= at[q]
    BY <1>5, <1>8
  <2> QED BY <1>9, <1>10, <2>1, <2>2 DEF Binned
<1> QED BY <1>4, <1>6, <1>8, <1>11

\* Windows of a session file: what is in none lies in the last second.
LEMMA WindowsBinned ==
  ASSUME capture \in Seq(Nat), capture # <<>>, pieces = SessionWindows
  PROVE  \E n \in Nat : \E at :
           Binned(at, n) /\ \A p \in Packets : \/ at[p] \in 1..n
                                               \/ Second(capture[p]) = Second(Max(Range(capture)))
<1> DEFINE start == Second(Min(Range(capture)))
           end == Second(Max(Range(capture)))
           count == WindowCount(start, end)
           slot(p) == (Second(capture[p]) - start) \div WindowSec + 1
           window == [i \in 1..count |-> Within(start + (i - 1) * WindowSec, WindowSec)]
           B == {i \in DOMAIN window : window[i] # <<>>}
           busy == Ascending(B)
           n == Cardinality(B)
<1>1. /\ start \in Nat /\ end \in Nat /\ start <= end
      /\ \A p \in Packets : /\ capture[p] \in Nat /\ Second(capture[p]) \in Nat
                            /\ start <= Second(capture[p]) /\ Second(capture[p]) <= end
  <2> DEFINE mn == Min(Range(capture))
             mx == Max(Range(capture))
  <2>1. /\ mn \in Nat /\ mx \in Nat /\ mn <= mx
        /\ \A p \in Packets : capture[p] \in Nat /\ mn <= capture[p] /\ capture[p] <= mx
    BY TimesOfCapture
  <2> HIDE DEF mn, mx
  <2>2. Second(mn) \in Nat /\ Second(mx) \in Nat /\ Second(mn) <= Second(mx)
    BY <2>1, Halves, SecondsFollow
  <2>3. \A p \in Packets : /\ Second(capture[p]) \in Nat
                           /\ Second(mn) <= Second(capture[p]) /\ Second(capture[p]) <= Second(mx)
    BY <2>1, Halves, SecondsFollow
  <2> QED BY <2>1, <2>2, <2>3 DEF mn, mx
<1>2. WindowSec \in Nat /\ WindowSec > 0
  BY CaptureAssumption
<1>3. pieces = [k \in DOMAIN busy |-> window[busy[k]]]
  BY DEF SessionWindows
<1> HIDE DEF start, end
<1>4. count \in Nat
  <2> DEFINE y == end - start + WindowSec - 1
  <2>1. y \in Int /\ y >= 0
    BY <1>1, <1>2
  <2> HIDE DEF y
  <2>2. y \div WindowSec \in Int /\ y \div WindowSec >= 0
    BY <1>2, <2>1, SlotOf
  <2> QED BY <2>2 DEF y, WindowCount
<1>5. ASSUME NEW p \in Packets
      PROVE  slot(p) \in Nat /\ slot(p) >= 1 /\ (slot(p) <= count \/ Second(capture[p]) = end)
  <2> DEFINE x == Second(capture[p]) - start
             y == end - start + WindowSec - 1
             q == x \div WindowSec
  <2>1. x \in Int /\ y \in Int /\ 0 <= x /\ (Second(capture[p]) # end => x + WindowSec <= y)
    BY <1>1, <1>2
  <2>2. slot(p) = q + 1 /\ count = y \div WindowSec
    BY DEF WindowCount
  <2> HIDE DEF x, y
  <2>3. q \in Int /\ q >= 0
    BY <1>2, <2>1, SlotOf
  <2>4. WindowSec * (q + 1) <= x + WindowSec
    <3>1. (q + 1) - 1 = q /\ q + 1 \in Int /\ q + 1 = x \div WindowSec + 1
      BY <2>3
    <3> DEFINE i == q + 1
    <3>2. i \in Int /\ i = x \div WindowSec + 1
      BY <3>1
    <3> HIDE DEF i
    <3>3. (i - 1) * WindowSec <= x /\ (i - 1) * WindowSec \in Int
      BY <1>2, <2>1, <3>2, SlotOf
    <3>4. WindowSec * i = (i - 1) * WindowSec + WindowSec
      BY <1>2, <3>2
    <3>5. WindowSec * i <= x + WindowSec
      BY <1>2, <2>1, <3>3, <3>4
    <3> QED BY <3>5 DEF i
  <2> DEFINE i == q + 1
             v == WindowSec * i
  <2>5. i \in Int /\ v \in Int /\ v <= x + WindowSec
    BY <1>2, <2>3, <2>4
  <2>6. ASSUME Second(capture[p]) # end PROVE i <= y \div WindowSec
    <3>1. v <= y
      <4> HIDE DEF v
      <4> QED BY <1>2, <2>1, <2>5, <2>6
    <3> HIDE DEF i
    <3> QED BY <1>2, <2>1, <2>5, <3>1, Quotients
  <2> QED BY <2>2, <2>3, <2>6
<1>6. ASSUME NEW p \in Packets, NEW q \in Packets, capture[p] <= capture[q]
      PROVE  slot(p) <= slot(q)
  <2> DEFINE x == Second(capture[p]) - start
             y == Second(capture[q]) - start
  <2>1. x \in Int /\ y \in Int /\ x <= y
    BY <1>1, <1>6, SecondsFollow
  <2> HIDE DEF x, y
  <2>2. x \div WindowSec \in Int /\ y \div WindowSec \in Int /\ x \div WindowSec <= y \div WindowSec
    BY <1>2, <2>1, SlotOf, QuotientsFollow
  <2> QED BY <2>2 DEF x, y
<1>7. \A i \in 1..count : /\ Range(window[i]) = {p \in Packets : slot(p) = i}
                          /\ window[i] = <<>> <=> {p \in Packets : slot(p) = i} = {}
  <2> TAKE i \in 1..count
  <2> DEFINE from == start + (i - 1) * WindowSec
             inside == {p \in Packets : from <= Second(capture[p]) /\ Second(capture[p]) < from + WindowSec}
  <2>1. i \in Int /\ (i - 1) * WindowSec \in Int /\ from \in Int
    BY <1>1, <1>2, <1>4
  <2>2. Range(window[i]) = inside /\ (window[i] = <<>> <=> inside = {})
    <3>1. window[i] = Within(from, WindowSec)
      OBVIOUS
    <3> HIDE DEF from
    <3>2. Range(Within(from, WindowSec)) = inside /\ (Within(from, WindowSec) = <<>> <=> inside = {})
      BY <1>2, <2>1, WithinHolds
    <3> QED BY <3>1, <3>2
  <2>3. ASSUME NEW p \in Packets
        PROVE  from <= Second(capture[p]) /\ Second(capture[p]) < from + WindowSec <=> slot(p) = i
    <3> DEFINE x == Second(capture[p]) - start
    <3>1. x \in Int /\ Second(capture[p]) = x + start
      BY <1>1
    <3> HIDE DEF x
    <3>2. (i - 1) * WindowSec <= x /\ x < (i - 1) * WindowSec + WindowSec <=> i = x \div WindowSec + 1
      BY <1>2, <2>1, <3>1, SlotOf
    <3>3. /\ from <= Second(capture[p]) <=> (i - 1) * WindowSec <= x
          /\ Second(capture[p]) < from + WindowSec <=> x < (i - 1) * WindowSec + WindowSec
      BY <1>1, <1>2, <2>1, <3>1
    <3> QED BY <3>2, <3>3 DEF x
  <2>4. inside = {p \in Packets : slot(p) = i}
    <3> HIDE DEF from, slot
    <3> QED BY <2>3
  <2> HIDE DEF inside, from
  <2> QED BY <2>2, <2>4
<1>8. B \in SUBSET Int /\ B \in SUBSET (1..count) /\ \A i \in 1..count : i \in B <=> window[i] # <<>>
  BY <1>4
<1> HIDE DEF window
<1>9. IsFiniteSet(B)
  <2>1. IsFiniteSet(1..count)
    BY <1>4, LengthCounts
  <2> HIDE DEF B
  <2> QED BY <1>8, <2>1, FS_Subset
<1> HIDE DEF B
<1>10. /\ n \in Nat /\ busy \in [1..n -> B]
       /\ \A i \in B : \E k \in 1..n : busy[k] = i
       /\ \A k, m \in 1..n : k < m => busy[k] < busy[m]
  BY <1>8, <1>9, StoredOrder
<1> HIDE DEF busy, n
<1>11. DOMAIN pieces = 1..n /\ \A k \in 1..n : pieces[k] = window[busy[k]] /\ busy[k] \in B
  BY <1>3, <1>10
<1> HIDE DEF count, slot
<1>12. \A p \in Packets : slot(p) \in 1..count => slot(p) \in B
  BY <1>7, <1>8
<1> DEFINE Where(p) == CHOOSE k \in 1..n : busy[k] = slot(p)
           Lies(p) == IF slot(p) \in 1..count THEN Where(p) ELSE n + 1
           at == [p \in Packets |-> Lies(p)]
<1>13. ASSUME NEW p \in Packets
       PROVE  /\ slot(p) \in 1..count => Lies(p) \in 1..n /\ busy[Lies(p)] = slot(p)
              /\ slot(p) \notin 1..count => Lies(p) = n + 1 /\ slot(p) > count
              /\ Lies(p) \in Int
  <2>1. ASSUME slot(p) \in 1..count PROVE Where(p) \in 1..n /\ busy[Where(p)] = slot(p)
    BY <1>10, <1>12, <2>1
  <2>2. slot(p) \notin 1..count => slot(p) > count
    BY <1>4, <1>5
  <2> HIDE DEF Where
  <2> QED BY <1>10, <2>1, <2>2
<1> HIDE DEF Lies
<1>14. \A p \in Packets : at[p] = Lies(p) /\ at[p] \in Int
  BY <1>13
<1>15. at \in [Packets -> Int]
  BY <1>13
<1> HIDE DEF at
<1>16. ASSUME NEW k \in 1..n PROVE Range(pieces[k]) = {p \in Packets : at[p] = k}
  <2>1. busy[k] \in B /\ busy[k] \in 1..count /\ busy[k] \in Int /\ k \in Int /\ k # n + 1
    <3>1. busy[k] \in B /\ k \in Int /\ k # n + 1
      BY <1>10
    <3> QED BY <1>8, <3>1
  <2>2. Range(pieces[k]) = {p \in Packets : slot(p) = busy[k]}
    BY <1>7, <1>11, <2>1
  <2>3. ASSUME NEW p \in Packets PROVE slot(p) = busy[k] <=> at[p] = k
    <3>1. ASSUME slot(p) = busy[k] PROVE at[p] = k
      <4>1. Lies(p) \in 1..n /\ busy[Lies(p)] = busy[k]
        BY <1>13, <2>1, <3>1
      <4>2. Lies(p) \in Int /\ ~ (Lies(p) < k) /\ ~ (k < Lies(p))
        BY <1>10, <2>1, <4>1
      <4> QED BY <1>14, <2>1, <4>2
    <3>2. ASSUME at[p] = k PROVE slot(p) = busy[k]
      BY <1>13, <1>14, <2>1, <3>2
    <3> QED BY <3>1, <3>2
  <2> QED BY <2>2, <2>3
<1>17. ASSUME NEW p \in Packets, NEW q \in Packets, capture[p] <= capture[q] PROVE at[p] <= at[q]
  <2>1. /\ slot(p) \in Nat /\ slot(q) \in Nat /\ slot(p) >= 1 /\ slot(q) >= 1 /\ slot(p) <= slot(q)
        /\ n \in Nat /\ count \in Nat
    BY <1>4, <1>5, <1>6, <1>10, <1>17
  <2>2. CASE slot(q) \notin 1..count
    BY <1>13, <1>14, <2>1, <2>2
  <2>3. CASE slot(q) \in 1..count
    <3>1. slot(p) \in 1..count
      BY <2>1, <2>3
    <3>2. /\ Lies(p) \in 1..n /\ busy[Lies(p)] = slot(p)
          /\ Lies(q) \in 1..n /\ busy[Lies(q)] = slot(q)
      BY <1>13, <2>3, <3>1
    <3>3. ~ (Lies(q) < Lies(p))
      BY <1>10, <2>1, <3>2
    <3> QED BY <1>13, <1>14, <3>3
  <2> QED BY <2>2, <2>3
<1>18. Binned(at, n)
  BY <1>11, <1>15, <1>16, <1>17 DEF Binned
<1>19. \A p \in Packets : at[p] \in 1..n \/ Second(capture[p]) = end
  BY <1>4, <1>5, <1>13, <1>14
<1> QED BY <1>10, <1>18, <1>19 DEF end

-----------------------------------------------------------------------------
(***************************************************************************)
(* Sessions: the packets conversation by conversation, each in the order of*)
(* their times, cut where a session ends.                                  *)
(***************************************************************************)
LEMMA OpenersTell ==
  ASSUME capture \in Seq(Nat)
  PROVE  /\ \A p \in Packets : Opener(p) \in Nat
         /\ \A p, q \in Packets : Opener(p) = Opener(q) <=> Conversation(p) = Conversation(q)
<1> DEFINE Peers(p) == {q \in Packets : Conversation(q) = Conversation(p)}
<1>1. Packets = 1..Len(capture) /\ Len(capture) \in Nat
  BY LenProperties DEF Packets
<1>2. ASSUME NEW p \in Packets PROVE Opener(p) \in Nat /\ Conversation(Opener(p)) = Conversation(p)
  <2>1. Peers(p) \in SUBSET Nat /\ Peers(p) # {}
    BY <1>1
  <2>2. Opener(p) = Min(Peers(p))
    BY DEF Opener
  <2>3. \A q \in Peers(p) : Conversation(q) = Conversation(p)
    OBVIOUS
  <2> HIDE DEF Peers
  <2>4. PICK q \in Peers(p) : \A r \in Peers(p) : q <= r
    BY <2>1, LeastElement
  <2>5. Min(Peers(p)) = q
    BY <2>1, <2>4, LeastIs
  <2> QED BY <2>1, <2>2, <2>3, <2>5
<1>3. ASSUME NEW p \in Packets, NEW q \in Packets, Conversation(p) = Conversation(q)
      PROVE  Opener(p) = Opener(q)
  BY <1>3 DEF Opener
<1> QED BY <1>2, <1>3

\* Conversation by conversation, and in the order of times in each.
Laid(order) ==
  /\ Len(capture) \in Nat /\ Packets = 1..Len(capture) /\ \A p \in Packets : capture[p] \in Nat
  /\ order \in [1..Len(capture) -> Packets] /\ order \in Seq(Packets) /\ Len(order) = Len(capture)
  /\ \A p \in Packets : \E k \in 1..Len(capture) : order[k] = p
  /\ \A k, m \in 1..Len(capture) : order[k] = order[m] => k = m
  /\ \A k, g, m \in 1..Len(capture) :
        k <= g /\ g <= m /\ Conversation(order[k]) = Conversation(order[m]) =>
           /\ Conversation(order[g]) = Conversation(order[k])
           /\ capture[order[k]] <= capture[order[g]] /\ capture[order[g]] <= capture[order[m]]

LEMMA ConversationsLaid ==
  ASSUME capture \in Seq(Nat)
  PROVE  Laid(ByConversation)
<1> DEFINE n == Len(capture)
           R == {pair \in Packets \X Packets : Grouped(pair[1], pair[2])}
           order == Arranged(Packets, R)
<1>1. ByConversation = order
  BY DEF ByConversation
<1>2. n \in Nat /\ Packets = 1..n /\ \A p \in Packets : p \in Int /\ capture[p] \in Nat
  <2>1. n \in Nat /\ Packets = 1..n /\ \A p \in Packets : capture[p] \in Nat
    BY LenProperties, ElementOfSeq DEF Packets
  <2> QED BY <2>1
<1>3. IsFiniteSet(Packets) /\ Cardinality(Packets) = n
  BY <1>2, LengthCounts
<1>4. \A i, j \in Packets : <<i, j>> \in R <=> Grouped(i, j)
  OBVIOUS
<1> HIDE DEF R, n
<1>5. \A p \in Packets : Opener(p) \in Int
  BY OpenersTell
<1>6. /\ \A i, j \in Packets : i # j => Grouped(i, j) \/ Grouped(j, i)
      /\ \A i, j \in Packets : Grouped(i, j) => ~ Grouped(j, i) /\ i # j
      /\ \A i, j, k \in Packets : Grouped(i, j) /\ Grouped(j, k) => Grouped(i, k)
  <2>1. \A i, j \in Packets : i # j => Grouped(i, j) \/ Grouped(j, i)
    BY <1>2, <1>5 DEF Grouped, Sooner
  <2>2. \A i, j \in Packets : Grouped(i, j) => ~ Grouped(j, i) /\ i # j
    BY <1>2, <1>5 DEF Grouped, Sooner
  <2>3. \A i, j, k \in Packets : Grouped(i, j) /\ Grouped(j, k) => Grouped(i, k)
    BY <1>2, <1>5 DEF Grouped, Sooner
  <2> QED BY <2>1, <2>2, <2>3
<1>7. StrictOrder(R, Packets)
  BY <1>4, <1>6 DEF StrictOrder
<1>8. /\ order \in [1..n -> Packets]
      /\ \A i \in Packets : \E k \in 1..n : order[k] = i
      /\ \A k, m \in 1..n : k < m => <<order[k], order[m]>> \in R
  BY <1>3, <1>7, ArrangedInOrder
<1> HIDE DEF order
<1>9. order \in Seq(Packets) /\ Len(order) = n
  BY <1>2, <1>8, SeqDef, LenProperties
<1>10. \A k, m \in 1..n : k < m => Grouped(order[k], order[m])
  BY <1>4, <1>8
<1>11. ASSUME NEW k \in 1..n, NEW m \in 1..n, order[k] = order[m] PROVE k = m
  <2>1. ~ (k < m) /\ ~ (m < k)
    BY <1>6, <1>8, <1>10, <1>11
  <2> QED BY <2>1
<1>12. ASSUME NEW k \in 1..n, NEW m \in 1..n, k <= m
       PROVE  /\ Opener(order[k]) <= Opener(order[m])
              /\ Opener(order[k]) = Opener(order[m]) => capture[order[k]] <= capture[order[m]]
  <2>1. order[k] \in Packets /\ order[m] \in Packets
    BY <1>8
  <2>2. CASE k = m
    BY <1>2, <1>5, <2>1, <2>2
  <2>3. CASE k # m
    <3>1. Grouped(order[k], order[m])
      BY <1>10, <1>12, <2>3
    <3> QED BY <1>2, <1>5, <2>1, <3>1 DEF Grouped, Sooner
  <2> QED BY <2>2, <2>3
<1>13. ASSUME NEW k \in 1..n, NEW g \in 1..n, NEW m \in 1..n, k <= g, g <= m,
              Conversation(order[k]) = Conversation(order[m])
       PROVE  /\ Conversation(order[g]) = Conversation(order[k])
              /\ capture[order[k]] <= capture[order[g]] /\ capture[order[g]] <= capture[order[m]]
  <2>1. order[k] \in Packets /\ order[g] \in Packets /\ order[m] \in Packets
    BY <1>8
  <2>2. Opener(order[k]) = Opener(order[m])
    BY <1>13, <2>1, OpenersTell
  <2>3. Opener(order[k]) <= Opener(order[g]) /\ Opener(order[g]) <= Opener(order[m])
    BY <1>12, <1>13
  <2>4. Opener(order[g]) = Opener(order[k]) /\ Opener(order[g]) = Opener(order[m])
    BY <1>5, <2>1, <2>2, <2>3
  <2>5. Conversation(order[g]) = Conversation(order[k])
    BY <2>1, <2>4, OpenersTell
  <2> QED BY <1>12, <1>13, <2>4, <2>5
<1>14. Laid(order)
  BY <1>2, <1>8, <1>9, <1>11, <1>13 DEF Laid, n
<1> QED BY <1>1, <1>14

\* The pieces are runs of the order; position h is in piece slot[h], and two
\* positions are in the same piece unless a session ends between them.
RunOf(piece, order, a, length) ==
  /\ a \in Nat /\ length \in Nat \ {0} /\ a + length <= Len(capture)
  /\ piece \in Seq(Packets) /\ Len(piece) = length
  /\ \A k \in 1..length : piece[k] = order[a + k]
  /\ \A h \in (a + 1)..(a + length - 1) : ~ EndsSession(order, h)

Slotted(order, slot, m) ==
  /\ m \in Nat /\ DOMAIN pieces = 1..m /\ slot \in [1..Len(capture) -> 1..m]
  /\ \A i \in 1..m : Range(pieces[i]) = {order[h] : h \in {g \in 1..Len(capture) : slot[g] = i}}
  /\ \A h, k \in 1..Len(capture) :
        h < k => (slot[h] = slot[k] <=> \A e \in h..(k - 1) : ~ EndsSession(order, e))
  /\ \A i \in 1..m : \E a, length : RunOf(pieces[i], order, a, length)

LEMMA SessionsSlotted ==
  ASSUME pieces = Sessionized, NEW order, order = ByConversation, Laid(order)
  PROVE  \E slot, m : Slotted(order, slot, m)
<1> DEFINE n == Len(capture)
           E == {h \in DOMAIN order : EndsSession(order, h)}
           ends == Ascending(E)
           m == Cardinality(E)
           From(i) == IF i = 1 THEN 1 ELSE ends[i - 1] + 1
<1>1. n \in Nat /\ Packets = 1..n /\ order \in Seq(Packets) /\ Len(order) = n /\ order \in [1..n -> Packets]
  BY DEF Laid
<1>2. E \in SUBSET (1..n) /\ \A h \in 1..n : h \in E <=> EndsSession(order, h)
  BY <1>1
<1>3. n # 0 => n \in E
  BY <1>1 DEF EndsSession
<1>4. pieces = [i \in DOMAIN ends |-> SubSeq(order, From(i), ends[i])]
  BY DEF Sessionized
<1> HIDE DEF E, n
<1>5. E \in SUBSET Int /\ IsFiniteSet(E)
  <2>1. IsFiniteSet(1..n)
    BY <1>1, LengthCounts
  <2>2. IsFiniteSet(E)
    BY <1>2, <2>1, FS_Subset
  <2> QED BY <1>2, <2>2
<1>6. /\ m \in Nat /\ ends \in [1..m -> E]
      /\ \A i \in E : \E k \in 1..m : ends[k] = i
      /\ \A k, l \in 1..m : k < l => ends[k] < ends[l]
  BY <1>5, StoredOrder
<1> HIDE DEF ends, m
<1>7. \A i \in 1..m : ends[i] \in E /\ ends[i] \in 1..n /\ ends[i] \in Int
  BY <1>2, <1>5, <1>6
<1>8. ASSUME NEW i \in 1..m
      PROVE  /\ From(i) \in Int /\ 1 <= From(i) /\ From(i) <= ends[i]
             /\ \A j \in 1..m : j < i => ends[j] < From(i)
  <2>1. CASE i = 1
    BY <1>7, <2>1
  <2>2. CASE i # 1
    <3>1. i - 1 \in 1..m /\ i - 1 < i
      BY <1>6, <2>2
    <3>2. ends[i - 1] \in 1..n /\ ends[i - 1] < ends[i] /\ From(i) = ends[i - 1] + 1
      BY <1>6, <1>7, <2>2, <3>1
    <3>3. ASSUME NEW j \in 1..m, j < i PROVE ends[j] <= ends[i - 1]
      <4>1. j = i - 1 \/ j < i - 1
        BY <1>6, <3>3
      <4> QED BY <1>6, <1>7, <3>1, <4>1
    <3>4. \A j \in 1..m : j < i => ends[j] < From(i)
      BY <1>7, <3>2, <3>3
    <3> HIDE DEF From
    <3> QED BY <1>7, <3>2, <3>4
  <2> QED BY <2>1, <2>2
<1>9. \A i \in 1..m : \A j \in 1..m : j < i => ends[j] < From(i) /\ From(i) \in Int
  BY <1>8
<1>10. ASSUME NEW i \in 1..m, i # 1 PROVE i - 1 \in 1..m /\ From(i) = ends[i - 1] + 1
  BY <1>6, <1>10
<1>11. From(1) = 1
  OBVIOUS
<1> HIDE DEF From
\* The piece that holds a position.
<1>12. ASSUME NEW h \in 1..n PROVE \E i \in 1..m : From(i) <= h /\ h <= ends[i]
  <2> DEFINE T == {i \in 1..m : h <= ends[i]}
  <2>1. T \in SUBSET Nat /\ T # {}
    <3>1. n \in E
      BY <1>1, <1>3
    <3>2. PICK i \in 1..m : ends[i] = n
      BY <1>6, <3>1
    <3> QED BY <1>1, <3>2
  <2>2. PICK i \in T : \A j \in T : i <= j
    BY <2>1, LeastElement
  <2>3. i \in 1..m /\ h <= ends[i]
    BY <2>2
  <2>4. From(i) <= h
    <3>1. CASE i = 1
      BY <1>11, <3>1
    <3>2. CASE i # 1
      <4>1. i - 1 \in 1..m /\ From(i) = ends[i - 1] + 1 /\ ~ (i <= i - 1)
        BY <1>10, <2>3, <3>2
      <4>2. ~ (h <= ends[i - 1])
        BY <2>2, <4>1
      <4> QED BY <1>7, <4>1, <4>2
    <3> QED BY <3>1, <3>2
  <2> QED BY <2>3, <2>4
<1> DEFINE slot == [h \in 1..n |-> CHOOSE i \in 1..m : From(i) <= h /\ h <= ends[i]]
<1>13. slot \in [1..n -> 1..m] /\ \A h \in 1..n : From(slot[h]) <= h /\ h <= ends[slot[h]] /\ slot[h] \in 1..m
  BY <1>12
<1> HIDE DEF slot
<1>14. ASSUME NEW h \in 1..n, NEW i \in 1..m, From(i) <= h, h <= ends[i] PROVE slot[h] = i
  <2>1. slot[h] \in 1..m /\ From(slot[h]) <= h /\ h <= ends[slot[h]]
    BY <1>13
  <2>2. ~ (slot[h] < i)
    BY <1>7, <1>8, <1>14, <2>1
  <2>3. ~ (i < slot[h])
    BY <1>7, <1>8, <1>14, <2>1
  <2> QED BY <2>1, <2>2, <2>3
<1>15. ASSUME NEW i \in 1..m, NEW h \in Int, From(i) <= h, h < ends[i] PROVE ~ EndsSession(order, h)
  <2>1. h \in 1..n
    BY <1>1, <1>7, <1>8, <1>15
  <2>2. ASSUME h \in E PROVE FALSE
    <3>1. PICK j \in 1..m : ends[j] = h
      BY <1>6, <2>2
    <3>2. ~ (j < i)
      BY <1>8, <1>15, <3>1
    <3>3. ~ (i < j) /\ j # i
      BY <1>6, <1>7, <1>15, <3>1
    <3> QED BY <3>2, <3>3
  <2> QED BY <1>2, <2>1, <2>2
<1>16. ASSUME NEW i \in 1..m
       PROVE  /\ RunOf(pieces[i], order, From(i) - 1, ends[i] - From(i) + 1)
              /\ Range(pieces[i]) = {order[h] : h \in {g \in 1..n : slot[g] = i}}
  <2> DEFINE a == From(i) - 1
             length == ends[i] - From(i) + 1
             s == SubSeq(order, From(i), ends[i])
  <2>1. pieces[i] = s
    BY <1>4, <1>6
  <2>2. /\ a \in Nat /\ length \in Nat \ {0} /\ a + length = ends[i] /\ ends[i] <= n
        /\ From(i) = a + 1 /\ ends[i] \in 1..n
    <3> DEFINE f == From(i)
               e == ends[i]
    <3>1. f \in Int /\ e \in Int /\ n \in Int /\ 1 <= f /\ f <= e /\ e \in 1..n /\ e <= n
      BY <1>1, <1>7, <1>8
    <3> HIDE DEF f, e
    <3>2. f - 1 \in Nat /\ e - f + 1 \in Nat \ {0} /\ (f - 1) + (e - f + 1) = e /\ f = (f - 1) + 1
      BY <3>1
    <3> QED BY <3>1, <3>2 DEF f, e
  <2>3. From(i) \in 1..(n + 1) /\ ends[i] \in 0..n
    BY <1>1, <1>7, <1>8
  <2>4. /\ s \in Seq(Packets) /\ Len(s) = length
        /\ \A k \in 1..length : s[k] = order[From(i) + k - 1]
    <3>1. \A k \in From(i)..ends[i] : order[k] \in Packets
      BY <1>1, <2>3
    <3> QED BY <1>8, <2>3, <3>1, SubSeqProperties, <1>7
  <2> HIDE DEF s, a, length
  <2>5. \A k \in 1..length : s[k] = order[a + k]
    <3> TAKE k \in 1..length
    <3>1. From(i) + k - 1 = a + k
      BY <2>2
    <3> QED BY <2>4, <3>1
  <2>6. \A h \in (a + 1)..(a + length - 1) : ~ EndsSession(order, h)
    <3> TAKE h \in (a + 1)..(a + length - 1)
    <3>1. h \in Int /\ From(i) <= h /\ h < ends[i]
      BY <2>2
    <3> QED BY <1>15, <3>1
  <2>7. RunOf(pieces[i], order, a, length)
    BY <2>1, <2>2, <2>4, <2>5, <2>6 DEF RunOf, n
  <2>8. Range(s) = {s[k] : k \in 1..length}
    <3>1. DOMAIN s = 1..length
      BY <2>4, LenProperties
    <3> QED BY <3>1 DEF Range
  <2>9. \A k \in 1..length : a + k \in 1..n /\ slot[a + k] = i
    <3> TAKE k \in 1..length
    <3>1. a + k \in 1..n /\ From(i) <= a + k /\ a + k <= ends[i]
      BY <1>1, <1>7, <2>2
    <3> QED BY <1>14, <3>1
  <2>10. \A h \in 1..n : slot[h] = i => h - a \in 1..length /\ a + (h - a) = h
    <3> SUFFICES ASSUME NEW h \in 1..n, slot[h] = i PROVE h - a \in 1..length /\ a + (h - a) = h
      OBVIOUS
    <3>1. From(i) <= h /\ h <= ends[i]
      BY <1>13
    <3> QED BY <2>2, <3>1
  <2>11. Range(s) = {order[h] : h \in {g \in 1..n : slot[g] = i}}
    <3>1. \A x \in Range(s) : \E h \in 1..n : slot[h] = i /\ x = order[h]
      BY <2>5, <2>8, <2>9
    <3>2. \A h \in 1..n : slot[h] = i => order[h] \in Range(s)
      <4> SUFFICES ASSUME NEW h \in 1..n, slot[h] = i PROVE order[h] \in Range(s)
        OBVIOUS
      <4>1. h - a \in 1..length /\ s[h - a] = order[h]
        BY <2>5, <2>10
      <4> QED BY <2>8, <4>1
    <3> QED BY <3>1, <3>2
  <2> QED BY <2>1, <2>7, <2>11 DEF a, length
<1>17. ASSUME NEW h \in 1..n, NEW k \in 1..n, h < k
       PROVE  slot[h] = slot[k] <=> \A e \in h..(k - 1) : ~ EndsSession(order, e)
  <2> DEFINE i == slot[h]
             j == slot[k]
  <2>1. i \in 1..m /\ j \in 1..m /\ From(i) <= h /\ h <= ends[i] /\ From(j) <= k /\ k <= ends[j]
    BY <1>13
  <2> HIDE DEF i, j
  <2>2. ASSUME i = j, NEW e \in h..(k - 1) PROVE ~ EndsSession(order, e)
    <3>1. e \in Int /\ From(i) <= e /\ e < ends[i]
      BY <1>7, <1>8, <2>1, <2>2
    <3> QED BY <1>15, <2>1, <3>1
  <2>3. ASSUME i # j PROVE \E e \in h..(k - 1) : EndsSession(order, e)
    <3>1. ~ (j < i)
      BY <1>7, <1>8, <1>17, <2>1
    <3>2. i < j
      BY <2>1, <2>3, <3>1
    <3>3. ends[i] < From(j) /\ ends[i] \in E /\ ends[i] \in 1..n /\ From(j) \in Int
      BY <1>7, <1>9, <2>1, <3>2
    <3>4. ends[i] \in h..(k - 1) /\ EndsSession(order, ends[i])
      BY <1>2, <2>1, <3>3
    <3> QED BY <3>4
  <2> QED BY <2>2, <2>3 DEF i, j
<1>18. DOMAIN pieces = 1..m
  BY <1>4, <1>6
<1>19. Slotted(order, slot, m)
  BY <1>6, <1>13, <1>16, <1>17, <1>18 DEF Slotted, n
<1> QED BY <1>19

\* Where no session ends, the next packet is of the same conversation and
\* follows within Gap.
LEMMA NextInSession ==
  ASSUME NEW order, Laid(order), NEW h \in 1..(Len(capture) - 1), ~ EndsSession(order, h)
  PROVE  /\ h + 1 \in 1..Len(capture)
         /\ Conversation(order[h]) = Conversation(order[h + 1])
         /\ capture[order[h + 1]] <= capture[order[h]] + Gap
<1>1. /\ Len(capture) \in Nat /\ Len(order) = Len(capture)
      /\ order \in [1..Len(capture) -> Packets] /\ \A p \in Packets : capture[p] \in Nat
  BY DEF Laid
<1>2. h \in 1..Len(capture) /\ h + 1 \in 1..Len(capture) /\ h # Len(order)
  <2> DEFINE n == Len(capture)
  <2>1. n \in Nat /\ Len(order) = n /\ h \in 1..(n - 1)
    BY <1>1
  <2> HIDE DEF n
  <2>2. h \in 1..n /\ h + 1 \in 1..n /\ h # n
    BY <2>1
  <2> QED BY <2>1, <2>2 DEF n
<1>3. capture[order[h]] \in Nat /\ capture[order[h + 1]] \in Nat /\ Gap \in Nat
  BY <1>1, <1>2, CaptureAssumption
<1>4. Conversation(order[h]) = Conversation(order[h + 1]) /\ ~ Silent(order[h], order[h + 1])
  BY <1>2 DEF EndsSession
<1> DEFINE c == capture[order[h]]
           d == capture[order[h + 1]]
<1>5. ~ (d - c > Gap) /\ c \in Nat /\ d \in Nat
  BY <1>3, <1>4 DEF Silent
<1> HIDE DEF c, d
<1>6. d <= c + Gap
  BY <1>3, <1>5
<1> QED BY <1>2, <1>4, <1>6 DEF c, d

\* Packets with no end of a session between them: one conversation, no silence.
LEMMA TogetherMeans ==
  ASSUME NEW order, Laid(order), NEW h \in 1..Len(capture), NEW k \in 1..Len(capture), h <= k,
         \A e \in h..(k - 1) : ~ EndsSession(order, e)
  PROVE  /\ Conversation(order[h]) = Conversation(order[k])
         /\ \A t \in Int : capture[order[h]] <= t /\ t + Gap < capture[order[k]] =>
               \E r \in Packets : /\ Conversation(r) = Conversation(order[h])
                                  /\ t < capture[r] /\ capture[r] <= t + Gap
<1>1. /\ Len(capture) \in Nat /\ order \in [1..Len(capture) -> Packets]
      /\ \A p \in Packets : capture[p] \in Nat
      /\ Gap \in Nat
  BY CaptureAssumption DEF Laid
<1>2. \A e \in h..(k - 1) : /\ e + 1 \in 1..Len(capture)
                            /\ Conversation(order[e]) = Conversation(order[e + 1])
                            /\ capture[order[e + 1]] <= capture[order[e]] + Gap
  <2> TAKE e \in h..(k - 1)
  <2>1. e \in 1..(Len(capture) - 1)
    BY <1>1
  <2> QED BY <2>1, NextInSession
<1>3. \A g \in h..k : Conversation(order[g]) = Conversation(order[h])
  <2> DEFINE Other == {g \in h..k : Conversation(order[g]) # Conversation(order[h])}
  <2>1. SUFFICES ASSUME Other # {} PROVE FALSE
    OBVIOUS
  <2>2. Other \in SUBSET Nat
    OBVIOUS
  <2>3. PICK g \in Other : \A x \in Other : g <= x
    BY <2>1, <2>2, LeastElement
  <2>4. g \in h..k /\ Conversation(order[g]) # Conversation(order[h])
    BY <2>3
  <2>5. g # h /\ g - 1 \in h..(k - 1) /\ g - 1 \in h..k /\ ~ (g <= g - 1) /\ (g - 1) + 1 = g
    BY <2>4
  <2>6. Conversation(order[g - 1]) = Conversation(order[h])
    BY <2>3, <2>5
  <2>7. Conversation(order[g - 1]) = Conversation(order[g])
    BY <1>2, <2>5
  <2> QED BY <2>4, <2>6, <2>7
<1>4. ASSUME NEW t \in Int, capture[order[h]] <= t, t + Gap < capture[order[k]]
      PROVE  \E r \in Packets : /\ Conversation(r) = Conversation(order[h])
                                /\ t < capture[r] /\ capture[r] <= t + Gap
  <2> DEFINE After == {g \in h..k : t < capture[order[g]]}
  <2>1. After \in SUBSET Nat /\ k \in After
    BY <1>1, <1>4
  <2>2. PICK g \in After : \A x \in After : g <= x
    BY <2>1, LeastElement
  <2>3. g \in h..k /\ t < capture[order[g]] /\ g \in 1..Len(capture)
    BY <2>2
  <2>4. order[g] \in Packets /\ capture[order[g]] \in Nat /\ order[h] \in Packets /\ capture[order[h]] \in Nat
    BY <1>1, <2>3
  <2>5. g # h
    BY <1>4, <2>3, <2>4
  <2>6. g - 1 \in h..(k - 1) /\ g - 1 \in h..k /\ ~ (g <= g - 1) /\ (g - 1) + 1 = g
    BY <2>3, <2>5
  <2>7. ~ (t < capture[order[g - 1]])
    BY <2>2, <2>6
  <2>8. capture[order[g]] <= capture[order[g - 1]] + Gap
    BY <1>2, <2>6
  <2>9. capture[order[g - 1]] \in Nat
    <3>1. g - 1 \in 1..Len(capture)
      BY <2>6
    <3> QED BY <1>1, <3>1
  <2>10. capture[order[g]] <= t + Gap
    BY <1>1, <2>4, <2>7, <2>8, <2>9
  <2> QED BY <1>3, <2>3, <2>4, <2>10
<1> QED BY <1>1, <1>3, <1>4

\* Packets of one conversation with the end of a session between them: a silence.
LEMMA ApartMeans ==
  ASSUME NEW order, Laid(order), NEW h \in 1..Len(capture), NEW k \in 1..Len(capture),
         Conversation(order[h]) = Conversation(order[k]),
         NEW e \in h..(k - 1), EndsSession(order, e)
  PROVE  \E t \in Nat : /\ capture[order[h]] <= t /\ t + Gap < capture[order[k]]
                        /\ \A r \in Packets : Conversation(r) = Conversation(order[h]) =>
                              ~ (t < capture[r] /\ capture[r] <= t + Gap)
<1>1. /\ Len(capture) \in Nat /\ order \in [1..Len(capture) -> Packets] /\ Len(order) = Len(capture)
      /\ \A p \in Packets : capture[p] \in Nat
      /\ \A p \in Packets : \E g \in 1..Len(capture) : order[g] = p
      /\ Gap \in Nat
  BY CaptureAssumption DEF Laid
<1>2. \A x, g, y \in 1..Len(capture) :
        x <= g /\ g <= y /\ Conversation(order[x]) = Conversation(order[y]) =>
           /\ Conversation(order[g]) = Conversation(order[x])
           /\ capture[order[x]] <= capture[order[g]] /\ capture[order[g]] <= capture[order[y]]
  BY DEF Laid
<1>3. /\ e \in 1..Len(capture) /\ e + 1 \in 1..Len(capture) /\ e # Len(order)
      /\ h <= e /\ e <= k /\ h <= e + 1 /\ e + 1 <= k
  <2> DEFINE n == Len(capture)
  <2>1. n \in Nat /\ Len(order) = n /\ h \in 1..n /\ k \in 1..n
    BY <1>1
  <2> HIDE DEF n
  <2>2. /\ e \in 1..n /\ e + 1 \in 1..n /\ e # n
        /\ h <= e /\ e <= k /\ h <= e + 1 /\ e + 1 <= k
    BY <2>1
  <2> QED BY <2>1, <2>2 DEF n
<1> DEFINE t == capture[order[e]]
           u == capture[order[e + 1]]
<1>4. /\ Conversation(order[e]) = Conversation(order[h]) /\ Conversation(order[e + 1]) = Conversation(order[h])
      /\ capture[order[h]] <= t /\ u <= capture[order[k]]
  BY <1>2, <1>3
<1>5. t \in Nat /\ u \in Nat /\ capture[order[h]] \in Nat /\ capture[order[k]] \in Nat
  BY <1>1, <1>3
<1>6. u - t > Gap
  BY <1>3, <1>4 DEF EndsSession, Silent
<1>7. t + Gap < capture[order[k]]
  <2> HIDE DEF t, u
  <2> QED BY <1>1, <1>4, <1>5, <1>6
<1>8. ASSUME NEW r \in Packets, Conversation(r) = Conversation(order[h]), t < capture[r], capture[r] <= t + Gap
      PROVE  FALSE
  <2>1. PICK g \in 1..Len(capture) : order[g] = r
    BY <1>1
  <2>2. capture[r] \in Nat
    BY <1>1
  <2>3. g > e
    <3>1. ~ (g <= e)
      <4>1. g <= e => capture[order[g]] <= capture[order[e]]
        <5>1. Conversation(order[g]) = Conversation(order[e])
          BY <1>4, <1>8, <2>1
        <5>2. e <= e
          BY <1>3
        <5> QED BY <1>2, <1>3, <5>1, <5>2
      <4> QED BY <1>5, <1>8, <2>1, <2>2, <4>1
    <3> QED BY <1>1, <3>1
  <2>4. g >= e + 1 /\ e + 1 <= e + 1
    BY <1>1, <2>3
  <2>5. capture[order[e + 1]] <= capture[order[g]]
    <3>1. Conversation(order[e + 1]) = Conversation(order[g])
      BY <1>4, <1>8, <2>1
    <3> QED BY <1>2, <1>3, <2>4, <3>1
  <2> HIDE DEF t
  <2>6. u <= capture[r]
    BY <2>1, <2>5
  <2> HIDE DEF u
  <2> QED BY <1>1, <1>5, <1>6, <1>8, <2>2, <2>6
<1> QED BY <1>4, <1>5, <1>7, <1>8

LEMMA PieceOfPosition ==
  ASSUME NEW order, Laid(order), NEW slot, NEW m, Slotted(order, slot, m),
         NEW h \in 1..Len(capture)
  PROVE  PieceOf(order[h]) = {slot[h]}
<1>1. /\ m \in Nat /\ DOMAIN pieces = 1..m /\ slot[h] \in 1..m
      /\ \A i \in 1..m : Range(pieces[i]) = {order[g] : g \in {x \in 1..Len(capture) : slot[x] = i}}
  BY DEF Slotted
<1>2. \A g \in 1..Len(capture) : order[g] = order[h] => g = h
  BY DEF Laid
<1>3. \A i \in 1..m : order[h] \in Range(pieces[i]) <=> i = slot[h]
  BY <1>1, <1>2
<1> QED BY <1>1, <1>3 DEF PieceOf

\* Every packet in one session; two in the same one exactly if they are of one
\* conversation and no silence is between them.
LEMMA SessionsShared ==
  ASSUME capture \in Seq(Nat), NEW order, Laid(order), NEW slot, NEW m, Slotted(order, slot, m)
  PROVE  /\ \A p \in Packets : Cardinality(PieceOf(p)) = 1
         /\ \A p \in Packets : \A q \in {r \in Packets : capture[p] <= capture[r]} :
               PieceOf(p) = PieceOf(q) <=>
                   /\ Conversation(p) = Conversation(q)
                   /\ \A t \in 0..Max(Range(capture)) :
                         capture[p] <= t /\ t + Gap < capture[q] =>
                             \E r \in Packets : /\ Conversation(r) = Conversation(p)
                                                /\ t < capture[r] /\ capture[r] <= t + Gap
<1> DEFINE n == Len(capture)
           Bridged(p, q, t) == capture[p] <= t /\ t + Gap < capture[q] =>
                                   \E r \in Packets : /\ Conversation(r) = Conversation(p)
                                                      /\ t < capture[r] /\ capture[r] <= t + Gap
<1>1. /\ n \in Nat /\ order \in [1..n -> Packets]
      /\ \A p \in Packets : capture[p] \in Nat
      /\ \A p \in Packets : \E g \in 1..n : order[g] = p
      /\ \A x, g \in 1..n : order[x] = order[g] => x = g
      /\ Gap \in Nat /\ Gap > 0
  BY CaptureAssumption DEF Laid
<1>2. \A h, k \in 1..n : h < k => (slot[h] = slot[k] <=> \A e \in h..(k - 1) : ~ EndsSession(order, e))
  BY DEF Slotted
<1>3. \A h \in 1..n : PieceOf(order[h]) = {slot[h]}
  BY PieceOfPosition
<1>4. ASSUME NEW p \in Packets PROVE Cardinality(PieceOf(p)) = 1
  <2>1. PICK h \in 1..n : order[h] = p
    BY <1>1
  <2>2. \A x : Cardinality({x}) = 1
    BY FS_Singleton
  <2> QED BY <1>3, <2>1, <2>2
<1>5. ASSUME NEW p \in Packets, NEW q \in Packets, capture[p] <= capture[q]
      PROVE  PieceOf(p) = PieceOf(q) <=>
                /\ Conversation(p) = Conversation(q)
                /\ \A t \in 0..Max(Range(capture)) : Bridged(p, q, t)
  <2>1. PICK h \in 1..n : order[h] = p
    BY <1>1
  <2>2. PICK k \in 1..n : order[k] = q
    BY <1>1
  <2>3. PieceOf(p) = PieceOf(q) <=> slot[h] = slot[k]
    BY <1>3, <2>1, <2>2
  <2>4. capture[p] \in Nat /\ capture[q] \in Nat /\ h \in Int /\ k \in Int
    BY <1>1
  <2>5. LET mx == Max(Range(capture)) IN mx \in Int /\ capture[q] <= mx
    <3>1. capture # <<>>
      BY EmptySeq DEF Packets
    <3> QED BY <3>1, TimesOfCapture
  <2>6. \A t \in Nat : t + Gap < capture[q] => t \in 0..Max(Range(capture))
    <3> DEFINE mx == Max(Range(capture))
    <3>1. mx \in Int /\ capture[q] <= mx
      BY <2>5
    <3> HIDE DEF mx
    <3>2. \A t \in Nat : t + Gap < capture[q] => t \in 0..mx
      BY <1>1, <2>4, <3>1
    <3> QED BY <3>2 DEF mx
  <2>7. CASE h = k
    <3>1. p = q
      BY <2>1, <2>2, <2>7
    <3>2. \A t \in 0..Max(Range(capture)) : Bridged(p, q, t)
      <4> TAKE t \in 0..Max(Range(capture))
      <4>1. t \in Int
        OBVIOUS
      <4>2. ~ (capture[p] <= t /\ t + Gap < capture[q])
        BY <1>1, <2>4, <3>1, <4>1
      <4> QED BY <4>2
    <3> HIDE DEF Bridged
    <3> QED BY <3>1, <3>2
  <2>8. CASE h < k
    <3>1. ASSUME slot[h] = slot[k]
          PROVE  /\ Conversation(p) = Conversation(q)
                 /\ \A t \in 0..Max(Range(capture)) : Bridged(p, q, t)
      <4>1. (\A e \in h..(k - 1) : ~ EndsSession(order, e)) /\ h <= k
        BY <1>2, <2>4, <2>8, <3>1
      <4>2. /\ Conversation(p) = Conversation(q)
            /\ \A t \in Int : Bridged(p, q, t)
        BY <2>1, <2>2, <4>1, TogetherMeans
      <4>3. \A t \in 0..Max(Range(capture)) : t \in Int
        OBVIOUS
      <4> HIDE DEF Bridged
      <4> QED BY <4>2, <4>3
    <3>2. ASSUME slot[h] # slot[k], Conversation(p) = Conversation(q)
          PROVE  \E t \in 0..Max(Range(capture)) : ~ Bridged(p, q, t)
      <4>1. PICK e \in h..(k - 1) : EndsSession(order, e)
        BY <1>2, <2>8, <3>2
      <4>2. Conversation(order[h]) = Conversation(order[k])
        BY <2>1, <2>2, <3>2
      <4>3. \E t \in Nat : /\ capture[order[h]] <= t /\ t + Gap < capture[order[k]]
                           /\ \A r \in Packets : Conversation(r) = Conversation(order[h]) =>
                                 ~ (t < capture[r] /\ capture[r] <= t + Gap)
        BY <4>1, <4>2, ApartMeans
      <4> QED BY <2>1, <2>2, <2>6, <4>3
    <3> HIDE DEF Bridged
    <3> QED BY <2>3, <3>1, <3>2
  <2>9. CASE k < h
    <3>1. ASSUME slot[h] = slot[k]
          PROVE  /\ Conversation(p) = Conversation(q)
                 /\ \A t \in 0..Max(Range(capture)) : Bridged(p, q, t)
      <4>1. (\A e \in k..(h - 1) : ~ EndsSession(order, e)) /\ k <= h
        BY <1>2, <2>4, <2>9, <3>1
      <4>2. Conversation(q) = Conversation(p)
        BY <2>1, <2>2, <4>1, TogetherMeans
      <4>3. k <= h /\ h <= h /\ Conversation(order[k]) = Conversation(order[h])
        BY <2>1, <2>2, <2>4, <4>1, <4>2
      <4>4. capture[q] <= capture[p]
        BY <2>1, <2>2, <4>3 DEF Laid
      <4>5. \A t \in Int : ~ (capture[p] <= t /\ t + Gap < capture[q])
        BY <1>1, <2>4, <4>4
      <4> QED BY <4>2, <4>5
    <3>2. ASSUME slot[h] # slot[k], Conversation(p) = Conversation(q)
          PROVE  FALSE
      <4>1. PICK e \in k..(h - 1) : EndsSession(order, e)
        BY <1>2, <2>9, <3>2
      <4>2. Conversation(order[k]) = Conversation(order[h])
        BY <2>1, <2>2, <3>2
      <4>3. \E t \in Nat : capture[order[k]] <= t /\ t + Gap < capture[order[h]]
        BY <4>1, <4>2, ApartMeans
      <4> QED BY <1>1, <1>5, <2>1, <2>2, <2>4, <4>3
    <3> HIDE DEF Bridged
    <3> QED BY <2>3, <3>1, <3>2
  <2> HIDE DEF Bridged
  <2> QED BY <2>4, <2>7, <2>8, <2>9
<1> QED BY <1>4, <1>5

\* A session's features agree with its packets.
LEMMA FeaturesHold ==
  ASSUME NEW order, Laid(order), NEW piece, NEW a, NEW length, RunOf(piece, order, a, length)
  PROVE  LET f == Features(piece)
         IN  f.duration <= (f.packet_count - 1) * Gap /\ f.upstream \in 1..f.packet_count
<1> DEFINE n == Len(capture)
           time(k) == capture[order[a + k]]
           Mine == {k \in DOMAIN piece : course[piece[k]][1] = course[piece[1]][1]}
<1>1. /\ n \in Nat /\ order \in [1..n -> Packets] /\ \A p \in Packets : capture[p] \in Nat
      /\ Gap \in Nat
  BY CaptureAssumption DEF Laid
<1>2. /\ a \in Nat /\ length \in Nat \ {0} /\ a + length <= n
      /\ piece \in Seq(Packets) /\ Len(piece) = length /\ DOMAIN piece = 1..length
      /\ \A k \in 1..length : piece[k] = order[a + k]
      /\ \A h \in (a + 1)..(a + length - 1) : ~ EndsSession(order, h)
  BY LenProperties DEF RunOf
<1>3. /\ Features(piece).duration = capture[piece[length]] - capture[piece[1]]
      /\ Features(piece).packet_count = length /\ Features(piece).upstream = Cardinality(Mine)
  BY <1>2 DEF Features, Last
<1>4. capture[piece[length]] = time(length) /\ capture[piece[1]] = time(1) /\ 1 \in 1..length /\ length \in 1..length
  BY <1>2
<1>5. \A k \in 1..length : time(k) \in Nat
  <2> TAKE k \in 1..length
  <2>1. a + k \in 1..n
    BY <1>1, <1>2
  <2> QED BY <1>1, <2>1
<1>6. \A k \in 1..length : k # 1 => k - 1 \in 1..length /\ time(k) <= time(k - 1) + Gap
  <2> SUFFICES ASSUME NEW k \in 1..length, k # 1 PROVE k - 1 \in 1..length /\ time(k) <= time(k - 1) + Gap
    OBVIOUS
  <2>1. /\ k - 1 \in 1..length /\ a + (k - 1) \in 1..(n - 1) /\ a + (k - 1) \in (a + 1)..(a + length - 1)
        /\ (a + (k - 1)) + 1 = a + k
    BY <1>1, <1>2
  <2>2. ~ EndsSession(order, a + (k - 1))
    BY <1>2, <2>1
  <2> DEFINE h == a + (k - 1)
  <2>3. h \in 1..(n - 1) /\ ~ EndsSession(order, h) /\ h + 1 = a + k
    BY <2>1, <2>2
  <2> HIDE DEF h
  <2>4. capture[order[h + 1]] <= capture[order[h]] + Gap
    BY <2>3, NextInSession
  <2> QED BY <2>1, <2>3, <2>4 DEF h
<1> HIDE DEF time
<1>7. \A k \in Int : (k - 1) * Gap \in Int /\ (k - 1) * Gap = ((k - 1) - 1) * Gap + Gap /\ (1 - 1) * Gap = 0
  BY <1>1
<1>8. time(length) - time(1) <= (length - 1) * Gap
  <2> DEFINE span(k) == (k - 1) * Gap
             Longer == {k \in 1..length : time(k) - time(1) > span(k)}
  <2>1. SUFFICES ASSUME Longer # {} PROVE FALSE
    <3>1. length \notin Longer
      BY <2>1
    <3>2. time(length) \in Int /\ time(1) \in Int /\ span(length) \in Int
      BY <1>2, <1>4, <1>5, <1>7
    <3>3. ~ (time(length) - time(1) > span(length))
      BY <1>4, <3>1
    <3> HIDE DEF span, Longer
    <3>4. time(length) - time(1) <= span(length)
      BY <3>2, <3>3
    <3> QED BY <3>4 DEF span
  <2>2. Longer \in SUBSET Nat
    OBVIOUS
  <2>3. PICK k \in Longer : \A x \in Longer : k <= x
    BY <2>1, <2>2, LeastElement
  <2>4. k \in 1..length /\ time(k) - time(1) > span(k)
    BY <2>3
  <2>5. /\ span(1) = 0 /\ span(k) = span(k - 1) + Gap /\ span(k) \in Int /\ span(k - 1) \in Int
    <3>1. k \in Int /\ k - 1 \in Int
      BY <2>4
    <3> QED BY <1>7, <3>1
  <2>6. time(1) \in Nat /\ time(k) \in Nat
    BY <1>4, <1>5, <2>4
  <2> HIDE DEF span
  <2>7. k # 1
    BY <2>4, <2>5, <2>6
  <2>8. k - 1 \in 1..length /\ time(k) <= time(k - 1) + Gap /\ ~ (k <= k - 1)
    BY <1>6, <2>4, <2>7
  <2>9. ~ (time(k - 1) - time(1) > span(k - 1))
    BY <2>3, <2>8
  <2>10. time(k - 1) \in Nat
    BY <1>5, <2>8
  <2> QED BY <1>1, <2>4, <2>5, <2>6, <2>8, <2>9, <2>10
<1>9. Cardinality(Mine) \in 1..length
  <2>1. 1 \in Mine /\ Mine \in SUBSET (1..length)
    BY <1>2
  <2> HIDE DEF Mine
  <2>2. IsFiniteSet(1..length) /\ Cardinality(1..length) = length
    BY <1>2, LengthCounts
  <2>3. IsFiniteSet(Mine) /\ Cardinality(Mine) <= length
    BY <2>1, <2>2, FS_Subset
  <2>4. Cardinality(Mine) \in Nat /\ Cardinality(Mine) # 0
    BY <2>1, <2>3, FS_CardinalityType, FS_EmptySet
  <2> QED BY <1>2, <2>3, <2>4
<1> HIDE DEF Mine
<1> QED BY <1>3, <1>4, <1>8, <1>9

\* What a task answers is made of the capture it was given.
BinInv ==
  /\ capture \in Seq(Nat)
  /\ answer = "signals" =>
        /\ task = "api" => pieces = IF capture = <<>> THEN Blank ELSE Padded(ApiBins)
        /\ task = "session" => /\ pieces = IF capture = <<>> THEN <<>> ELSE SessionWindows
                               /\ ~ (Len(pieces) < MinPoints)
        /\ task = "live" => pieces = IF capture = <<>> THEN Blank ELSE LiveBins
        /\ task = "activity" => pieces = IF capture = <<>> THEN <<>> ELSE Activity
        /\ task = "sessions" => pieces = Sessionized

\* Bins are told by the capture alone, sessions by the directions too.
LEMMA BinsStay ==
  ASSUME capture' = capture, course' = course
  PROVE  /\ ApiBins' = ApiBins /\ SessionWindows' = SessionWindows /\ LiveBins' = LiveBins
         /\ Activity' = Activity /\ Sessionized' = Sessionized
<1>1. Packets' = Packets
  BY DEF Packets
<1>2. \A from, length : Within(from, length)' = Within(from, length)
  BY <1>1 DEF Within, Ascending
<1>3. ApiBins' = ApiBins
  BY <1>2 DEF ApiBins
<1>4. SessionWindows' = SessionWindows
  <2> DEFINE start == Second(Min(Range(capture)))
             end == Second(Max(Range(capture)))
             window == [i \in 1..WindowCount(start, end) |-> Within(start + (i - 1) * WindowSec, WindowSec)]
             B == {i \in DOMAIN window : window[i] # <<>>}
             busy == Ascending(B)
  <2>1. start' = start /\ end' = end
    OBVIOUS
  <2>2. window' = window
    <3> HIDE DEF start, end
    <3> QED BY <1>2, <2>1
  <2>3. B' = B
    <3> HIDE DEF window
    <3> QED BY <2>2
  <2>4. busy' = busy
    <3> HIDE DEF B
    <3> QED BY <2>3 DEF Ascending
  <2>5. SessionWindows = [k \in DOMAIN busy |-> window[busy[k]]]
    BY DEF SessionWindows
  <2>6. SessionWindows' = [k \in DOMAIN busy' |-> window'[busy'[k]]]
    BY DEF SessionWindows
  <2> HIDE DEF window, busy
  <2> QED BY <2>2, <2>4, <2>5, <2>6
<1>5. LiveBins' = LiveBins
  BY <1>1 DEF LiveBins, BinOf, Ascending
<1>6. Activity' = Activity
  BY <1>1 DEF Activity, InTime, Sooner
<1>7. Sessionized' = Sessionized
  <2> DEFINE order == ByConversation
             E == {h \in DOMAIN order : EndsSession(order, h)}
             ends == Ascending(E)
             From(i) == IF i = 1 THEN 1 ELSE ends[i - 1] + 1
  <2>1. \A p : Conversation(p)' = Conversation(p)
    BY DEF Conversation
  <2>2. \A p : Opener(p)' = Opener(p)
    BY <1>1, <2>1 DEF Opener
  <2>3. \A p, q : Grouped(p, q)' <=> Grouped(p, q)
    BY <2>2 DEF Grouped, Sooner
  <2>4. order' = order
    BY <1>1, <2>3 DEF ByConversation
  <2>5. E' = E
    <3> HIDE DEF order
    <3> QED BY <2>1, <2>4 DEF EndsSession, Silent
  <2>6. ends' = ends
    <3> HIDE DEF E
    <3> QED BY <2>5 DEF Ascending
  <2>7. Sessionized = [i \in DOMAIN ends |-> SubSeq(order, From(i), ends[i])]
    BY DEF Sessionized
  <2>8. Sessionized' = [i \in DOMAIN ends' |-> SubSeq(order', From(i)', ends'[i])]
    BY DEF Sessionized
  <2> HIDE DEF ends, order
  <2> QED BY <2>4, <2>6, <2>7, <2>8
<1> QED BY <1>3, <1>4, <1>5, <1>6, <1>7

LEMMA BinInvariance == CaptureSpec => []BinInv
<1>1. CaptureInit(Stored) => BinInv
  <2> SUFFICES ASSUME CaptureInit(Stored) PROVE BinInv
    OBVIOUS
  <2>1. capture \in Stored /\ answer = "none"
    BY DEF CaptureInit
  <2>2. capture \in Seq(Range(capture)) /\ Range(capture) \subseteq Nat
    BY <2>1, CaptureAssumption
  <2>3. capture \in Seq(Nat)
    <3>1. Len(capture) \in Nat /\ capture \in [1..Len(capture) -> Range(capture)]
      BY <2>2, LenProperties
    <3>2. capture \in [1..Len(capture) -> Nat]
      BY <2>2, <3>1
    <3> QED BY <3>1, <3>2, SeqDef
  <2> QED BY <2>1, <2>3 DEF BinInv
<1>2. BinInv /\ [CaptureNext]_captureVars => BinInv'
  <2> SUFFICES ASSUME BinInv, [CaptureNext]_captureVars PROVE BinInv'
    OBVIOUS
  <2>1. capture' = capture /\ course' = course /\ task' = task
    BY DEF CaptureNext, captureVars, PcapToSignals, ParsePcap, ToEntropySignals, SessionizeObservations,
           ActivitySeries, ProcessPcapStream, Submit, Completes, Answers
  <2>2. /\ ApiBins' = ApiBins /\ SessionWindows' = SessionWindows /\ LiveBins' = LiveBins
        /\ Activity' = Activity /\ Sessionized' = Sessionized
    BY <2>1, BinsStay
  <2>3. Padded(ApiBins)' = Padded(ApiBins) /\ capture' \in Seq(Nat)
    BY <2>1, <2>2 DEF Padded, BinInv
  <2>4. CASE PcapToSignals
    BY <2>1, <2>3, <2>4 DEF PcapToSignals, Answers, BinInv
  <2>5. CASE ParsePcap
    <3>1. /\ pieces' = IF capture = <<>> THEN <<>> ELSE SessionWindows
          /\ answer' = IF Len(pieces') < MinPoints THEN "ValueError" ELSE "signals"
          /\ task = "session"
      BY <2>5 DEF ParsePcap, Answers
    <3> QED BY <2>1, <2>2, <2>3, <3>1 DEF BinInv
  <2>6. CASE ToEntropySignals
    BY <2>1, <2>2, <2>3, <2>6 DEF ToEntropySignals, Answers, BinInv
  <2>7. CASE SessionizeObservations
    BY <2>1, <2>2, <2>3, <2>7 DEF SessionizeObservations, Answers, BinInv
  <2>8. CASE ActivitySeries
    BY <2>1, <2>2, <2>3, <2>8 DEF ActivitySeries, Answers, BinInv
  <2>9. CASE ProcessPcapStream
    BY <2>1, <2>3, <2>9 DEF ProcessPcapStream, Answers, BinInv
  <2>10. CASE Submit
    BY <2>1, <2>3, <2>10 DEF Submit, BinInv
  <2>11. CASE \E c \in pending : Completes(c)
    BY <2>1, <2>3, <2>11 DEF Completes, BinInv
  <2>12. CASE UNCHANGED captureVars
    BY <2>1, <2>2, <2>3, <2>12 DEF captureVars, BinInv
  <2> QED BY <2>4, <2>5, <2>6, <2>7, <2>8, <2>9, <2>10, <2>11, <2>12 DEF CaptureNext
<1> QED BY <1>1, <1>2, PTL DEF CaptureSpec

\* Every packet is in one bin, bins are as they lie in time and what can be missing is known;
\* two packets share a session exactly if they are of one conversation without a silence
\* between them, and a session's duration and upstream count agree with its packets.
THEOREM PacketsAreBinned == CaptureSpec => []PacketsBinnedOnce
<1>1. BinInv => PacketsBinnedOnce
  <2> SUFFICES ASSUME BinInv, answer = "signals" PROVE PacketsBinnedOnce
    BY DEF PacketsBinnedOnce
  <2> DEFINE Missed(p) == \/ task = "live" /\ capture[1] - capture[p] >= 2 * BinSec
                          \/ task = "session" /\ Second(capture[p]) = Second(Max(Range(capture)))
  <2>1. capture \in Seq(Nat)
    BY DEF BinInv
  <2>2. ASSUME task \in {"api", "session", "live", "activity"}
        PROVE  /\ \A p \in Packets : Cardinality(PieceOf(p)) <= 1
               /\ \A p \in Covered, q \in Covered :
                      capture[p] < capture[q] => Max(PieceOf(p)) <= Max(PieceOf(q))
               /\ task \in {"api", "session"} => Len(pieces) >= MinPoints
               /\ \A p \in Packets \ Covered : Missed(p)
    <3>1. CASE capture = <<>>
      <4>1. Packets = {} /\ Covered = {}
        <5>1. Packets = {}
          BY <3>1 DEF Packets
        <5>2. pieces = Blank \/ pieces = <<>>
          BY <2>2, <3>1 DEF BinInv
        <5>3. Covered = {}
          BY <5>2 DEF Covered, Blank, Range
        <5> QED BY <5>1, <5>3
      <4>2. MinPoints \in Nat /\ MinPoints > 0 /\ MinPoints <= 20
        BY CaptureAssumption
      <4>3. task = "api" => Len(pieces) >= MinPoints
        <5> SUFFICES ASSUME task = "api" PROVE Len(pieces) >= MinPoints
          OBVIOUS
        <5>1. pieces = Blank
          BY <3>1 DEF BinInv
        <5>2. Len(Blank) = 20
          <6>1. Blank \in Seq({<<>>}) /\ Len(Blank) = 20
            BY IsASeq DEF Blank
          <6> QED BY <6>1
        <5> QED BY <4>2, <5>1, <5>2
      <4>4. task # "session"
        <5> SUFFICES ASSUME task = "session" PROVE FALSE
          OBVIOUS
        <5>1. pieces = <<>> /\ ~ (Len(pieces) < MinPoints)
          BY <3>1 DEF BinInv
        <5>2. Len(pieces) = 0
          BY <5>1
        <5> QED BY <4>2, <5>1, <5>2
      <4> QED BY <4>1, <4>3, <4>4
    <3>2. CASE capture # <<>>
      <4>1. \E n \in Nat : \E at : /\ Binned(at, n)
                                   /\ \A p \in Packets : at[p] \in 1..n \/ Missed(p)
        <5>1. CASE task = "api"
          <6>1. pieces = Padded(ApiBins)
            BY <3>2, <5>1 DEF BinInv
          <6>2. \E n \in Nat : \E at : Binned(at, n) /\ \A p \in Packets : at[p] \in 1..n
            BY <2>1, <3>2, <6>1, ApiBinned
          <6> QED BY <6>2
        <5>2. CASE task = "session"
          <6>1. pieces = SessionWindows
            BY <3>2, <5>2 DEF BinInv
          <6>2. \E n \in Nat : \E at :
                   Binned(at, n) /\ \A p \in Packets : \/ at[p] \in 1..n
                                                       \/ Second(capture[p]) = Second(Max(Range(capture)))
            BY <2>1, <3>2, <6>1, WindowsBinned
          <6> QED BY <5>2, <6>2
        <5>3. CASE task = "live"
          <6>1. pieces = LiveBins
            BY <3>2, <5>3 DEF BinInv
          <6>2. \E n \in Nat : \E at :
                   Binned(at, n) /\ \A p \in Packets : at[p] \in 1..n \/ capture[1] - capture[p] >= 2 * BinSec
            BY <2>1, <3>2, <6>1, LiveBinned
          <6> QED BY <5>3, <6>2
        <5>4. CASE task = "activity"
          <6>1. pieces = Activity
            BY <3>2, <5>4 DEF BinInv
          <6>2. \E n \in Nat : \E at : Binned(at, n) /\ \A p \in Packets : at[p] \in 1..n
            BY <2>1, <3>2, <6>1, ActivityBinned
          <6> QED BY <6>2
        <5> QED BY <2>2, <5>1, <5>2, <5>3, <5>4
      <4> HIDE DEF Missed
      <4>2. PICK n \in Nat : \E at : /\ Binned(at, n)
                                     /\ \A p \in Packets : at[p] \in 1..n \/ Missed(p)
        BY <4>1
      <4>3. PICK at : Binned(at, n) /\ \A p \in Packets : at[p] \in 1..n \/ Missed(p)
        BY <4>2
      <4>4. /\ \A p \in Packets : Cardinality(PieceOf(p)) <= 1
            /\ \A p \in Covered, q \in Covered :
                   capture[p] < capture[q] => Max(PieceOf(p)) <= Max(PieceOf(q))
            /\ Covered = {p \in Packets : at[p] \in 1..n}
        BY <2>1, <4>3, InBins
      <4>5. task = "api" => Len(pieces) >= MinPoints
        <5> SUFFICES ASSUME task = "api" PROVE Len(pieces) >= MinPoints
          OBVIOUS
        <5>1. pieces = Padded(ApiBins)
          BY <3>2 DEF BinInv
        <5> QED BY <2>1, <3>2, <5>1, ApiBinned
      <4>6. task = "session" => Len(pieces) >= MinPoints
        <5> SUFFICES ASSUME task = "session" PROVE Len(pieces) >= MinPoints
          OBVIOUS
        <5>1. pieces = SessionWindows /\ ~ (Len(pieces) < MinPoints)
          BY <3>2 DEF BinInv
        <5>2. DOMAIN pieces = 1..n /\ n \in Nat
          BY <4>3 DEF Binned
        <5>3. Len(pieces) \in Nat
          <6>1. SessionWindows = [k \in DOMAIN SessionWindows |-> SessionWindows[k]]
            BY DEF SessionWindows
          <6>2. pieces = [k \in 1..n |-> pieces[k]]
            BY <5>1, <5>2, <6>1
          <6> QED BY <5>2, <6>2, IsASeq
        <5> QED BY <5>1, <5>3, CaptureAssumption
      <4> QED BY <4>3, <4>4, <4>5, <4>6
    <3> QED BY <3>1, <3>2
  <2>3. ASSUME task = "sessions"
        PROVE  /\ \A p \in Packets : Cardinality(PieceOf(p)) = 1
               /\ \A p \in Packets : \A q \in {r \in Packets : capture[p] <= capture[r]} :
                      PieceOf(p) = PieceOf(q) <=>
                         /\ Conversation(p) = Conversation(q)
                         /\ \A t \in 0..Max(Range(capture)) :
                               capture[p] <= t /\ t + Gap < capture[q] =>
                                   \E r \in Packets : /\ Conversation(r) = Conversation(p)
                                                      /\ t < capture[r] /\ capture[r] <= t + Gap
               /\ \A i \in DOMAIN pieces :
                      LET f == Features(pieces[i])
                      IN  f.duration <= (f.packet_count - 1) * Gap /\ f.upstream \in 1..f.packet_count
    <3> DEFINE order == ByConversation
    <3>1. pieces = Sessionized /\ Laid(order)
      BY <2>1, <2>3, ConversationsLaid DEF BinInv
    <3> HIDE DEF order
    <3>2. \E slot, m : Slotted(order, slot, m)
      BY <3>1, SessionsSlotted DEF order
    <3>3. PICK slot, m : Slotted(order, slot, m)
      BY <3>2
    <3>4. ASSUME NEW i \in DOMAIN pieces
          PROVE  LET f == Features(pieces[i])
                 IN  f.duration <= (f.packet_count - 1) * Gap /\ f.upstream \in 1..f.packet_count
      <4>1. PICK a, length : RunOf(pieces[i], order, a, length)
        BY <3>3 DEF Slotted
      <4> DEFINE piece == pieces[i]
      <4>2. RunOf(piece, order, a, length)
        BY <4>1
      <4> HIDE DEF piece
      <4>3. LET f == Features(piece)
            IN  f.duration <= (f.packet_count - 1) * Gap /\ f.upstream \in 1..f.packet_count
        BY <3>1, <4>2, FeaturesHold
      <4> QED BY <4>3 DEF piece
    <3> QED BY <2>1, <3>1, <3>3, <3>4, SessionsShared
  <2> QED BY <2>2, <2>3 DEF PacketsBinnedOnce
<1> QED BY <1>1, BinInvariance, PTL

-----------------------------------------------------------------------------
(***************************************************************************)
(* Correlation: the selections made around anchors are the clusters there  *)
(* are, whatever the order of arrival.                                     *)
(***************************************************************************)
\* Observations of finitely many events, one of each.
OneOfEach(U) == /\ IsFiniteSet(U)
                /\ \A o \in U : o.at \in Int /\ o.id \in Int
                /\ \A o, p \in U : o.id = p.id => o = p

SeenIn(g) == {g[i] : i \in {k \in DOMAIN g : ~ Repeats(g, k)}}

LEMMA UniqueHolds ==
  ASSUME NEW g \in Offered
  PROVE  OneOfEach(SeenIn(g)) /\ Range(Unique(g)) = SeenIn(g)
<1> DEFINE K == {k \in DOMAIN g : ~ Repeats(g, k)}
           kept == Ascending(K)
           n == Len(g)
<1>1. /\ n \in Nat /\ DOMAIN g = 1..n
      /\ \A i \in 1..n : g[i].at \in Int /\ g[i].id \in Int
  <2>1. g \in Seq(Range(g)) /\ \A i \in DOMAIN g : g[i].at \in Int /\ g[i].id \in Int
    BY CorrelationAssumption
  <2> QED BY <2>1, LenProperties
<1>2. K \in SUBSET (1..n) /\ K \in SUBSET Int
  BY <1>1
<1>3. \A i \in 1..n : i \in K <=> \A j \in 1..(i - 1) : g[j].id # g[i].id
  BY <1>1 DEF Repeats
<1>4. SeenIn(g) = {g[i] : i \in K}
  BY DEF SeenIn
<1>5. Unique(g) = [k \in DOMAIN kept |-> g[kept[k]]]
  BY DEF Unique
<1> HIDE DEF K, n
<1>6. IsFiniteSet(K)
  <2>1. IsFiniteSet(1..n)
    BY <1>1, LengthCounts
  <2> QED BY <1>2, <2>1, FS_Subset
<1>7. /\ Cardinality(K) \in Nat /\ kept \in [1..Cardinality(K) -> K]
      /\ \A i \in K : \E k \in 1..Cardinality(K) : kept[k] = i
  BY <1>2, <1>6, StoredOrder
<1> HIDE DEF kept
<1>8. Range(Unique(g)) = SeenIn(g)
  <2>1. Range(Unique(g)) = {g[kept[k]] : k \in 1..Cardinality(K)}
    BY <1>5, <1>7 DEF Range
  <2> QED BY <1>4, <1>7, <2>1
<1>9. IsFiniteSet(SeenIn(g))
  <2> DEFINE of == [i \in K |-> g[i]]
  <2>1. of \in Surjection(K, SeenIn(g))
    BY <1>4 DEF Surjection
  <2> HIDE DEF of
  <2> QED BY <1>6, <2>1, FS_Surjection
<1>10. \A o \in SeenIn(g) : o.at \in Int /\ o.id \in Int
  BY <1>1, <1>2, <1>4
<1>11. ASSUME NEW o \in SeenIn(g), NEW p \in SeenIn(g), o.id = p.id PROVE o = p
  <2>1. PICK i \in K : o = g[i]
    BY <1>4
  <2>2. PICK j \in K : p = g[j]
    BY <1>4
  <2>3. i \in 1..n /\ j \in 1..n /\ g[i].id = g[j].id
    BY <1>2, <1>11, <2>1, <2>2
  <2>4. ~ (i < j)
    <3>1. i < j => i \in 1..(j - 1)
      BY <1>1, <2>3
    <3> QED BY <1>3, <2>3, <3>1
  <2>5. ~ (j < i)
    <3>1. j < i => j \in 1..(i - 1)
      BY <1>1, <2>3
    <3> QED BY <1>3, <2>3, <3>1
  <2> QED BY <1>1, <2>1, <2>2, <2>3, <2>4, <2>5
<1> QED BY <1>8, <1>9, <1>10, <1>11 DEF OneOfEach

LEMMA OverTimeHolds ==
  ASSUME NEW U, OneOfEach(U)
  PROVE  /\ DOMAIN OverTime(U) = 1..Cardinality(U) /\ Cardinality(U) \in Nat
         /\ \A k \in 1..Cardinality(U) : OverTime(U)[k] \in U
         /\ \A o \in U : \E k \in 1..Cardinality(U) : OverTime(U)[k] = o
         /\ Range(OverTime(U)) = U
<1> DEFINE R == {pair \in U \X U : Earlier(pair[1], pair[2])}
           order == Arranged(U, R)
<1>1. OverTime(U) = order
  BY DEF OverTime
<1>2. \A o, p \in U : <<o, p>> \in R <=> Earlier(o, p)
  OBVIOUS
<1> HIDE DEF R
<1>3. /\ \A o, p \in U : o # p => Earlier(o, p) \/ Earlier(p, o)
      /\ \A o, p \in U : Earlier(o, p) => ~ Earlier(p, o) /\ o # p
      /\ \A o, p, q \in U : Earlier(o, p) /\ Earlier(p, q) => Earlier(o, q)
  BY DEF OneOfEach, Earlier
<1>4. StrictOrder(R, U)
  BY <1>2, <1>3 DEF StrictOrder
<1>5. IsFiniteSet(U)
  BY DEF OneOfEach
<1>6. /\ Cardinality(U) \in Nat /\ order \in [1..Cardinality(U) -> U]
      /\ \A i \in U : \E k \in 1..Cardinality(U) : order[k] = i
  BY <1>4, <1>5, ArrangedInOrder
<1> HIDE DEF order
<1>7. Range(order) = U
  BY <1>6 DEF Range
<1> QED BY <1>1, <1>6, <1>7

\* Distances are numbers.
LEMMA Distances ==
  ASSUME NEW U, OneOfEach(U), NEW o \in U, NEW p \in U
  PROVE  Apart(o, p) \in Nat /\ Apart(o, o) = 0
BY DEF OneOfEach, Apart

\* Every domain that has a candidate has a nearest one.
Foremost(o, near, anchor) ==
  o \in near /\ \A p \in near \ {o} : p.domain = o.domain => Closer(o, p, anchor)

LEMMA SomeForemost ==
  ASSUME NEW U, OneOfEach(U), NEW anchor \in U, NEW near \in SUBSET U, NEW p \in near
  PROVE  \E o \in near : o.domain = p.domain /\ Foremost(o, near, anchor)
<1> DEFINE Peers == {q \in near : q.domain = p.domain}
           far == {Apart(q, anchor) : q \in Peers}
<1>1. \A q \in U : Apart(q, anchor) \in Nat /\ q.id \in Int
  BY Distances DEF OneOfEach
<1>2. far \in SUBSET Nat /\ far # {}
  BY <1>1
<1>3. PICK d \in far : \A e \in far : d <= e
  <2> HIDE DEF far
  <2> QED BY <1>2, LeastElement
<1> DEFINE Closest == {q \in Peers : Apart(q, anchor) = d}
<1>4. PICK c \in Closest : TRUE
  BY <1>3
<1>5. \E o \in Closest : \A q \in Closest : o.id <= q.id
  <2>1. IsFiniteSet(Closest)
    BY FS_Subset DEF OneOfEach
  <2>2. \A q \in Closest : q.id \in Int /\ q \in U
    BY <1>1
  <2>3. OneOfEach(Closest) /\ Closest # {}
    BY <1>4, <2>1, <2>2 DEF OneOfEach
  <2> DEFINE R == {pair \in Closest \X Closest : pair[1].id < pair[2].id}
             order == Arranged(Closest, R)
             m == Cardinality(Closest)
  <2>4. \A x, y \in Closest : <<x, y>> \in R <=> x.id < y.id
    OBVIOUS
  <2> HIDE DEF R, Closest
  <2>5. StrictOrder(R, Closest)
    <3>1. \A x, y \in Closest : x # y => x.id < y.id \/ y.id < x.id
      BY <2>2, <2>3 DEF OneOfEach
    <3> QED BY <2>2, <2>4, <3>1 DEF StrictOrder
  <2>6. /\ m \in Nat /\ order \in [1..m -> Closest]
        /\ \A x \in Closest : \E k \in 1..m : order[k] = x
        /\ \A k, l \in 1..m : k < l => <<order[k], order[l]>> \in R
    BY <2>1, <2>5, ArrangedInOrder
  <2> HIDE DEF order, m
  <2>7. 1 \in 1..m
    BY <2>3, <2>6
  <2>8. \A q \in Closest : order[1].id <= q.id
    <3> TAKE q \in Closest
    <3>1. PICK k \in 1..m : order[k] = q
      BY <2>6
    <3>2. order[1] \in Closest /\ order[1].id \in Int /\ q.id \in Int
      BY <2>2, <2>6, <2>7
    <3>3. k # 1 => order[1].id < q.id
      <4> SUFFICES ASSUME k # 1 PROVE order[1].id < q.id
        OBVIOUS
      <4>1. 1 < k
        BY <2>6
      <4>2. <<order[1], order[k]>> \in R
        BY <2>6, <2>7, <4>1
      <4> QED BY <2>4, <3>1, <3>2, <4>2
    <3> QED BY <3>1, <3>2, <3>3
  <2> QED BY <2>6, <2>7, <2>8
<1>6. PICK o \in Closest : \A q \in Closest : o.id <= q.id
  BY <1>5
<1>7. o \in near /\ o.domain = p.domain /\ Apart(o, anchor) = d /\ o \in U
  BY <1>6
<1>8. ASSUME NEW q \in near, q # o, q.domain = o.domain PROVE Closer(o, q, anchor)
  <2>1. q \in Peers /\ q \in U /\ d <= Apart(q, anchor)
    BY <1>3, <1>7, <1>8
  <2>2. q.id # o.id
    BY <1>7, <1>8, <2>1 DEF OneOfEach
  <2>3. Apart(q, anchor) = d => o.id <= q.id
    BY <1>6, <2>1
  <2>4. d \in Nat /\ Apart(q, anchor) \in Nat /\ o.id \in Int /\ q.id \in Int
    BY <1>1, <1>7, <2>1
  <2> QED BY <1>7, <2>1, <2>2, <2>3, <2>4 DEF Closer
<1> QED BY <1>7, <1>8 DEF Foremost

\* What is selected around an anchor is a cluster.
Around(anchor, unique) == EffectiveScore(anchor) >= MinSignalScore /\ anchor \in Range(unique)

LEMMA SelectionIsCluster ==
  ASSUME NEW unique, OneOfEach(Range(unique)), NEW a, Around(a, unique)
  PROVE  /\ Nearest(a, unique) \in SUBSET Range(unique) /\ Nearest(a, unique) # {}
         /\ IsCluster(Nearest(a, unique), Range(unique))
<1> DEFINE U == Range(unique)
           near == Corroborating(a, unique)
           selected == Nearest(a, unique)
<1>1. a \in U /\ EffectiveScore(a) >= MinSignalScore
  BY DEF Around
<1>2. /\ near \in SUBSET U
      /\ \A o \in U : o \in near <=> /\ o.id # a.id /\ o.tenant = a.tenant /\ o.domain # a.domain
                                    /\ EffectiveScore(o) >= MinSignalScore /\ Apart(o, a) <= Window
  BY DEF Corroborating
<1>3. selected = {a} \cup {o \in near : Foremost(o, near, a)}
  BY DEF Nearest, Foremost
<1>4. \A o \in U : Apart(o, a) \in Nat /\ o.id \in Int /\ Apart(a, a) = 0
  BY <1>1, Distances DEF OneOfEach
<1> HIDE DEF U, near, selected
<1>5. selected \in SUBSET U /\ a \in selected
  BY <1>1, <1>2, <1>3
<1>6. ASSUME NEW o \in selected
      PROVE  EffectiveScore(o) >= MinSignalScore /\ Apart(o, a) <= Window /\ o.tenant = a.tenant
  <2>1. CASE o = a
    <3>1. 0 <= Window
      BY CorrelationAssumption DEF CorrelationPolicy
    <3> QED BY <1>1, <1>4, <2>1, <3>1
  <2>2. CASE o # a
    <3>1. o \in near /\ o \in U
      BY <1>2, <1>3, <1>6, <2>2
    <3> QED BY <1>2, <3>1
  <2> QED BY <2>1, <2>2
<1>7. ASSUME NEW o \in selected, NEW p \in selected, o.domain = p.domain PROVE o = p
  <2>1. CASE o = a \/ p = a
    BY <1>2, <1>3, <1>7, <2>1
  <2>2. CASE o # a /\ p # a
    <3>1. o \in near /\ p \in near /\ Foremost(o, near, a) /\ Foremost(p, near, a) /\ o \in U /\ p \in U
      BY <1>2, <1>3, <2>2
    <3>2. o # p => Closer(o, p, a) /\ Closer(p, o, a)
      BY <1>7, <3>1 DEF Foremost
    <3> QED BY <1>4, <3>1, <3>2 DEF Closer
  <2> QED BY <2>1, <2>2
<1>8. ASSUME NEW p \in U, p.tenant = a.tenant, EffectiveScore(p) >= MinSignalScore, Apart(p, a) <= Window
      PROVE  \E o \in selected :
                /\ o.domain = p.domain
                /\ \/ o = a \/ o = p \/ Apart(o, a) < Apart(p, a)
                   \/ Apart(o, a) = Apart(p, a) /\ o.id < p.id
  <2>1. CASE p.domain = a.domain
    BY <1>5, <2>1
  <2>2. CASE p.domain # a.domain
    <3>1. p.id # a.id
      BY <1>1, <1>8, <2>2 DEF OneOfEach, U
    <3>2. p \in near
      BY <1>2, <1>8, <2>2, <3>1
    <3>3. PICK o \in near : o.domain = p.domain /\ Foremost(o, near, a)
      BY <1>1, <1>2, <3>2, SomeForemost DEF U
    <3>4. o \in selected
      BY <1>3, <3>3
    <3>5. o # p => Closer(o, p, a)
      BY <3>2, <3>3 DEF Foremost
    <3> QED BY <3>3, <3>4, <3>5 DEF Closer
  <2> QED BY <2>1, <2>2
<1>9. IsCluster(selected, U)
  BY <1>5, <1>6, <1>7, <1>8 DEF IsCluster
<1> QED BY <1>5, <1>9 DEF U, selected

\* And every cluster is selected around one of its members.
LEMMA ClusterIsSelection ==
  ASSUME NEW unique, OneOfEach(Range(unique)), NEW s \in SUBSET Range(unique),
         IsCluster(s, Range(unique))
  PROVE  \E a : Around(a, unique) /\ s = Nearest(a, unique)
<1> DEFINE U == Range(unique)
<1>1. PICK a \in s :
        /\ \A o \in s : EffectiveScore(o) >= MinSignalScore /\ Apart(o, a) <= Window /\ o.tenant = a.tenant
        /\ \A o \in s, p \in s : o.domain = p.domain => o = p
        /\ \A p \in U : /\ p.tenant = a.tenant /\ EffectiveScore(p) >= MinSignalScore
                        /\ Apart(p, a) <= Window
                        => \E o \in s :
                              o.domain = p.domain
                              /\ \/ o = a \/ o = p \/ Apart(o, a) < Apart(p, a)
                                 \/ Apart(o, a) = Apart(p, a) /\ o.id < p.id
  BY DEF IsCluster
<1> DEFINE near == Corroborating(a, unique)
           selected == Nearest(a, unique)
<1>2. /\ near \in SUBSET U
      /\ \A o \in U : o \in near <=> /\ o.id # a.id /\ o.tenant = a.tenant /\ o.domain # a.domain
                                    /\ EffectiveScore(o) >= MinSignalScore /\ Apart(o, a) <= Window
  BY DEF Corroborating
<1>3. selected = {a} \cup {o \in near : Foremost(o, near, a)}
  BY DEF Nearest, Foremost
<1>4. s \in SUBSET U /\ a \in U /\ \A o \in U : Apart(o, a) \in Nat /\ o.id \in Int
  BY Distances DEF OneOfEach
<1> HIDE DEF U, near, selected
<1>5. \A o \in s : o # a => o \in near
  <2> SUFFICES ASSUME NEW o \in s, o # a PROVE o \in near
    OBVIOUS
  <2>1. o \in U /\ a \in U /\ o.domain # a.domain /\ o.id # a.id
    BY <1>1, <1>4 DEF OneOfEach, U
  <2> QED BY <1>1, <1>2, <2>1
\* In its domain, what the cluster has is nearest.
<1>6. ASSUME NEW o \in s, o # a, NEW p \in near, p # o, p.domain = o.domain PROVE Closer(o, p, a)
  <2>1. p \in U /\ p.tenant = a.tenant /\ EffectiveScore(p) >= MinSignalScore /\ Apart(p, a) <= Window
        /\ p.domain # a.domain
    BY <1>2
  <2>2. PICK q \in s : /\ q.domain = p.domain
                      /\ \/ q = a \/ q = p \/ Apart(q, a) < Apart(p, a)
                         \/ Apart(q, a) = Apart(p, a) /\ q.id < p.id
    BY <1>1, <2>1
  <2>3. q = o
    BY <1>1, <1>6, <2>2
  <2> QED BY <1>6, <2>2, <2>3 DEF Closer
<1>7. s \subseteq selected
  BY <1>3, <1>5, <1>6 DEF Foremost
<1>8. ASSUME NEW o \in selected PROVE o \in s
  <2>1. CASE o = a
    BY <2>1
  <2>2. CASE o # a
    <3>1. o \in near /\ Foremost(o, near, a) /\ o \in U
      BY <1>2, <1>3, <1>8, <2>2
    <3>2. o.tenant = a.tenant /\ EffectiveScore(o) >= MinSignalScore /\ Apart(o, a) <= Window
          /\ o.domain # a.domain
      BY <1>2, <3>1
    <3>3. PICK q \in s : /\ q.domain = o.domain
                        /\ \/ q = a \/ q = o \/ Apart(q, a) < Apart(o, a)
                           \/ Apart(q, a) = Apart(o, a) /\ q.id < o.id
      BY <1>1, <3>1, <3>2
    <3>4. q # a /\ q \in near /\ q \in U
      BY <1>2, <1>5, <3>2, <3>3
    <3>5. q # o => Closer(o, q, a) /\ Closer(q, o, a)
      BY <3>1, <3>3, <3>4 DEF Foremost, Closer
    <3>6. q = o
      BY <1>4, <3>1, <3>4, <3>5 DEF Closer
    <3> QED BY <3>6
  <2> QED BY <2>1, <2>2
<1>9. Around(a, unique)
  BY <1>1, <1>4 DEF Around, U
<1> QED BY <1>7, <1>8, <1>9 DEF selected

\* The detections of a call are of the selections that are emitted, each of them once or more.
LEMMA CorrelateHolds ==
  ASSUME NEW g \in Offered, NEW r
  PROVE  {Range(d.observations) : d \in Range(Correlate(g, r))}
            = {s \in SUBSET SeenIn(g) : s # {} /\ IsCluster(s, SeenIn(g)) /\ Emits(s, r)}
<1> DEFINE unique == Unique(g)
           U == SeenIn(g)
           order == OverTime(Range(unique))
           n == Cardinality(U)
           Selected(k) == Nearest(order[k], unique)
           Reports(k) == EffectiveScore(order[k]) >= MinSignalScore /\ Emits(Selected(k), r)
           Again(k) == \E j \in 1..(k - 1) : Selected(j) = Selected(k) /\ Reports(j)
           K == {k \in DOMAIN order : Reports(k) /\ ~ Again(k)}
           anchors == Ascending(K)
<1>1. OneOfEach(U) /\ Range(unique) = U
  BY UniqueHolds
<1>2. Correlate(g, r) = [i \in DOMAIN anchors |-> CorrelatedDetection(Selected(anchors[i]), r, g)]
  BY DEF Correlate
<1> HIDE DEF unique, U
<1>3. /\ DOMAIN order = 1..n /\ n \in Nat
      /\ \A k \in 1..n : order[k] \in U
      /\ \A o \in U : \E k \in 1..n : order[k] = o
  BY <1>1, OverTimeHolds
<1> HIDE DEF order, n, Selected, Reports
<1>4. K \in SUBSET (1..n) /\ K \in SUBSET Int /\ IsFiniteSet(K)
  <2>1. K \in SUBSET (1..n)
    BY <1>3
  <2>2. IsFiniteSet(1..n)
    BY <1>3, LengthCounts
  <2> HIDE DEF K
  <2>3. IsFiniteSet(K)
    BY <2>1, <2>2, FS_Subset
  <2> QED BY <2>1, <2>3
<1>5. \A k \in 1..n : k \in K <=> Reports(k) /\ ~ Again(k)
  BY <1>3
<1> HIDE DEF K
<1>6. /\ Cardinality(K) \in Nat /\ anchors \in [1..Cardinality(K) -> K]
      /\ \A i \in K : \E k \in 1..Cardinality(K) : anchors[k] = i
  BY <1>4, StoredOrder
<1> HIDE DEF anchors
<1>7. Range(Correlate(g, r)) = {CorrelatedDetection(Selected(k), r, g) : k \in K}
  <2>1. Range(Correlate(g, r)) = {CorrelatedDetection(Selected(anchors[i]), r, g) : i \in 1..Cardinality(K)}
    BY <1>2, <1>6 DEF Range
  <2> QED BY <1>6, <2>1
<1>8. ASSUME NEW k \in 1..n, EffectiveScore(order[k]) >= MinSignalScore
      PROVE  /\ Selected(k) \in SUBSET U /\ Selected(k) # {} /\ IsCluster(Selected(k), U)
             /\ Range(CorrelatedDetection(Selected(k), r, g).observations) = Selected(k)
  <2>1. Around(order[k], unique)
    BY <1>1, <1>3, <1>8 DEF Around
  <2>2. Selected(k) \in SUBSET U /\ Selected(k) # {} /\ IsCluster(Selected(k), U)
    BY <1>1, <2>1, SelectionIsCluster DEF Selected
  <2>3. OneOfEach(Selected(k))
    BY <1>1, <2>2, FS_Subset DEF OneOfEach
  <2>4. CorrelatedDetection(Selected(k), r, g).observations = OverTime(Selected(k))
    BY DEF CorrelatedDetection
  <2>5. Range(OverTime(Selected(k))) = Selected(k)
    BY <2>3, OverTimeHolds
  <2> QED BY <2>2, <2>4, <2>5
<1>9. {Range(d.observations) : d \in Range(Correlate(g, r))} = {Selected(k) : k \in K}
  <2>1. \A k \in K : Range(CorrelatedDetection(Selected(k), r, g).observations) = Selected(k)
    BY <1>4, <1>5, <1>8 DEF Reports
  <2> QED BY <1>7, <2>1
\* A selection that is emitted is emitted around the first anchor that has it.
<1>10. ASSUME NEW k \in 1..n, Reports(k) PROVE \E j \in K : Selected(j) = Selected(k)
  <2> DEFINE Same == {j \in 1..n : Reports(j) /\ Selected(j) = Selected(k)}
  <2>1. Same \in SUBSET Nat /\ k \in Same
    BY <1>10
  <2>2. PICK j \in Same : \A i \in Same : j <= i
    BY <2>1, LeastElement
  <2>3. j \in 1..n /\ Reports(j) /\ Selected(j) = Selected(k)
    BY <2>2
  <2>4. ASSUME NEW i \in 1..(j - 1), Selected(i) = Selected(j), Reports(i) PROVE FALSE
    <3>1. i \in 1..n /\ ~ (j <= i)
      BY <1>3, <2>3
    <3>2. i \in Same
      BY <2>3, <2>4, <3>1
    <3> QED BY <2>2, <3>1, <3>2
  <2>5. j \in K
    BY <1>5, <2>3, <2>4
  <2> QED BY <2>3, <2>5
<1>11. \A k \in K : /\ Selected(k) \in SUBSET U /\ Selected(k) # {}
                    /\ IsCluster(Selected(k), U) /\ Emits(Selected(k), r)
  BY <1>4, <1>5, <1>8 DEF Reports
<1>12. ASSUME NEW s \in SUBSET U, IsCluster(s, U), Emits(s, r) PROVE \E k \in K : s = Selected(k)
  <2>1. PICK a : Around(a, unique) /\ s = Nearest(a, unique)
    BY <1>1, <1>12, ClusterIsSelection
  <2>2. PICK k \in 1..n : order[k] = a
    BY <1>1, <1>3, <2>1 DEF Around
  <2>3. Selected(k) = s /\ Reports(k)
    BY <1>12, <2>1, <2>2 DEF Selected, Reports, Around
  <2> QED BY <1>10, <2>3
<1> QED BY <1>9, <1>11, <1>12 DEF U

\* What was offered stays as it was, and what is returned is its correlation.
CorrInv == /\ given \in Offered
           /\ outcome = "returned" => found = Correlate(given, required)

LEMMA CorrInvHolds == CorrelationSpec => []CorrInv
<1>1. CorrelationInit(Offered, Demands) => CorrInv
  BY DEF CorrelationInit, CorrInv
<1>2. CorrInv /\ [CallCorrelate]_correlationVars => CorrInv'
  <2> SUFFICES ASSUME CorrInv, [CallCorrelate]_correlationVars PROVE CorrInv'
    OBVIOUS
  <2>1. given' = given /\ required' = required
    BY DEF CallCorrelate, correlationVars
  <2>2. Correlate(given, required)' = Correlate(given', required')
    OBVIOUS
  <2>3. outcome' = "returned" => found' = Correlate(given, required)
    BY DEF CallCorrelate, correlationVars, CorrInv
  <2> QED BY <2>1, <2>2, <2>3 DEF CorrInv
<1> QED BY <1>1, <1>2, PTL DEF CorrelationSpec

\* What is seen says one thing of every event that was offered.
LEMMA SeenIsReading ==
  ASSUME NEW g \in Offered
  PROVE  SeenIn(g) \in SUBSET Range(g) /\ IsReading(SeenIn(g), Range(g))
<1>1. OneOfEach(SeenIn(g))
  BY UniqueHolds
<1>2. g \in Seq(Range(g)) /\ DOMAIN g = 1..Len(g) /\ Len(g) \in Nat
  BY CorrelationAssumption
<1>3. ASSUME NEW o \in Range(g) PROVE \E p \in SeenIn(g) : p.id = o.id
  <2>1. PICK k \in DOMAIN g : g[k] = o
    BY DEF Range
  <2> DEFINE Of == {j \in DOMAIN g : g[j].id = o.id}
  <2>2. k \in Of /\ Of \in SUBSET Nat
    BY <1>2, <2>1
  <2>3. PICK i \in Of : \A j \in Of : i <= j
    BY <2>2, LeastElement
  <2>4. i \in DOMAIN g /\ g[i].id = o.id
    OBVIOUS
  <2>5. ASSUME NEW j \in 1..(i - 1), g[j].id = g[i].id PROVE FALSE
    <3>1. j \in DOMAIN g /\ ~ (i <= j)
      BY <1>2, <2>4
    <3> QED BY <2>3, <2>4, <2>5, <3>1
  <2>6. g[i] \in SeenIn(g)
    BY <2>4, <2>5 DEF SeenIn, Repeats
  <2> QED BY <2>4, <2>6
<1>4. SeenIn(g) \in SUBSET Range(g)
  BY DEF SeenIn, Range
<1>5. \A o, p \in SeenIn(g) : o.id = p.id => o = p
  BY <1>1 DEF OneOfEach
<1> QED BY <1>3, <1>4, <1>5 DEF IsReading

\* The detections a call returns are the clusters of one reading of what was
\* offered: one report of every event, whatever the order of arrival and the
\* repetitions (correlate in core/correlation.py), of any number of observations and
\* for any window, threshold and demand.
THEOREM DetectionsFollowEvents == CorrelationSpec => []ArrivalDoesNotMatter
<1>1. CorrInv => ArrivalDoesNotMatter
  <2> SUFFICES ASSUME CorrInv, outcome = "returned" PROVE ArrivalDoesNotMatter
    BY DEF ArrivalDoesNotMatter
  <2>1. found = Correlate(given, required) /\ given \in Offered
    BY DEF CorrInv
  <2>2. {Range(d.observations) : d \in Range(Correlate(given, required))} = Clusters(SeenIn(given))
    BY <2>1, CorrelateHolds DEF Clusters
  <2>3. SeenIn(given) \in SUBSET Range(given) /\ IsReading(SeenIn(given), Range(given))
    BY <2>1, SeenIsReading
  <2> QED BY <2>1, <2>2, <2>3 DEF ArrivalDoesNotMatter
<1> QED BY <1>1, CorrInvHolds, PTL
=============================================================================
