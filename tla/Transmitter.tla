------------------------------ MODULE Transmitter ----------------------------
(***************************************************************************)
(* The token bucket that paces the offline transport: BandwidthPolicy and  *)
(* BandwidthAwareTransmitter of core/offline_transport.py.  A record is    *)
(* anything with a field size, the length of its payload.  The clock counts*)
(* ticks, TicksPerSecond to a second, because allowance() truncates.       *)
(***************************************************************************)
EXTENDS OfflinePolicy, Sequences, FiniteSetsExt, SequencesExt

VARIABLES
  tokens,     \* _tokens
  last,       \* _last
  spent       \* history: bytes selected so far

bucketVars == <<tokens, last, spent>>

BucketTypeOK == /\ tokens \in 0..BurstBytes
                /\ now \in 0..TimeBound /\ last \in 0..TimeBound
                /\ spent \in Nat

BucketInit == tokens = BurstBytes /\ last = 0 /\ now = 0 /\ spent = 0

-----------------------------------------------------------------------------
\* Mutant: the refill is rounded up.
AllowanceRoundedUp ==
  Min({BurstBytes, tokens + ((now - last) * BytesPerSecond + TicksPerSecond - 1)
                            \div TicksPerSecond})

\* allowance(now - _last, _tokens)
Allowance ==
  Min({BurstBytes, tokens + ((now - last) * BytesPerSecond) \div TicksPerSecond})

\* cap
Cap(budget) == Min({MaxBatchBytes, budget})

\* Before the loop of select.
NothingSelected == [selected |-> <<>>, used |-> 0, open |-> TRUE]

\* Mutant: a record that does not fit is passed over, wherever it stands.
ConsiderAny(a, r, cap) ==
  IF a.used + r.size > cap THEN a
  ELSE [a EXCEPT !.selected = Append(a.selected, r), !.used = a.used + r.size]

(***************************************************************************)
(* One turn of the loop: records too long for the budget are passed over   *)
(* until one is selected; from then on the first that does not fit ends it.*)
(***************************************************************************)
Consider(a, r, cap) ==
  IF ~ a.open \/ (r.size > cap /\ a.selected = <<>>) THEN a
  ELSE IF a.used + r.size > cap THEN [a EXCEPT !.open = FALSE]
  ELSE [a EXCEPT !.selected = Append(a.selected, r), !.used = a.used + r.size]

\* What the loop has selected after each number of records.
Turns(records, cap) ==
  LET turn[i \in 0..Len(records)] ==
        IF i = 0 THEN NothingSelected ELSE Consider(turn[i - 1], records[i], cap)
  IN  turn

Select(records, budget) == Turns(records, Cap(budget))[Len(records)]

\* select(records): refill, choose, pay; a ValueError if time went backwards.
Take(records) ==
  LET a == Select(records, Allowance)
  IN  /\ now >= last
      /\ tokens' = Allowance - a.used
      /\ last' = now
      /\ spent' = spent + a.used
      /\ UNCHANGED now

\* The wall clock advances, or is set back.
SetClock == \E t \in 0..TimeBound : now' = t /\ UNCHANGED bucketVars

\* One byte more than fits is the longest payload that makes a difference.
Sizes == 1..(Min({BurstBytes, MaxBatchBytes}) + 1)
Offers == BoundedSeq([size : Sizes], BatchEvents)

BucketNext == SetClock \/ \E records \in Offers : Take(records)

BucketSpec == BucketInit /\ [][BucketNext]_<<bucketVars, now>>

-----------------------------------------------------------------------------
(***************************************************************************)
(* "A bounded token budget": over any number of select() calls no more     *)
(* bytes leave than a burst plus what the link carried since the start, so *)
(* neither rounding, frequent polling nor a clock set back adds any.       *)
(***************************************************************************)
RateRespected ==
  spent + tokens <= BurstBytes + (last * BytesPerSecond) \div TicksPerSecond

\* The total size of the first n records.
Sums(records) ==
  LET sum[i \in 0..Len(records)] == IF i = 0 THEN 0 ELSE sum[i - 1] + records[i].size
  IN  sum
SizeOf(records) == Sums(records)[Len(records)]

(***************************************************************************)
(* "It selects complete records only", at most a batch of them, and "events*)
(* are never reordered inside a batch": what is selected is an unbroken run*)
(* of the records offered; nothing that could have been sent is before it, *)
(* and the record after it does not fit.                                   *)
(***************************************************************************)
SelectsARun ==
  now >= last => \A records \in Offers :
    LET chosen == Select(records, Allowance).selected
        cap == Cap(Allowance)
        n == Len(records)
    IN  IF \A i \in 1..n : records[i].size > cap THEN chosen = <<>>
        ELSE \E i \in 1..n : \E j \in i..n :
               /\ chosen = SubSeq(records, i, j)
               /\ SizeOf(chosen) <= cap
               /\ \A h \in 1..(i - 1) : records[h].size > cap
               /\ j < n => SizeOf(SubSeq(records, i, j + 1)) > cap
==============================================================================
