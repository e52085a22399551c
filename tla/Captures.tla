------------------------------- MODULE Captures -------------------------------
(***************************************************************************)
(* How a capture becomes the signals the detector is run on: time bins     *)
(* (api.py, core/live_monitor.py, pcap_to_threatfade.py), sessions and     *)
(* activity (core/flow_features.py), overlapping chunks read from a stream *)
(* (core/pcap_stream_processor.py) and chunks for parallel workers         *)
(* (core/pcap_parallel_processor.py). A packet is its position in the      *)
(* capture; times are half seconds. What a bin, a session or a chunk holds *)
(* stands for the value computed from it.                                  *)
(***************************************************************************)
EXTENDS Integers, FiniteSets, SequencesExt, Sorting

CONSTANTS Brief,     \* a capture shorter than this many seconds has bins of 1 s,
          Lengthy,   \* one longer than this has bins of 10 s, any other of 5 s
          WindowSec, \* length of a session window, in seconds
          BinSec,    \* length of a live bin
          MinPoints, ChunkSize, Overlap, MaxPackets,
          Gap,       \* inactivity_gap_seconds, in half seconds
          Direction, \* pairs of endpoints, <<from, to>>, each a number
          Stored     \* the captures there may be, each the times of its packets

ASSUME CaptureAssumption == /\ Brief \in Nat /\ Lengthy \in Nat /\ Brief <= Lengthy
                            /\ {WindowSec, BinSec, MinPoints, ChunkSize, MaxPackets, Gap} \subseteq Nat \ {0}
                            /\ MinPoints <= 20
                            /\ Overlap \in 0..(ChunkSize - 1)
                            /\ \A c \in Stored : c \in Seq(Range(c)) /\ Range(c) \subseteq Nat

VARIABLES capture, \* times of the packets, in the order they are stored
          course,  \* the direction of each packet
          task,    \* the processing asked for
          pieces,  \* the bins or chunks, each a sequence of packets
          total,   \* the number of packets reported
          pending, \* chunks the pool works on
          ranked,  \* [chunk, score] of finished chunks, in order of completion
          answer   \* "none", "signals", "result" or the error raised

captureVars == <<capture, course, task, pieces, total, pending, ranked, answer>>

Second(t) == t \div 2
Packets == DOMAIN capture
Within(from, length) == Ascending({p \in Packets : 2 * from <= capture[p] /\ capture[p] < 2 * (from + length)})

(* api._pcap_to_signals: bins from the first second to the last inclusive. *)
Interval(duration) == IF duration < Brief THEN 1 ELSE IF duration > Lengthy THEN 10 ELSE 5
ApiBins == LET start == Second(Min(Range(capture)))  end == Second(Max(Range(capture)))
               step == Interval(end - start)
           IN  [i \in 1..((end - start) \div step + 1) |-> Within(start + (i - 1) * step, step)]
\* Without packets the answer is twenty equal values.
Blank == [i \in 1..20 |-> <<>>]
Padded(bins) == bins \o [i \in 1..(MinPoints - Len(bins)) |-> <<>>]

(* pcap_to_threatfade: windows begin before the last second; empty ones are skipped. *)
\* A variant that counts whole windows only.
WholeWindows(start, end) == (end - start) \div WindowSec
WindowCount(start, end) == (end - start + WindowSec - 1) \div WindowSec
SessionWindows == LET start == Second(Min(Range(capture)))  end == Second(Max(Range(capture)))
                      window == [i \in 1..WindowCount(start, end) |->
                                     Within(start + (i - 1) * WindowSec, WindowSec)]
                      busy == Ascending({i \in DOMAIN window : window[i] # <<>>})
                  IN  [k \in DOMAIN busy |-> window[busy[k]]]

(* live_monitor: bins counted from the first packet; the clock may be set back,
   int() rounds towards zero, and a bin below zero is never read. *)
BinOf(p) == LET d == capture[p] - capture[1]
            IN  IF d < 0 THEN -((-d) \div (2 * BinSec)) ELSE d \div (2 * BinSec)
LiveBins == [i \in 1..(Max({BinOf(p) : p \in Packets}) + 1) |->
                Ascending({p \in Packets : BinOf(p) = i - 1})]

(* flow_features: the packets of a conversation, a pair of endpoints whoever   *)
(* sends, in the order of their times; a session of it ends with a long silence. *)
(* Conversations come in the order of their first packets.                       *)
Sooner(p, q) == capture[p] < capture[q] \/ (capture[p] = capture[q] /\ p < q)
InTime(packets) == Arranged(packets, {pair \in packets \X packets : Sooner(pair[1], pair[2])})
Conversation(p) == LET d == course[p] IN IF d[1] <= d[2] THEN d ELSE <<d[2], d[1]>>
Opener(p) == Min({q \in Packets : Conversation(q) = Conversation(p)})
Grouped(p, q) == Opener(p) < Opener(q) \/ (Opener(p) = Opener(q) /\ Sooner(p, q))
ByConversation == Arranged(Packets, {pair \in Packets \X Packets : Grouped(pair[1], pair[2])})
Silent(p, q) == capture[q] - capture[p] > Gap
EndsSession(order, h) ==
    h = Len(order) \/ Conversation(order[h]) # Conversation(order[h + 1]) \/ Silent(order[h], order[h + 1])
Sessionized ==
    LET order == ByConversation
        ends == Ascending({h \in DOMAIN order : EndsSession(order, h)})
    IN  [i \in DOMAIN ends |-> SubSeq(order, IF i = 1 THEN 1 ELSE ends[i - 1] + 1, ends[i])]
Features(session) ==
    [packet_count |-> Len(session),
     duration     |-> capture[Last(session)] - capture[session[1]],
     upstream     |-> Cardinality({k \in DOMAIN session : course[session[k]][1] = course[session[1]][1]})]

\* A dense series from the first packet to the last inclusive.
Activity ==
    LET start == Min(Range(capture))  count == (Max(Range(capture)) - start) \div (2 * BinSec) + 1
        Index(p) == Min({count, (capture[p] - start) \div (2 * BinSec) + 1})
    IN  [i \in 1..count |-> InTime({p \in Packets : Index(p) = i})]

(* Chunks of a stream: a full chunk is handed on at once, the rest at the end. *)
Cut(n) == [i \in 1..((n + ChunkSize - 1) \div ChunkSize) |->
              [k \in 1..Min({ChunkSize, n - (i - 1) * ChunkSize}) |-> (i - 1) * ChunkSize + k]]
\* A variant that takes one packet too few.
LessThanLastOf(chunk) == SubSeq(chunk, Len(chunk) - Overlap + 2, Len(chunk))
\* chunk[-overlap:], which is the whole chunk when overlap is zero.
LastOf(chunk) == IF Len(chunk) > Overlap /\ Overlap > 0
                 THEN SubSeq(chunk, Len(chunk) - Overlap + 1, Len(chunk)) ELSE chunk
WithOverlap(chunks) ==
    LET fed[i \in DOMAIN chunks] == IF i = 1 THEN chunks[1] ELSE LastOf(fed[i - 1]) \o chunks[i]
    IN  fed
Counted(chunks) == FoldLeft(LAMBDA n, c : n + Len(c), 0, chunks)

--------------------------------------------------------------------------------
CaptureInit(captures) ==
    /\ capture \in captures
    /\ task \in {"api", "session", "live", "sessions", "activity", "stream", "parallel"}
    /\ course \in [Packets -> IF task = "sessions" THEN Direction ELSE {CHOOSE d \in Direction : TRUE}]
    /\ pieces = <<>> /\ total = 0 /\ pending = {} /\ ranked = <<>> /\ answer = "none"

Answers(bins, count, value) == /\ pieces' = bins /\ total' = count /\ answer' = value
                               /\ UNCHANGED <<capture, course, task, pending, ranked>>

PcapToSignals == /\ task = "api" /\ answer = "none"
                 /\ Answers(IF capture = <<>> THEN Blank ELSE Padded(ApiBins), Len(capture), "signals")
ParsePcap == /\ task = "session" /\ answer = "none"
             /\ LET windows == IF capture = <<>> THEN <<>> ELSE SessionWindows
                IN  Answers(windows, Len(capture),
                            IF Len(windows) < MinPoints THEN "ValueError" ELSE "signals")
ToEntropySignals == /\ task = "live" /\ answer = "none"
                    /\ Answers(IF capture = <<>> THEN Blank ELSE LiveBins, Len(capture), "signals")

SessionizeObservations == task = "sessions" /\ answer = "none" /\ Answers(Sessionized, Len(capture), "signals")
ActivitySeries == /\ task = "activity" /\ answer = "none"
                  /\ Answers(IF capture = <<>> THEN <<>> ELSE Activity, Len(capture), "signals")

\* The limit is met while the chunks are produced, so nothing is returned then.
ProcessPcapStream ==
    /\ task = "stream" /\ answer = "none"
    /\ \/ Len(capture) > MaxPackets /\ Answers(<<>>, 0, "ValueError")
       \/ /\ Len(capture) <= MaxPackets
          /\ LET fed == WithOverlap(Cut(Len(capture))) IN Answers(fed, Counted(fed), "result")

Submit == /\ task = "parallel" /\ answer = "none" /\ pieces = <<>> /\ pending = {}
          /\ pieces' = Cut(Len(capture)) /\ total' = Len(capture)
          /\ pending' = DOMAIN pieces'
          /\ answer' = IF pieces' = <<>> THEN "result" ELSE "none"
          /\ UNCHANGED <<capture, course, task, ranked>>

\* A worker's chunk ends with a score, undetected (0), or in an exception, which
\* is printed and forgotten. Chunks end in any order.
Completes(c) == /\ c \in pending /\ pending' = pending \ {c}
                /\ \/ UNCHANGED ranked
                   \/ \E score \in 0..2 : ranked' = Append(ranked, [chunk |-> c, score |-> score])
                /\ answer' = IF pending = {c} THEN "result" ELSE "none"
                /\ UNCHANGED <<capture, course, task, pieces, total>>

CaptureNext == \/ PcapToSignals \/ ParsePcap \/ ToEntropySignals \/ SessionizeObservations
               \/ ActivitySeries \/ ProcessPcapStream \/ Submit
               \/ \E c \in pending : Completes(c)

CaptureSpec == CaptureInit(Stored) /\ [][CaptureNext]_captureVars

\* The first of those with the highest score.
Best == LET detected == {i \in DOMAIN ranked : ranked[i].score > 0}
        IN  IF detected = {} THEN 0
            ELSE ranked[Min({i \in detected : \A k \in detected : ranked[k].score <= ranked[i].score})].chunk

--------------------------------------------------------------------------------
Covered == UNION {Range(pieces[i]) : i \in DOMAIN pieces}
PieceOf(p) == {i \in DOMAIN pieces : p \in Range(pieces[i])}

\* Every packet is in exactly one bin, and bins are as they lie in time. What
\* can be missing is known: a live packet stamped a bin or more before the first
\* one, and the last second of a session file when a window would begin with it.
\* And every packet is in one session; packets of one conversation share a
\* session exactly if no silence lies between them, whatever order they came in.
PacketsBinnedOnce ==
    /\ task \in {"api", "session", "live", "activity"} /\ answer = "signals" =>
        /\ \A p \in Packets : Cardinality(PieceOf(p)) <= 1
        /\ \A p \in Covered, q \in Covered :
               capture[p] < capture[q] => Max(PieceOf(p)) <= Max(PieceOf(q))
        /\ task \in {"api", "session"} => Len(pieces) >= MinPoints
        /\ \A p \in Packets \ Covered :
               \/ task = "live" /\ capture[1] - capture[p] >= 2 * BinSec
               \/ task = "session" /\ Second(capture[p]) = Second(Max(Range(capture)))
    /\ task = "sessions" /\ answer = "signals" =>
        /\ \A p \in Packets : Cardinality(PieceOf(p)) = 1
        /\ \A p \in Packets : \A q \in {r \in Packets : capture[p] <= capture[r]} :
               PieceOf(p) = PieceOf(q) <=>
                   /\ Conversation(p) = Conversation(q)
                   /\ \A t \in 0..Max(Range(capture)) :
                         capture[p] <= t /\ t + Gap < capture[q] =>
                             \E r \in Packets : /\ Conversation(r) = Conversation(p)
                                                /\ t < capture[r] /\ capture[r] <= t + Gap
        /\ \A i \in DOMAIN pieces :
               LET f == Features(pieces[i])
               IN  f.duration <= (f.packet_count - 1) * Gap /\ f.upstream \in 1..f.packet_count

\* A change in the signal is seen whole by some worker: any Overlap + 1 packets
\* in a row are together in a chunk of the stream (process_pcap_stream: "overlap
\* from previous chunk for continuity"); parallel chunks share no packet, none is
\* lost, and the chunk reported is the best of those that finished.
ChunksKeepContinuity ==
    /\ task = "stream" /\ answer = "result" =>
         \A p \in Packets : p + Overlap \in Packets =>
             \E i \in DOMAIN pieces : p..(p + Overlap) \subseteq Range(pieces[i])
    /\ task = "parallel" /\ answer = "result" =>
         /\ Covered = Packets /\ \A p \in Packets : Cardinality(PieceOf(p)) = 1
         /\ \A r \in Range(ranked) : r.score > 0 =>
                \E b \in Range(ranked) : b.chunk = Best /\ b.score >= r.score
================================================================================
