------------------------------- MODULE Telemetry -------------------------------
(***************************************************************************)
(* satellite/satellite_ingestor.py: AIS, ADS-B and GPS records become the  *)
(* signal the detector is run on. A record's time is a text, known by its  *)
(* place in the order of texts, and the instant it denotes unless `time`   *)
(* says "absent" or "malformed"; its value is `reading` unless `read` says *)
(* "absent", "text" that is no number, or "null". Speeds are tenths of a   *)
(* knot, signals are thousandths.                                          *)
(***************************************************************************)
EXTENDS Sorting, SequencesExt

Kinds == {"ais", "adsb", "gps"}
Missing(source) == IF source = "gps" THEN -100 ELSE 0

CONSTANT Received  \* the feeds there may be

ASSUME TelemetryAssumption ==
    Received \subseteq Seq([text : Int, time : {"given", "absent", "malformed"}, instant : Int,
                            read : {"given", "absent", "text", "null"}, reading : Int])

\* KeyError and ValueError skip the record; float(None) is a TypeError. The time
\* is read first.
Raises(r) == r.time = "given" /\ r.read = "null"
Readable(r) == r.time = "given" /\ r.read \in {"given", "absent"}
Usable(records) == {i \in DOMAIN records : Readable(records[i])}
ReadingOf(source, r) == IF r.read = "absent" THEN Missing(source) ELSE r.reading

\* What is kept, by the order of texts, in which a record without a time comes first;
\* of equal texts the earlier record is before: sorting is stable.
Precedes(records, i, j) == \/ records[i].text < records[j].text
                           \/ records[i].text = records[j].text /\ i < j
TimeOrder(records) ==
    Arranged(Usable(records), {p \in Usable(records) \X Usable(records) : Precedes(records, p[1], p[2])})

Normalize(values) ==
    LET mn == Min(Range(values))  mx == Max(Range(values))
    IN  [i \in DOMAIN values |-> IF mx = mn THEN 500 ELSE (1000 * (values[i] - mn)) \div (mx - mn)]

\* -120 dBm is zero and -60 dBm is one; a variant whose one is at 0 dBm.
StrengthOverAll(v) == Max({0, Min({1000, (1000 * (v + 120)) \div 120})})
Strength(v) == Max({0, Min({1000, (1000 * (v + 120)) \div 60})})

Parse(source, records) ==
    LET order == TimeOrder(records)
        read == [k \in DOMAIN order |-> ReadingOf(source, records[order[k]])]
    IN  [times |-> [k \in DOMAIN order |-> records[order[k]].instant],
         values |-> IF source = "gps" THEN [k \in DOMAIN read |-> Strength(read[k])] ELSE Normalize(read)]

(* The simulators: a hundred records, silent between two of them. A draw from *)
(* a range is its least, its largest, or the two in turn.                     *)
Dark(source) == CASE source = "ais" -> 30..70 [] source = "adsb" -> 40..75 [] source = "gps" -> 25..65
Quiet(source) == CASE source = "ais" -> <<0, 5>> [] source = "adsb" -> <<0, 1000>> [] source = "gps" -> <<-120, -110>>
Normal(source) == CASE source = "ais" -> <<100, 200>> [] source = "adsb" -> <<30000, 40000>> [] source = "gps" -> <<-75, -65>>
Draw(range, how, i) == range[CASE how = "least" -> 1 [] how = "largest" -> 2 [] how = "mixed" -> 1 + (i % 2)]
Simulated(source, quiet, normal) ==
    [i \in 1..100 |-> [text |-> i, time |-> "given", instant |-> i, read |-> "given",
        reading |-> IF i - 1 \in Dark(source) THEN Draw(Quiet(source), quiet, i)
                    ELSE Draw(Normal(source), normal, i)]]

--------------------------------------------------------------------------------
VARIABLES kind, feed, simulated,
          parsed, \* [times, values]
          ending  \* "open", then "signals", "ValueError" or "TypeError"

telemetryVars == <<kind, feed, simulated, parsed, ending>>

TelemetryInit(feeds) ==
    /\ kind \in Kinds \cup {"other"} /\ simulated = FALSE /\ feed \in feeds
    /\ parsed = [times |-> <<>>, values |-> <<>>] /\ ending = "open"

\* main() with --simulate reads no file but takes the simulator's records.
Simulate == /\ ending = "open" /\ feed = <<>> /\ kind \in Kinds
            /\ \E quiet \in {"least", "largest", "mixed"}, normal \in {"least", "largest", "mixed"} :
                   feed' = Simulated(kind, quiet, normal)
            /\ simulated' = TRUE /\ UNCHANGED <<kind, parsed, ending>>

Ingest ==
    /\ ending = "open" /\ UNCHANGED <<kind, feed, simulated>>
    /\ \/ kind = "other" /\ ending' = "ValueError" /\ UNCHANGED parsed
       \/ /\ kind # "other" /\ \E i \in DOMAIN feed : Raises(feed[i])
          /\ ending' = "TypeError" /\ UNCHANGED parsed
       \/ /\ kind # "other" /\ \A i \in DOMAIN feed : ~Raises(feed[i])
          /\ ending' = "signals" /\ parsed' = Parse(kind, feed)

TelemetryNext == Simulate \/ Ingest

TelemetrySpec == TelemetryInit(Received) /\ [][TelemetryNext]_telemetryVars

\* The signal is the feed's: a value for every readable record and no other,
\* in the order of time when the texts sort as the instants do, and as high or
\* low as the readings; in each simulated feed every silent record is below the
\* half that counts as a drop, and every other is above all silent ones.
SignalFollowsFeed ==
    ending = "signals" =>
        LET kept == Usable(feed)
            n == Len(parsed.values)
        IN  /\ n = Cardinality(kept) /\ Len(parsed.times) = n
            /\ \A v \in Range(parsed.values) : v \in 0..1000
            /\ (\A i \in kept, j \in kept : feed[i].text <= feed[j].text => feed[i].instant <= feed[j].instant)
               => \A k \in 1..(n - 1) : parsed.times[k] <= parsed.times[k + 1]
            /\ ~simulated => \A i \in kept, j \in kept : ReadingOf(kind, feed[i]) < ReadingOf(kind, feed[j]) =>
                   \E k \in 1..n, m \in 1..n : /\ parsed.times[k] = feed[i].instant
                                               /\ parsed.times[m] = feed[j].instant
                                               /\ parsed.values[k] <= parsed.values[m]
            /\ simulated => \A k \in 1..n, m \in 1..n :
                   k - 1 \in Dark(kind) /\ m - 1 \notin Dark(kind) =>
                       /\ parsed.values[k] < 500 /\ parsed.values[k] < parsed.values[m]
                       /\ kind # "ais" => parsed.values[m] >= 500
================================================================================
