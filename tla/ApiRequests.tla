----------------------------- MODULE ApiRequests -----------------------------
(***************************************************************************)
(* api.py and core/api_security.py: the requests of one client to the      *)
(* /detect routes.  Each is served by a thread of the server: it passes    *)
(* the rate limiter, then the identity checks, has its signal judged, may  *)
(* export the result to a file and stores it.                              *)
(*                                                                         *)
(* The limiter is a row of the database, or a deque of this process when   *)
(* there is no PostgreSQL, or outside production when it does not answer.  *)
(* Nothing locks the deque: threads may switch between any two looks at it.*)
(***************************************************************************)
EXTENDS Integers, Sequences, FiniteSets

CONSTANTS
  Thread,               \* threads that serve requests
  RATE_LIMIT,           \* requests per window
  RATE_WINDOW_SECONDS,
  MaxTime,              \* bound on the clock
  MaxAdmitted           \* bound on the requests that pass the limiter

ASSUME ApiAssumption == RATE_LIMIT \in Nat /\ RATE_WINDOW_SECONDS \in Nat \ {0} /\ IsFiniteSet(Thread)

VARIABLES
  shared,      \* ENGINE is PostgreSQL
  production,  \* ENVIRONMENT = "production"
  clock,
  row,         \* the client's rate_limit_buckets row: window and count
  bucket,      \* _REQUESTS[client]: the times of requests let through
  threads,     \* what each thread is doing
  export,      \* the export file: whose request it holds, "none" before the first
  stored,      \* detections rows
  admitted,    \* history: the requests let through, by which limiter and for when
  late,        \* history: upserts that came after one for a later window
  together     \* history: two threads were in the deque's limiter together

apiVars == <<shared, production, clock, row, bucket, threads, export, stored, admitted, late, together>>

\* What a request may bring: a 400, 401 or 403, or a good body that may ask for an export.
Body == {[refused |-> TRUE, exports |-> FALSE]} \cup [refused : {FALSE}, exports : BOOLEAN]
Idle == [at |-> "idle", reply |-> "none"]
InDeque == {"looking", "popping", "counting", "appending"}

ApiInit == /\ shared \in BOOLEAN /\ production \in BOOLEAN
           /\ clock = 0
           /\ row = [window |-> 0, count |-> 0]
           /\ bucket = << >>
           /\ threads = [t \in Thread |-> Idle]
           /\ export = "none" /\ stored = {}
           /\ admitted = << >> /\ late = 0
           /\ together = FALSE

-----------------------------------------------------------------------------
Goes(t, at) == threads' = [threads EXCEPT ![t] = [@ EXCEPT !.at = at]]
Replies(t, status) == threads' = [threads EXCEPT ![t] = [at |-> "idle", reply |-> status]]
Together(t) == \E u \in Thread \ {t} : threads[u].at \in InDeque
Admits(by, at) == admitted' = Append(admitted, [by |-> by, at |-> at])

\* enforce_rate_limit begins, and reads the clock of the limiter it uses.
Arrives(t, body) ==
  /\ threads[t].at = "idle"
  /\ Len(admitted) + Cardinality({u \in Thread : threads[u].at \in InDeque \cup {"upserting"}}) < MaxAdmitted
  /\ threads' = [threads EXCEPT ![t] = [at |-> IF shared THEN "upserting" ELSE "looking",
                                        now |-> clock, body |-> body, reply |-> "none"]]
  /\ together' = (together \/ (~ shared /\ Together(t)))
  /\ UNCHANGED <<shared, production, clock, row, bucket, export, stored, admitted, late>>

\* The upsert: a window other than the row's, later or not, starts at one.
Count(window) == IF row.window = window THEN row.count + 1 ELSE 1

\* _shared_rate_limit: the upsert keeps the row locked until its commit.
Upserts(t) ==
  LET window == threads[t].now \div RATE_WINDOW_SECONDS
      passes == Count(window) <= RATE_LIMIT
  IN  /\ threads[t].at = "upserting"
      /\ row' = [window |-> window,
                 count |-> IF passes THEN Count(window) ELSE RATE_LIMIT + 1]  \* higher counts are alike
      /\ late' = late + IF window < row.window THEN 1 ELSE 0
      /\ IF passes THEN Goes(t, "admitted") /\ Admits("shared", window)
                   ELSE Replies(t, "429") /\ UNCHANGED admitted
      /\ UNCHANGED <<shared, production, clock, bucket, export, stored, together>>

\* The database does not answer.
LimiterFails(t) ==
  /\ threads[t].at = "upserting"
  /\ IF production THEN Replies(t, "503") /\ UNCHANGED together
     ELSE /\ threads' = [threads EXCEPT ![t] = [@ EXCEPT !.at = "looking", !.now = clock]]
          /\ together' = (together \/ Together(t))
  /\ UNCHANGED <<shared, production, clock, row, bucket, export, stored, admitted, late>>

\* Mutant: a request exactly one window old no longer counts.
IsOldEarly(t) == bucket # << >> /\ threads[t].now - Head(bucket) >= RATE_WINDOW_SECONDS

IsOld(t) == bucket # << >> /\ threads[t].now - Head(bucket) > RATE_WINDOW_SECONDS

Looks(t) == /\ threads[t].at = "looking"
            /\ Goes(t, IF IsOld(t) THEN "popping" ELSE "counting")
            /\ UNCHANGED <<shared, production, clock, row, bucket, export, stored, admitted, late, together>>

\* popleft takes what is first by now; from an empty deque it raises IndexError.
Pops(t) == /\ threads[t].at = "popping"
           /\ IF bucket = << >> THEN Replies(t, "500") /\ UNCHANGED bucket
                                ELSE Goes(t, "looking") /\ bucket' = Tail(bucket)
           /\ UNCHANGED <<shared, production, clock, row, export, stored, admitted, late, together>>

Counts(t) == /\ threads[t].at = "counting"
             /\ IF Len(bucket) >= RATE_LIMIT THEN Replies(t, "429") ELSE Goes(t, "appending")
             /\ UNCHANGED <<shared, production, clock, row, bucket, export, stored, admitted, late, together>>

Appends(t) == /\ threads[t].at = "appending"
              /\ bucket' = Append(bucket, threads[t].now)
              /\ Goes(t, "admitted") /\ Admits("deque", threads[t].now)
              /\ UNCHANGED <<shared, production, clock, row, export, stored, late, together>>

-----------------------------------------------------------------------------
\* authenticate, require_tenant and authorize, then the checks of the body.
Judges(t) ==
  /\ threads[t].at = "admitted"
  /\ IF threads[t].body.refused THEN Replies(t, "4xx") ELSE Goes(t, "judged")
  /\ UNCHANGED <<shared, production, clock, row, bucket, export, stored, admitted, late, together>>

\* The file's name is made of tenant and source: requests share it.
Exports(t) ==
  /\ threads[t].at = "judged"
  /\ export' = IF threads[t].body.exports THEN t ELSE export
  /\ Goes(t, "saving")
  /\ UNCHANGED <<shared, production, clock, row, bucket, stored, admitted, late, together>>

\* save_detection has keyword-only parameters without a default.
RequiredKeywords == {"correlation_id", "input_sha256", "rule_pack_sha256", "engine_version", "config_sha256"}
Keywords == {}

\* The call binds its arguments first: a missing one is a TypeError.
Saves(t) ==
  /\ threads[t].at = "saving"
  /\ IF RequiredKeywords \subseteq Keywords
     THEN stored' = stored \cup {t} /\ Replies(t, "200")
     ELSE UNCHANGED stored /\ Replies(t, "500")
  /\ UNCHANGED <<shared, production, clock, row, bucket, export, admitted, late, together>>

Tick == /\ clock < MaxTime /\ clock' = clock + 1
        /\ UNCHANGED <<shared, production, row, bucket, threads, export, stored, admitted, late, together>>

ApiNext == \/ \E t \in Thread :
                \/ \E body \in Body : Arrives(t, body)
                \/ Upserts(t) \/ LimiterFails(t) \/ Looks(t) \/ Pops(t) \/ Counts(t) \/ Appends(t)
                \/ Judges(t) \/ Exports(t) \/ Saves(t)
           \/ Tick

ApiSpec == ApiInit /\ [][ApiNext]_apiVars

-----------------------------------------------------------------------------
(***************************************************************************)
(* The limiter limits.  Through the database at most RATE_LIMIT requests   *)
(* pass for one window, and as many again for each upsert that comes after *)
(* one for a later window and so starts the count anew.  Through the deque *)
(* at most RATE_LIMIT pass within any RATE_WINDOW_SECONDS, as long as no   *)
(* two threads are in it together.                                         *)
(***************************************************************************)
RateBounded ==
  \A k \in DOMAIN admitted :
    LET like == {j \in DOMAIN admitted : admitted[j].by = admitted[k].by}
    IN  IF admitted[k].by = "shared"
        THEN Cardinality({j \in like : admitted[j].at = admitted[k].at}) <= RATE_LIMIT * (1 + late)
        ELSE ~ together =>
               Cardinality({j \in like : admitted[j].at \in
                              admitted[k].at .. (admitted[k].at + RATE_WINDOW_SECONDS)}) <= RATE_LIMIT

(***************************************************************************)
(* test_api.py:25 and :35: a well-formed request to /detect and to         *)
(* /detect/scenario is answered with 200.                                  *)
(***************************************************************************)
DetectionAnswered == \A t \in Thread : threads[t].reply # "500"
==============================================================================
