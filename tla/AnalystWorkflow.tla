--------------------------- MODULE AnalystWorkflow ---------------------------
(***************************************************************************)
(* core/analyst.py and core/enterprise_routes.py: what analysts do to one  *)
(* detection of a tenant, to its cases and to one named setting.           *)
(*                                                                         *)
(* Every call is one unlocked transaction.  It reads the row it is about,  *)
(* inserts one if it finds none, and writes at commit, together with an    *)
(* entry of case_events; of a row it found it writes only the columns that *)
(* differ from what it read.  detection_workflow alone has a unique key.   *)
(***************************************************************************)
EXTENDS Integers, Sequences, FiniteSets

CONSTANTS
  Call,         \* calls that may be running at the same time
  Request,      \* what they may ask: see Asks
  MaxCommits    \* bound on the calls ever committed

Null == -1

\* What a request may give a value; a field left out, or empty where that is the
\* same, is not given.
Columns(op) == CASE op = "detection.workflow" -> {"status", "assignee", "priority"}
                 [] op = "detection.disposition" -> {"reason"}
                 [] op = "detection.feedback" -> {"disposition", "note"}
                 [] op = "tenant.config.updated" -> {"value"}
                 [] op = "case.created" -> {"owner"}
                 [] op = "case.updated" -> {"status", "owner"}
                 [] OTHER -> {}
Operation == {"detection.workflow", "detection.disposition", "detection.feedback", "tenant.config.updated",
              "case.created", "detection.linked", "case.updated", "case.comment"}

ASSUME WorkflowAssumption ==
  \A q \in Request : /\ q.op \in Operation /\ DOMAIN q.sets \subseteq Columns(q.op)
                     /\ "priority" \in DOMAIN q.sets => q.sets["priority"] # Null
                     /\ q.op = "detection.feedback" => "disposition" \in DOMAIN q.sets

VARIABLES
  tables,       \* the rows about this detection, and the tenant's cases, by id
  attached,     \* dispositions, comments and case links, in the order of inserts
  events,       \* case_events, by id
  calls,        \* what each running call has read
  commits,      \* the calls committed so far
  overlapped    \* history: two calls have been running together

workflowVars == <<tables, attached, events, calls, commits, overlapped>>

Defaults == [workflow |-> [status |-> "new", assignee |-> "none", priority |-> 50, updated_by |-> "none"],
             feedback |-> [disposition |-> "none", note |-> "", subject |-> "none"],
             settings |-> [value |-> 0],
             cases    |-> [status |-> "open", owner |-> "none"]]

\* A request: the operation by the type of its event, who asks, the values given, the case.
Asks(op, actor, sets, case) == [op |-> op, actor |-> actor, sets |-> sets, case |-> case]

\* The columns of f, and those of g that f does not have.
Over(f, g) == [col \in DOMAIN f \cup DOMAIN g |-> IF col \in DOMAIN f THEN f[col] ELSE g[col]]

\* What dispose makes of the workflow's status.
StatusAfter(reason) == IF reason = "needs_tuning" THEN "investigating" ELSE "resolved"

Table(q) == CASE q.op \in {"detection.workflow", "detection.disposition"} -> "workflow"
              [] q.op = "detection.feedback" -> "feedback"
              [] q.op = "tenant.config.updated" -> "settings"
              [] OTHER -> "cases"
\* The columns a call sets: those asked for, and those that name its author.  A
\* feedback without a note has an empty one.
Sets(q) == CASE q.op = "detection.workflow" -> Over(q.sets, [updated_by |-> q.actor])
             [] q.op = "detection.disposition" -> [status |-> StatusAfter(q.sets.reason), updated_by |-> q.actor]
             [] q.op = "detection.feedback" -> Over(q.sets, [note |-> "", subject |-> q.actor])
             [] q.op = "case.created" -> Over(q.sets, [owner |-> q.actor])
             [] q.op = "detection.linked" -> [status |-> "investigating", owner |-> q.actor]
             [] OTHER -> q.sets
IsInsert(q) == q.op \in {"case.created", "detection.linked"}
IsOfCase(q) == q.op \in {"case.updated", "case.comment"}

UniqueTables == {"workflow"}

\* The row a call reads: a select without an order returns any of them.
Reading(q) == CASE IsInsert(q) -> {0}
                [] IsOfCase(q) -> {q.case} \cap DOMAIN tables.cases
                [] OTHER -> IF tables[Table(q)] = << >> THEN {0} ELSE DOMAIN tables[Table(q)]

NoCall == [at |-> "idle"]

WorkflowInit == /\ tables = [t \in DOMAIN Defaults |-> << >>]
                /\ attached = << >> /\ events = << >>
                /\ calls = [c \in Call |-> NoCall]
                /\ commits = 0
                /\ overlapped = FALSE

\* The selects of a call; a case that is not there is a 404.
Reads(c, q, row) ==
  /\ calls[c] = NoCall
  /\ row \in Reading(q)
  /\ q.op = "detection.disposition" => q.case \in {0} \cup DOMAIN tables.cases
  /\ calls' = [calls EXCEPT ![c] =
                 [at |-> "read", asked |-> q, row |-> row,
                  loaded |-> IF row = 0 THEN Defaults[Table(q)] ELSE tables[Table(q)][row]]]
  /\ overlapped' = (overlapped \/ \E d \in Call \ {c} : calls[d] # NoCall)
  /\ UNCHANGED <<tables, attached, events, commits>>

\* A column the call was asked to set is written if that changes what it loaded.
Written(t, col, now) ==
  IF col \in DOMAIN Sets(t.asked) /\ Sets(t.asked)[col] # t.loaded[col]
  THEN Sets(t.asked)[col] ELSE now

Inserted(t) == Over(Sets(t.asked), t.loaded)
Updated(t, row) == [col \in DOMAIN row |-> Written(t, col, row[col])]

\* Mutant: the event is built before the columns are set.
PayloadAsRead(t) == IF t.asked.op = "detection.workflow"
                    THEN [col \in {"status", "assignee", "priority"} |-> t.loaded[col]] ELSE t.asked.sets

\* The payload of the event.  A column default is filled in by the insert, after
\* the payload was built: until then the attribute is None.  A new case's has its
\* title or its detection, a feedback's no note.
Payload(t) ==
  LET given == t.asked.sets
      row == IF t.row = 0 THEN [t.loaded EXCEPT !.priority = Null] ELSE t.loaded
  IN  CASE t.asked.op = "detection.workflow" ->
             [col \in {"status", "assignee", "priority"} |-> IF col \in DOMAIN given THEN given[col] ELSE row[col]]
        [] t.asked.op = "detection.feedback" -> [disposition |-> given.disposition]
        [] t.asked.op \in {"case.created", "detection.linked"} -> << >>
        [] t.asked.op = "case.comment" -> [comment_id |-> Null]
        [] OTHER -> given

NewCase == Len(tables.cases) + 1
CaseOf(t) == IF IsInsert(t.asked) THEN NewCase ELSE t.asked.case

Attachments(t) ==
  CASE t.asked.op \in {"detection.disposition", "case.comment", "detection.linked"} ->
         <<[type |-> t.asked.op, case |-> CaseOf(t)]>>
    [] OTHER -> << >>

\* A comment sets no column of its case.
Rows(t) ==
  LET rows == tables[Table(t.asked)]
  IN  IF t.row = 0 THEN Append(rows, Inserted(t)) ELSE [rows EXCEPT ![t.row] = Updated(t, @)]

\* A second row under a unique key is an IntegrityError: see GivesUp.
Commits(c) ==
  LET t == calls[c]
      table == Table(t.asked)
  IN  /\ t # NoCall
      /\ commits < MaxCommits
      /\ ~ (t.row = 0 /\ table \in UniqueTables /\ tables[table] # << >>)
      /\ tables' = [tables EXCEPT ![table] = Rows(t)]
      /\ attached' = attached \o Attachments(t)
      /\ events' = IF table = "settings" THEN events
                   ELSE Append(events, [type |-> t.asked.op, case |-> CaseOf(t), actor |-> t.asked.actor,
                                        payload |-> Payload(t)])
      /\ calls' = [calls EXCEPT ![c] = NoCall]
      /\ commits' = commits + 1
      /\ UNCHANGED overlapped

\* Any exception, an IntegrityError or a lost process: nothing is written.
GivesUp(c) == /\ calls[c] # NoCall
              /\ calls' = [calls EXCEPT ![c] = NoCall]
              /\ UNCHANGED <<tables, attached, events, commits, overlapped>>

WorkflowNext == \E c \in Call :
                  \/ \E q \in Request : \E row \in Reading(q) : Reads(c, q, row)
                  \/ Commits(c)
                  \/ GivesUp(c)

WorkflowSpec == WorkflowInit /\ [][WorkflowNext]_workflowVars

-----------------------------------------------------------------------------
\* The events about a row, and the value an event gives to a column of it.
About(table, row) ==
  {k \in DOMAIN events :
     CASE table = "workflow" -> events[k].type \in {"detection.workflow", "detection.disposition"}
       [] table = "feedback" -> events[k].type = "detection.feedback"
       [] OTHER -> /\ events[k].case = row
                   /\ events[k].type \in {"case.created", "detection.linked", "case.updated"}}
Said(e) == CASE e.type = "detection.workflow" -> Over(e.payload, [updated_by |-> e.actor])
             [] e.type = "detection.disposition" ->
                  [status |-> IF e.payload.reason = "needs_tuning" THEN "investigating" ELSE "resolved",
                   updated_by |-> e.actor]
             [] e.type = "detection.feedback" -> Over(e.payload, [subject |-> e.actor])
             [] e.type = "case.created" -> [status |-> "open"]
             [] e.type = "detection.linked" -> [status |-> "investigating", owner |-> e.actor]
             [] OTHER -> e.payload
Saying(table, row, col) ==
  {k \in About(table, row) : col \in DOMAIN Said(events[k]) /\ (col = "priority" => Said(events[k])[col] # Null)}

Entries(log, type, case) == Cardinality({k \in DOMAIN log : log[k].type = type /\ log[k].case = case})

\* What no event states: the note of a feedback, and the owner create_case gives a
\* case, whom the request may name.
Unrecorded(log, table, row, col) ==
  \/ table = "feedback" /\ col = "note"
  \/ /\ table = "cases" /\ col = "owner"
     /\ \E k \in DOMAIN log : log[k].type = "case.created" /\ log[k].case = row

(***************************************************************************)
(* The case_events are the history of the rows. Every row of a detection   *)
(* and of a case has only values that some event states, by its payload or *)
(* its author, but for what is stated nowhere; there is one workflow row,  *)
(* and every disposition, comment and link came with its event; as long as *)
(* calls follow one another, each column has the value of the last event   *)
(* that speaks of it, and nothing has two rows.                            *)
(***************************************************************************)
EventsExplainRows ==
  /\ Len(tables.workflow) <= 1
  /\ ~ overlapped => Len(tables.feedback) <= 1 /\ Len(tables.settings) <= 1
  /\ \A k \in DOMAIN attached : Entries(attached, attached[k].type, attached[k].case)
                                   = Entries(events, attached[k].type, attached[k].case)
  /\ \A table \in {"workflow", "feedback", "cases"} : \A row \in DOMAIN tables[table] :
       \A col \in DOMAIN tables[table][row] :
         LET says == Saying(table, row, col)
             value == tables[table][row][col]
             last == CHOOSE k \in says : \A j \in says : j <= k
         IN  /\ \/ value = Defaults[table][col]
                \/ \E k \in says : Said(events[k])[col] = value
                \/ Unrecorded(events, table, row, col)
             /\ ~ overlapped /\ says # {} => value = Said(events[last])[col]
==============================================================================
