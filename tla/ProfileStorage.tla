--------------------------- MODULE ProfileStorage ----------------------------
(***************************************************************************)
(* core/environment_profile_storage.py: the same store in a database, used *)
(* by several processes.  One profile of one tenant, as in ProfileStore.   *)
(*                                                                         *)
(* Every function runs one transaction at the database's default isolation:*)
(* each select sees what is committed when it runs (PostgreSQL's READ      *)
(* COMMITTED, and sqlite3's selects outside a transaction), no row is      *)
(* locked, and everything is written at commit.  The session writes only   *)
(* the attributes that differ from what it loaded.  Two constraints hold   *)
(* inside the database: one row per version, and nothing is ever deleted.  *)
(***************************************************************************)
EXTENDS Integers, Sequences, FiniteSets

CONSTANTS
  Client,       \* sessions that may be open at the same time
  MaxVersion,   \* bound on the versions ever put
  MaxAudit      \* bound on the transactions ever committed

ASSUME ProfilesAssumption == MaxVersion \in Nat /\ MaxAudit \in Nat

VARIABLES
  rows,        \* environment_profiles: version -> current and original status
  audit,       \* environment_profile_audit, in the order of commits
  reading,     \* what each session has read
  concurrent   \* history: two transactions have been open together

storageVars == <<rows, audit, reading, concurrent>>

Status == {"draft", "active", "retired"}
Version == 1..MaxVersion
Row == [status : Status, given : Status]
Versions == DOMAIN rows
Active == {v \in Versions : rows[v].status = "active"}
Latest == IF Versions = {} THEN 0 ELSE CHOOSE v \in Versions : \A w \in Versions : w <= v

Entry == [version : Version, action : {"create", "activate"}, previous : Version \cup {0}]

Idle == [at |-> "idle"]
Transaction ==
  {Idle} \cup [at : {"checking", "inserting"}, version : Version, status : Status]
         \cup [at : {"found"}, version : Version, loaded : {"draft", "active"}]
         \cup [at : {"switching"}, version : Version, loaded : {"draft", "active"},
               previous : Version \cup {0}]

ProfilesTypeOK ==
  /\ Versions \subseteq Version /\ rows \in [Versions -> Row]
  /\ audit \in Seq(Entry) /\ Len(audit) <= MaxAudit
  /\ reading \in [Client -> Transaction]
  /\ concurrent \in BOOLEAN

ProfilesInit == /\ rows = [v \in {} |-> [status |-> "draft", given |-> "draft"]]
                /\ audit = << >>
                /\ reading = [c \in Client |-> Idle]
                /\ concurrent = FALSE

-----------------------------------------------------------------------------
Begin(c, t) == /\ reading[c] = Idle
               /\ reading' = [reading EXCEPT ![c] = t]
               /\ concurrent' = (concurrent \/ \E d \in Client \ {c} : reading[d] # Idle)
               /\ UNCHANGED <<rows, audit>>

Continue(c, t) == /\ reading' = [reading EXCEPT ![c] = t]
                  /\ UNCHANGED <<rows, audit, concurrent>>

\* Leaving `with Session' without a commit: an exception, or a lost process.
Abandon(c) == reading[c] # Idle /\ Continue(c, Idle)

\* The audit entry of a transaction is inserted with its other writes.
Commit(c, entry) == /\ Len(audit) < MaxAudit
                    /\ audit' = Append(audit, entry)
                    /\ reading' = [reading EXCEPT ![c] = Idle]
                    /\ UNCHANGED concurrent

\* Mutant: a version may be skipped.
IsNextSkipping(v) == v > Latest

IsNext(v) == v = Latest + 1

\* put_profile, up to reading the latest version.  Other versions raise.
PutReads(c, v, status) ==
  /\ IsNext(v)
  /\ Begin(c, [at |-> IF status = "active" THEN "checking" ELSE "inserting",
               version |-> v, status |-> status])

\* Mutant: the second active version is let in.
PutUnchecked(c) == /\ reading[c].at = "checking"
                   /\ Continue(c, [reading[c] EXCEPT !.at = "inserting"])

\* put_profile of an active version: "active profile conflict".
PutChecks(c) == /\ reading[c].at = "checking"
                /\ Active = {}
                /\ Continue(c, [reading[c] EXCEPT !.at = "inserting"])

\* The insert; a version somebody else inserted meanwhile is an IntegrityError.
PutCommits(c) ==
  LET t == reading[c]
  IN  /\ t.at = "inserting"
      /\ t.version \notin Versions
      /\ rows' = [v \in Versions \cup {t.version} |->
                   IF v = t.version THEN [status |-> t.status, given |-> t.status] ELSE rows[v]]
      /\ Commit(c, [version |-> t.version, action |-> "create", previous |-> 0])

\* activate_profile and rollback_profile: the first select finds the target.
Finds(c, v) == /\ v \in Versions /\ rows[v].status # "retired"
               /\ Begin(c, [at |-> "found", version |-> v, loaded |-> rows[v].status])

\* The second select: one of the active versions, if there is any; it raises
\* if that is the target.
Compares(c) ==
  LET t == reading[c]
  IN  /\ t.at = "found"
      /\ \E p \in IF Active = {} THEN {0} ELSE Active :
           /\ p # t.version
           /\ Continue(c, [at |-> "switching", version |-> t.version, loaded |-> t.loaded,
                           previous |-> p])

\* Mutant: the version that was active stays so.
WrittenAside(t, v) == IF v = t.version /\ t.loaded # "active" THEN "active" ELSE rows[v].status

\* Statuses the session writes: the target is not written if loaded as active.
Written(t, v) == IF v = t.previous THEN "draft"
                 ELSE IF v = t.version /\ t.loaded # "active" THEN "active"
                 ELSE rows[v].status

Switches(c) ==
  LET t == reading[c]
  IN  /\ t.at = "switching"
      /\ rows' = [v \in Versions |-> [rows[v] EXCEPT !.status = Written(t, v)]]
      /\ Commit(c, [version |-> t.version, action |-> "activate", previous |-> t.previous])

ProfilesNext == \E c \in Client :
                  \/ \E v \in Version, s \in Status : PutReads(c, v, s)
                  \/ PutChecks(c) \/ PutCommits(c)
                  \/ \E v \in Version : Finds(c, v)
                  \/ Compares(c) \/ Switches(c) \/ Abandon(c)

ProfilesSpec == ProfilesInit /\ [][ProfilesNext]_storageVars

-----------------------------------------------------------------------------
(***************************************************************************)
(* docs/ENVIRONMENT_PROFILES.md: "Profile versions cannot be overwritten   *)
(* or skipped", whichever writers race for the next number.                *)
(***************************************************************************)
NotOverwrittenOrSkipped ==
  [][/\ \A v \in Versions : v \in Versions' /\ rows'[v].given = rows[v].given
     /\ \A v \in Versions' : v > 1 => v - 1 \in Versions'
    ]_storageVars

(***************************************************************************)
(* "environment_profile_audit records create, activation and rollback": a  *)
(* version is active because an audit entry put it there, and no entry     *)
(* after that says that it was replaced, also when transactions overlap.   *)
(***************************************************************************)
AuditExplainsActive ==
  \A v \in Active : \E k \in DOMAIN audit :
    /\ audit[k].version = v
    /\ audit[k].action = "create" => rows[v].given = "active"
    /\ \A l \in k+1..Len(audit) : audit[l].previous # v

(***************************************************************************)
(* As long as transactions follow one another, the database is the         *)
(* reference store.                                                        *)
(***************************************************************************)
Store == INSTANCE ProfileStore
  WITH profiles <- [v \in Versions |-> rows[v].given],
       active <- IF Active = {} THEN 0 ELSE CHOOSE v \in Active : TRUE

OneAtATimeIsProfileStore ==
  Store!StoreInit /\ [][~ concurrent' => [Store!StoreNext]_(Store!storeVars)]_storageVars

(***************************************************************************)
(* docs/ENVIRONMENT_PROFILES.md: "Only one version may be active for a     *)
(* profile identity. ... conflicting active writes are rejected."          *)
(***************************************************************************)
OneActive == Cardinality(Active) <= 1
==============================================================================
