------------------------- MODULE ProfileStorage_proofs ------------------------
(***************************************************************************)
(* Proofs about ProfileStorage, for any number of sessions, versions and   *)
(* transactions.                                                           *)
(***************************************************************************)
EXTENDS ProfileStorage, SequenceTheorems, TLAPS

\* There is no hole in the versions, and no session is about to make one.
InLine(t) == t.at \in {"checking", "inserting"} => t.version <= Latest + 1
Unbroken == /\ Latest \in Nat /\ Versions = 1..Latest
            /\ \A c \in Client : InLine(reading[c])

\* What a transaction has read is still so.
UpToDate(t) ==
  /\ t.at \in {"checking", "inserting"} => t.version = Latest + 1
  /\ t.at = "inserting" /\ t.status = "active" => Active = {}
  /\ t.at \in {"found", "switching"} =>
       t.version \in Versions /\ rows[t.version].status = t.loaded
  /\ t.at = "switching" => Active = {t.previous} \ {0} /\ t.previous # t.version

(***************************************************************************)
(* While no two transactions have been open together, one is open at most, *)
(* what it has read is still so, and one version at most is active.        *)
(***************************************************************************)
OneByOne ==
  ~ concurrent => /\ \A c, d \in Client : reading[c] # Idle /\ reading[d] # Idle => c = d
                  /\ \A c \in Client : UpToDate(reading[c])
                  /\ \A v, w \in Active : v = w

ProfilesInv == ProfilesTypeOK /\ Unbroken /\ AuditExplainsActive /\ OneByOne

-----------------------------------------------------------------------------
LEMMA LatestIs ==
  ASSUME NEW n \in Nat, Versions = 1..n
  PROVE  Latest = n
<1>1. CASE n = 0
  BY <1>1 DEF Latest
<1>2. CASE n # 0
  <2>1. n \in Versions /\ \A w \in Versions : w <= n
    BY <1>2
  <2>2. Versions # {}
    BY <2>1
  <2>3. \A v \in Versions : (\A w \in Versions : w <= v) => v = n
    BY <2>1
  <2>. QED  BY <2>1, <2>2, <2>3 DEF Latest
<1>. QED  BY <1>1, <1>2

\* The version a session may put next.
LEMMA NextVersionIs ==
  ASSUME Unbroken, NEW v, IsNext(v)
  PROVE  v = Latest + 1 /\ v \notin Versions
BY DEF Unbroken, IsNext

\* What the fields of an open transaction are.
LEMMA OpenTransaction ==
  ASSUME ProfilesTypeOK, NEW c \in Client
  PROVE  LET t == reading[c]
         IN  /\ t.at \in {"checking", "inserting"} =>
                  /\ t = [at |-> t.at, version |-> t.version, status |-> t.status]
                  /\ t.version \in Version /\ t.status \in Status
             /\ t.at \in {"found", "switching"} =>
                  t.version \in Version /\ t.loaded \in {"draft", "active"}
             /\ t.at = "switching" => t.previous \in Version \cup {0}
             /\ t.at \in {"idle", "checking", "inserting", "found", "switching"}
             /\ t = Idle <=> t.at = "idle"
<1> DEFINE t == reading[c]
<1>1. t \in Transaction
  BY DEF ProfilesTypeOK
<1>2. Idle.at = "idle"
  BY DEF Idle
<1>3. CASE t = Idle
  BY <1>2, <1>3
<1>4. CASE t \in [at : {"checking", "inserting"}, version : Version, status : Status]
  BY <1>2, <1>4
<1>5. CASE t \in [at : {"found"}, version : Version, loaded : {"draft", "active"}]
  BY <1>2, <1>5
<1>6. CASE t \in [at : {"switching"}, version : Version, loaded : {"draft", "active"},
                  previous : Version \cup {0}]
  BY <1>2, <1>6
<1>. QED  BY <1>1, <1>3, <1>4, <1>5, <1>6 DEF Transaction

\* What put_profile's commit does.
LEMMA PutEffect ==
  ASSUME ProfilesTypeOK, NEW c \in Client, PutCommits(c)
  PROVE  \E v \in Version, s \in Status :
           /\ reading[c].at = "inserting" /\ reading[c].version = v /\ reading[c].status = s
           /\ v \notin Versions /\ Versions' = Versions \cup {v}
           /\ \A w \in Versions : rows'[w] = rows[w]
           /\ rows'[v] = [status |-> s, given |-> s]
           /\ rows' \in [Versions' -> Row]
           /\ Commit(c, [version |-> v, action |-> "create", previous |-> 0])
<1> DEFINE v == reading[c].version
           s == reading[c].status
<1>1. reading[c].at = "inserting" /\ v \notin Versions
      /\ Commit(c, [version |-> v, action |-> "create", previous |-> 0])
  BY DEF PutCommits
<1>2. v \in Version /\ s \in Status
  BY <1>1, OpenTransaction
<1>3. rows' = [w \in Versions \cup {v} |->
                 IF w = v THEN [status |-> s, given |-> s] ELSE rows[w]]
  BY DEF PutCommits
<1> HIDE DEF v, s
<1>4. Versions' = Versions \cup {v} /\ rows'[v] = [status |-> s, given |-> s]
  BY <1>3 DEF Versions
<1>5. \A w \in Versions : rows'[w] = rows[w]
  BY <1>1, <1>3
<1>6. [status |-> s, given |-> s] \in Row
  BY <1>2 DEF Row
<1>7. rows' \in [Versions' -> Row]
  BY <1>3, <1>4, <1>6 DEF ProfilesTypeOK
<1>. QED  BY <1>1, <1>2, <1>4, <1>5, <1>7 DEF v, s

\* What activate_profile's and rollback_profile's commit does.
LEMMA SwitchEffect ==
  ASSUME ProfilesTypeOK, NEW c \in Client, Switches(c)
  PROVE  LET t == reading[c]
         IN  /\ t.at = "switching" /\ t.version \in Version /\ t.previous \in Version \cup {0}
             /\ Versions' = Versions /\ rows' \in [Versions -> Row]
             /\ \A v \in Versions : /\ rows'[v].given = rows[v].given
                                    /\ rows'[v].status = Written(t, v)
             /\ Commit(c, [version |-> t.version, action |-> "activate", previous |-> t.previous])
<1> DEFINE t == reading[c]
<1>1. t.at = "switching"
      /\ Commit(c, [version |-> t.version, action |-> "activate", previous |-> t.previous])
      /\ rows' = [v \in Versions |-> [rows[v] EXCEPT !.status = Written(t, v)]]
  BY DEF Switches
<1>2. t.version \in Version /\ t.previous \in Version \cup {0}
  BY <1>1, OpenTransaction
<1> HIDE DEF t
<1>3. ASSUME NEW v \in Versions
      PROVE  [rows[v] EXCEPT !.status = Written(t, v)]
               = [status |-> Written(t, v), given |-> rows[v].given]
  BY DEF ProfilesTypeOK, Row
<1>4. \A v \in Versions : rows'[v] = [status |-> Written(t, v), given |-> rows[v].given]
  BY <1>1, <1>3
<1>5. \A v \in Versions : Written(t, v) \in Status /\ rows[v].given \in Status
  BY DEF ProfilesTypeOK, Written, Status, Row
<1>6. Versions' = Versions
  BY <1>1 DEF Versions
<1>7. rows' \in [Versions -> Row]
  BY <1>1, <1>4, <1>5 DEF Row
<1>. QED  BY <1>1, <1>2, <1>4, <1>6, <1>7 DEF t

LEMMA IdleIsHarmless == Idle \in Transaction /\ Idle.at = "idle" /\ InLine(Idle) /\ UpToDate(Idle)
BY DEF Idle, Transaction, InLine, UpToDate

-----------------------------------------------------------------------------
(***************************************************************************)
(* Session c reads, or gives up: nothing is written, and what it goes on   *)
(* with, t, is so unless another transaction is open.                      *)
(***************************************************************************)
Reads(c, t) ==
  /\ t \in Transaction /\ InLine(t)
  /\ reading' = [reading EXCEPT ![c] = t]
  /\ rows' = rows /\ audit' = audit /\ concurrent' \in BOOLEAN
  /\ ~ concurrent' => /\ ~ concurrent /\ UpToDate(t)
                      /\ t # Idle => \A d \in Client \ {c} : reading[d] = Idle

LEMMA BeginReads ==
  ASSUME ProfilesInv, NEW c \in Client, NEW t \in Transaction, Begin(c, t), InLine(t),
         ~ concurrent => UpToDate(t)
  PROVE  Reads(c, t)
<1>1. concurrent' \in BOOLEAN
  BY Zenon DEF Begin
<1>2. ~ concurrent' => ~ concurrent /\ \A d \in Client \ {c} : reading[d] = Idle
  BY DEF Begin
<1>. QED  BY <1>1, <1>2 DEF Begin, Reads

LEMMA ContinueReads ==
  ASSUME ProfilesInv, NEW c \in Client, NEW t \in Transaction, Continue(c, t), InLine(t),
         ~ concurrent => UpToDate(t), reading[c] # Idle
  PROVE  Reads(c, t)
<1>1. concurrent' = concurrent /\ concurrent \in BOOLEAN
  BY DEF Continue, ProfilesInv, ProfilesTypeOK
<1>2. ~ concurrent => \A d \in Client \ {c} : reading[d] = Idle
  BY DEF ProfilesInv, OneByOne
<1>. QED  BY <1>1, <1>2 DEF Continue, Reads

LEMMA PutReadsReads ==
  ASSUME ProfilesInv, NEW c \in Client, NEW v \in Version, NEW s \in Status, PutReads(c, v, s)
  PROVE  \E t : Reads(c, t)
<1> DEFINE t == [at |-> IF s = "active" THEN "checking" ELSE "inserting", version |-> v, status |-> s]
<1>1. Begin(c, t) /\ v = Latest + 1
  BY NextVersionIs DEF PutReads, ProfilesInv
<1>2. t \in Transaction
  BY DEF Transaction
<1>3. t.at \in {"checking", "inserting"} /\ t.version = v /\ (t.at = "inserting" => t.status # "active")
  OBVIOUS
<1> HIDE DEF t
<1>4. InLine(t) /\ UpToDate(t)
  BY <1>1, <1>3 DEF InLine, UpToDate, ProfilesInv, Unbroken
<1>. QED  BY <1>1, <1>2, <1>4, BeginReads

LEMMA PutChecksReads ==
  ASSUME ProfilesInv, NEW c \in Client, PutChecks(c)
  PROVE  \E t : Reads(c, t)
<1> DEFINE r == reading[c]
           t == [at |-> "inserting", version |-> r.version, status |-> r.status]
<1>1. r.at = "checking" /\ Active = {} /\ Continue(c, [r EXCEPT !.at = "inserting"])
  BY DEF PutChecks
<1>2. r = [at |-> r.at, version |-> r.version, status |-> r.status] /\ r # Idle
      /\ r.version \in Version /\ r.status \in Status
  BY <1>1, OpenTransaction DEF ProfilesInv
<1>3. [r EXCEPT !.at = "inserting"] = t
  BY <1>2
<1>4. t \in Transaction
  BY <1>2 DEF Transaction
<1>5. InLine(t)
  BY <1>1 DEF InLine, ProfilesInv, Unbroken
<1>6. ~ concurrent => UpToDate(t)
  BY <1>1 DEF UpToDate, ProfilesInv, OneByOne
<1>. QED  BY <1>1, <1>2, <1>3, <1>4, <1>5, <1>6, ContinueReads

LEMMA FindsReads ==
  ASSUME ProfilesInv, NEW c \in Client, NEW v \in Version, Finds(c, v)
  PROVE  \E t : Reads(c, t)
<1> DEFINE t == [at |-> "found", version |-> v, loaded |-> rows[v].status]
<1>1. v \in Versions /\ Begin(c, t) /\ rows[v].status \in {"draft", "active"}
  BY DEF Finds, ProfilesInv, ProfilesTypeOK, Row, Status
<1>2. t \in Transaction /\ InLine(t) /\ UpToDate(t)
  BY <1>1 DEF Transaction, InLine, UpToDate
<1>. QED  BY <1>1, <1>2, BeginReads

LEMMA ComparesReads ==
  ASSUME ProfilesInv, NEW c \in Client, Compares(c)
  PROVE  \E t : Reads(c, t)
<1> DEFINE r == reading[c]
<1>1. r.at = "found" /\ r.version \in Version /\ r.loaded \in {"draft", "active"} /\ r # Idle
  BY OpenTransaction DEF Compares, ProfilesInv
<1>2. PICK p \in IF Active = {} THEN {0} ELSE Active :
        p # r.version /\ Continue(c, [at |-> "switching", version |-> r.version,
                                      loaded |-> r.loaded, previous |-> p])
  BY DEF Compares
<1> DEFINE t == [at |-> "switching", version |-> r.version, loaded |-> r.loaded, previous |-> p]
<1>3. p \in Version \cup {0}
  BY <1>2 DEF Active, ProfilesInv, ProfilesTypeOK
<1>4. t \in Transaction /\ InLine(t)
  BY <1>1, <1>3 DEF Transaction, InLine
<1>5. ASSUME ~ concurrent
      PROVE  UpToDate(t)
  <2>1. r.version \in Versions /\ rows[r.version].status = r.loaded
    BY <1>1, <1>5 DEF ProfilesInv, OneByOne, UpToDate
  <2>2. Active = {p} \ {0}
    <3>1. CASE Active = {}
      BY <1>2, <3>1
    <3>2. CASE Active # {}
      <4>1. \A v \in Active : v = p
        BY <1>2, <1>5, <3>2 DEF ProfilesInv, OneByOne
      <4>2. p # 0
        BY <1>2, <3>2 DEF Active, ProfilesInv, ProfilesTypeOK, Version
      <4>. QED  BY <1>2, <3>2, <4>1, <4>2
    <3>. QED  BY <3>1, <3>2
  <2>. QED  BY <1>2, <2>1, <2>2 DEF UpToDate
<1>. QED  BY <1>1, <1>2, <1>4, <1>5, ContinueReads

LEMMA AbandonReads ==
  ASSUME ProfilesInv, NEW c \in Client, Abandon(c)
  PROVE  \E t : Reads(c, t)
BY IdleIsHarmless, ContinueReads DEF Abandon

LEMMA ReadsKeeps ==
  ASSUME ProfilesInv, NEW c \in Client, NEW t, Reads(c, t)
  PROVE  ProfilesInv'
<1>1. rows' = rows /\ audit' = audit /\ Versions' = Versions /\ Active' = Active
      /\ Latest' = Latest
  BY DEF Reads, Versions, Active, Latest
<1>2. reading' \in [Client -> Transaction] /\ reading'[c] = t
      /\ \A d \in Client \ {c} : reading'[d] = reading[d]
  BY DEF Reads, ProfilesInv, ProfilesTypeOK
<1>3. ProfilesTypeOK'
  BY <1>1, <1>2 DEF Reads, ProfilesInv, ProfilesTypeOK
<1>4. Unbroken'
  BY <1>1, <1>2 DEF Reads, ProfilesInv, Unbroken, InLine
<1>5. AuditExplainsActive'
  BY <1>1 DEF ProfilesInv, AuditExplainsActive
<1>6. OneByOne'
  BY <1>1, <1>2 DEF Reads, ProfilesInv, OneByOne, UpToDate
<1>. QED  BY <1>3, <1>4, <1>5, <1>6 DEF ProfilesInv

-----------------------------------------------------------------------------
\* What a commit does to the audit and to the sessions.
LEMMA CommitEffect ==
  ASSUME ProfilesInv, NEW c \in Client, NEW e \in Entry, Commit(c, e)
  PROVE  /\ audit' \in Seq(Entry) /\ Len(audit') <= MaxAudit
         /\ DOMAIN audit = 1..Len(audit) /\ DOMAIN audit' = 1..(Len(audit) + 1)
         /\ Len(audit) \in Nat /\ Len(audit') = Len(audit) + 1
         /\ audit'[Len(audit) + 1] = e
         /\ \A k \in 1..Len(audit) : audit'[k] = audit[k]
         /\ reading' \in [Client -> Transaction] /\ reading'[c] = Idle
         /\ \A d \in Client \ {c} : reading'[d] = reading[d]
         /\ concurrent' = concurrent
         /\ ~ concurrent' /\ reading[c] # Idle => \A d \in Client : reading'[d] = Idle
<1>1. audit \in Seq(Entry) /\ Len(audit) \in Nat /\ DOMAIN audit = 1..Len(audit)
  BY DEF ProfilesInv, ProfilesTypeOK
<1>2. audit' = Append(audit, e) /\ Len(audit) < MaxAudit /\ concurrent' = concurrent
  BY DEF Commit
<1>3. audit' \in Seq(Entry) /\ Len(audit') = Len(audit) + 1
      /\ audit'[Len(audit) + 1] = e /\ \A k \in 1..Len(audit) : audit'[k] = audit[k]
  BY <1>1, <1>2
<1>4. DOMAIN audit' = 1..(Len(audit) + 1)
  BY <1>3
<1>5. Len(audit') <= MaxAudit
  BY <1>1, <1>2, <1>3, ProfilesAssumption DEF ProfilesAssumption
<1>6. /\ reading' \in [Client -> Transaction] /\ reading'[c] = Idle
      /\ \A d \in Client \ {c} : reading'[d] = reading[d]
  BY IdleIsHarmless DEF Commit, ProfilesInv, ProfilesTypeOK
<1>7. ~ concurrent' /\ reading[c] # Idle => \A d \in Client : reading'[d] = Idle
  BY <1>2, <1>6 DEF ProfilesInv, OneByOne
<1>. QED  BY <1>1, <1>2, <1>3, <1>4, <1>5, <1>6, <1>7

LEMMA PutCommitsKeeps ==
  ASSUME ProfilesInv, NEW c \in Client, PutCommits(c)
  PROVE  ProfilesInv'
<1>1. PICK v \in Version, s \in Status :
        /\ reading[c].at = "inserting" /\ reading[c].version = v /\ reading[c].status = s
        /\ v \notin Versions /\ Versions' = Versions \cup {v}
        /\ \A w \in Versions : rows'[w] = rows[w]
        /\ rows'[v] = [status |-> s, given |-> s]
        /\ rows' \in [Versions' -> Row]
        /\ Commit(c, [version |-> v, action |-> "create", previous |-> 0])
  BY PutEffect DEF ProfilesInv
<1> DEFINE e == [version |-> v, action |-> "create", previous |-> 0]
           n == Len(audit)
<1>2. e \in Entry /\ reading[c] # Idle
  BY <1>1, OpenTransaction DEF Entry, ProfilesInv
<1>3. /\ audit' \in Seq(Entry) /\ Len(audit') <= MaxAudit
      /\ DOMAIN audit = 1..n /\ DOMAIN audit' = 1..(n + 1)
      /\ n \in Nat /\ Len(audit') = n + 1
      /\ audit'[n + 1] = e /\ \A k \in 1..n : audit'[k] = audit[k]
      /\ reading' \in [Client -> Transaction] /\ reading'[c] = Idle
      /\ \A d \in Client \ {c} : reading'[d] = reading[d]
      /\ concurrent' = concurrent
      /\ ~ concurrent' => \A d \in Client : reading'[d] = Idle
  BY <1>1, <1>2, CommitEffect
<1>4. e.version = v /\ e.action = "create" /\ e.previous = 0
  OBVIOUS
<1> HIDE DEF e, n
<1>5. ProfilesTypeOK'
  BY <1>1, <1>3 DEF ProfilesInv, ProfilesTypeOK
<1>6. v = Latest + 1 /\ Latest' = v /\ Versions' = 1..v
  <2>1. v <= Latest + 1 /\ Versions = 1..Latest /\ Latest \in Nat /\ v \in Nat /\ v >= 1
    BY <1>1, ProfilesAssumption DEF ProfilesInv, Unbroken, InLine, Version, ProfilesAssumption
  <2>2. v = Latest + 1
    BY <1>1, <2>1
  <2>3. Versions' = 1..v
    BY <1>1, <2>1, <2>2
  <2>4. Latest' = v
    <3>1. Versions' # {} /\ v \in Versions' /\ \A w \in Versions' : w <= v
      BY <2>1, <2>3
    <3>2. \A x \in Versions' : (\A w \in Versions' : w <= x) => x = v
      BY <2>1, <2>3
    <3>. QED  BY <3>1, <3>2 DEF Latest
  <2>. QED  BY <2>2, <2>3, <2>4
<1>7. Unbroken'
  <2>1. \A d \in Client : reading'[d] = reading[d] \/ reading'[d] = Idle
    BY <1>3
  <2>2. Latest \in Nat /\ Latest' = Latest + 1
    BY <1>6 DEF ProfilesInv, Unbroken
  <2>3. ASSUME NEW d \in Client
        PROVE  InLine(reading[d])' /\ Idle.at = "idle"
    <3>1. reading'[d].at \in {"checking", "inserting"} =>
            reading[d] = reading'[d] /\ reading[d].version <= Latest + 1
      BY <2>1, IdleIsHarmless DEF ProfilesInv, Unbroken, InLine
    <3>2. reading[d].at \in {"checking", "inserting"} => reading[d].version \in Version
      BY OpenTransaction DEF ProfilesInv
    <3>3. \A x \in Version : x \in Nat
      BY ProfilesAssumption DEF Version, ProfilesAssumption
    <3>. QED  BY <2>2, <3>1, <3>2, <3>3, IdleIsHarmless DEF InLine
  <2>. QED  BY <1>6, <2>2, <2>3 DEF Unbroken
<1>8. Active' = IF s = "active" THEN Active \cup {v} ELSE Active
  BY <1>1 DEF Active
<1>9. AuditExplainsActive'
  <2> SUFFICES ASSUME NEW w \in Active'
               PROVE  \E k \in 1..(n + 1) :
                        /\ audit'[k].version = w
                        /\ audit'[k].action = "create" => rows'[w].given = "active"
                        /\ \A l \in (k + 1)..(n + 1) : audit'[l].previous # w
    BY <1>3 DEF AuditExplainsActive
  <2>1. CASE w = v
    <3>1. rows'[v].given = "active" /\ n + 1 \in 1..(n + 1)
      BY <1>1, <1>3, <1>8, <2>1 DEF Active
    <3>2. (n + 1 + 1)..(n + 1) = {}
      BY <1>3
    <3>. QED  BY <1>3, <1>4, <2>1, <3>1, <3>2
  <2>2. CASE w # v
    <3>1. w \in Active /\ w \in Versions /\ w # 0 /\ rows'[w] = rows[w]
      BY <1>1, <1>8, <2>2 DEF Active, ProfilesInv, ProfilesTypeOK, Version
    <3>2. PICK k \in 1..n : /\ audit[k].version = w
                            /\ audit[k].action = "create" => rows[w].given = "active"
                            /\ \A l \in (k + 1)..n : audit[l].previous # w
      BY <1>3, <3>1 DEF ProfilesInv, AuditExplainsActive, n
    <3>3. \A l \in (k + 1)..(n + 1) : l = n + 1 \/ (l \in (k + 1)..n /\ l \in 1..n)
      BY <1>3
    <3>4. k \in 1..(n + 1)
      BY <1>3
    <3>5. audit'[k] = audit[k] /\ k \in 1..(n + 1)
      BY <1>3, <3>4
    <3>6. ASSUME NEW l \in (k + 1)..(n + 1)
          PROVE  audit'[l].previous # w
      <4>1. CASE l = n + 1
        BY <1>3, <1>4, <3>1, <4>1
      <4>2. CASE l \in (k + 1)..n /\ l \in 1..n
        <5>1. audit'[l] = audit[l]
          BY <1>3, <4>2
        <5>. QED  BY <3>2, <4>2, <5>1
      <4>. QED  BY <3>3, <4>1, <4>2
    <3>7. audit'[k].version = w /\ (audit'[k].action = "create" => rows'[w].given = "active")
      BY <3>1, <3>2, <3>5
    <3>. QED  BY <3>5, <3>6, <3>7
  <2>. QED  BY <2>1, <2>2
<1>10. OneByOne'
  <2> SUFFICES ASSUME ~ concurrent'
               PROVE  /\ \A d \in Client : reading'[d] = Idle
                      /\ \A x, y \in Active' : x = y
    BY IdleIsHarmless DEF OneByOne, UpToDate
  <2>1. s = "active" => Active = {}
    BY <1>1, <1>3 DEF ProfilesInv, OneByOne, UpToDate
  <2>2. \A x, y \in Active : x = y
    BY <1>3 DEF ProfilesInv, OneByOne
  <2>. QED  BY <1>3, <1>8, <2>1, <2>2
<1>. QED  BY <1>5, <1>7, <1>9, <1>10 DEF ProfilesInv

LEMMA SwitchesKeeps ==
  ASSUME ProfilesInv, NEW c \in Client, Switches(c)
  PROVE  ProfilesInv'
<1> DEFINE t == reading[c]
           e == [version |-> t.version, action |-> "activate", previous |-> t.previous]
           n == Len(audit)
<1>1. /\ t.at = "switching" /\ t.version \in Version /\ t.previous \in Version \cup {0}
      /\ Versions' = Versions /\ rows' \in [Versions -> Row]
      /\ \A v \in Versions : /\ rows'[v].given = rows[v].given
                             /\ rows'[v].status = Written(t, v)
      /\ Commit(c, e)
  BY SwitchEffect DEF ProfilesInv
<1>2. e \in Entry /\ t # Idle
  BY <1>1, OpenTransaction DEF Entry, ProfilesInv
<1>3. /\ audit' \in Seq(Entry) /\ Len(audit') <= MaxAudit
      /\ DOMAIN audit = 1..n /\ DOMAIN audit' = 1..(n + 1)
      /\ n \in Nat /\ Len(audit') = n + 1
      /\ audit'[n + 1] = e /\ \A k \in 1..n : audit'[k] = audit[k]
      /\ reading' \in [Client -> Transaction] /\ reading'[c] = Idle
      /\ \A d \in Client \ {c} : reading'[d] = reading[d]
      /\ concurrent' = concurrent
      /\ ~ concurrent' => \A d \in Client : reading'[d] = Idle
  BY <1>1, <1>2, CommitEffect
<1>4. e.version = t.version /\ e.action = "activate" /\ e.previous = t.previous
  OBVIOUS
<1> HIDE DEF e, n, t
<1>5. ProfilesTypeOK'
  BY <1>1, <1>3 DEF ProfilesInv, ProfilesTypeOK
<1>6. Unbroken'
  <2>1. Latest' = Latest
    BY <1>1 DEF Latest
  <2>2. \A d \in Client : reading'[d] = reading[d] \/ reading'[d] = Idle
    BY <1>3
  <2>. QED  BY <1>1, <2>1, <2>2, IdleIsHarmless DEF ProfilesInv, Unbroken, InLine
<1>7. \A w \in Active' : w \in Versions /\ (w = t.version \/ (w \in Active /\ w # t.previous))
  BY <1>1 DEF Active, Written
<1>8. AuditExplainsActive'
  <2> SUFFICES ASSUME NEW w \in Active'
               PROVE  \E k \in 1..(n + 1) :
                        /\ audit'[k].version = w
                        /\ audit'[k].action = "create" => rows'[w].given = "active"
                        /\ \A l \in (k + 1)..(n + 1) : audit'[l].previous # w
    BY <1>3 DEF AuditExplainsActive
  <2>1. CASE w = t.version
    <3>1. n + 1 \in 1..(n + 1) /\ (n + 1 + 1)..(n + 1) = {}
      BY <1>3
    <3>. QED  BY <1>3, <1>4, <2>1, <3>1
  <2>2. CASE w \in Active /\ w # t.previous
    <3>1. w \in Versions /\ rows'[w].given = rows[w].given
      BY <1>1, <1>7
    <3>2. PICK k \in 1..n : /\ audit[k].version = w
                            /\ audit[k].action = "create" => rows[w].given = "active"
                            /\ \A l \in (k + 1)..n : audit[l].previous # w
      BY <1>3, <2>2 DEF ProfilesInv, AuditExplainsActive, n
    <3>3. \A l \in (k + 1)..(n + 1) : l = n + 1 \/ (l \in (k + 1)..n /\ l \in 1..n)
      BY <1>3
    <3>4. k \in 1..(n + 1)
      BY <1>3
    <3>5. audit'[k] = audit[k] /\ k \in 1..(n + 1)
      BY <1>3, <3>4
    <3>6. ASSUME NEW l \in (k + 1)..(n + 1)
          PROVE  audit'[l].previous # w
      <4>1. CASE l = n + 1
        BY <1>3, <1>4, <2>2, <4>1
      <4>2. CASE l \in (k + 1)..n /\ l \in 1..n
        <5>1. audit'[l] = audit[l]
          BY <1>3, <4>2
        <5>. QED  BY <3>2, <4>2, <5>1
      <4>. QED  BY <3>3, <4>1, <4>2
    <3>7. audit'[k].version = w /\ (audit'[k].action = "create" => rows'[w].given = "active")
      BY <3>1, <3>2, <3>5
    <3>. QED  BY <3>5, <3>6, <3>7
  <2>. QED  BY <1>7, <2>1, <2>2
<1>9. OneByOne'
  <2> SUFFICES ASSUME ~ concurrent'
               PROVE  /\ \A d \in Client : reading'[d] = Idle
                      /\ \A x, y \in Active' : x = y
    BY IdleIsHarmless DEF OneByOne, UpToDate
  <2>1. Active = {t.previous} \ {0}
    BY <1>1, <1>3 DEF ProfilesInv, OneByOne, UpToDate, t
  <2>. QED  BY <1>3, <1>7, <2>1
<1>. QED  BY <1>5, <1>6, <1>8, <1>9 DEF ProfilesInv

-----------------------------------------------------------------------------
LEMMA ProfilesInvInitially == ProfilesInit => ProfilesInv
<1> SUFFICES ASSUME ProfilesInit
             PROVE  ProfilesInv
  OBVIOUS
<1>1. Versions = {} /\ Active = {} /\ Latest = 0
  BY DEF ProfilesInit, Versions, Active, Latest
<1>2. ProfilesTypeOK
  <2>1. rows \in [Versions -> Row]
    BY <1>1 DEF ProfilesInit
  <2>2. audit \in Seq(Entry) /\ Len(audit) <= MaxAudit
    BY ProfilesAssumption DEF ProfilesInit, ProfilesAssumption
  <2>. QED  BY <1>1, <2>1, <2>2, IdleIsHarmless DEF ProfilesInit, ProfilesTypeOK
<1>3. Unbroken
  BY <1>1, IdleIsHarmless DEF ProfilesInit, Unbroken
<1>4. AuditExplainsActive
  BY <1>1 DEF AuditExplainsActive
<1>5. OneByOne
  BY <1>1, IdleIsHarmless DEF ProfilesInit, OneByOne
<1>. QED  BY <1>2, <1>3, <1>4, <1>5 DEF ProfilesInv

\* A step of a session, by what it does.
LEMMA EveryStep ==
  ASSUME ProfilesInv, ProfilesNext
  PROVE  \E c \in Client : (\E t : Reads(c, t)) \/ PutCommits(c) \/ Switches(c)
BY PutReadsReads, PutChecksReads, FindsReads, ComparesReads, AbandonReads DEF ProfilesNext

LEMMA ProfilesInductive == ProfilesInv /\ [ProfilesNext]_storageVars => ProfilesInv'
<1>1. ASSUME ProfilesInv, ProfilesNext
      PROVE  ProfilesInv'
  BY <1>1, EveryStep, ReadsKeeps, PutCommitsKeeps, SwitchesKeeps
<1>2. ASSUME ProfilesInv, UNCHANGED storageVars
      PROVE  ProfilesInv'
  <2>1. /\ rows' = rows /\ audit' = audit /\ reading' = reading /\ concurrent' = concurrent
        /\ Versions' = Versions /\ Active' = Active /\ Latest' = Latest
    BY <1>2 DEF storageVars, Versions, Active, Latest
  <2>2. ProfilesTypeOK' /\ AuditExplainsActive'
    BY <1>2, <2>1 DEF ProfilesInv, ProfilesTypeOK, AuditExplainsActive
  <2>3. Unbroken' /\ OneByOne'
    BY <1>2, <2>1 DEF ProfilesInv, Unbroken, InLine, OneByOne, UpToDate
  <2>. QED  BY <2>2, <2>3 DEF ProfilesInv
<1>. QED  BY <1>1, <1>2

THEOREM ProfilesInvariance == ProfilesSpec => []ProfilesInv
BY ProfilesInvInitially, ProfilesInductive, PTL DEF ProfilesSpec

(***************************************************************************)
(* Every reachable state of the profile tables and of the sessions is of   *)
(* its type.                                                               *)
(***************************************************************************)
THEOREM ProfilesTypeCorrect == ProfilesSpec => []ProfilesTypeOK
<1>1. ProfilesInv => ProfilesTypeOK
  BY DEF ProfilesInv
<1>. QED  BY <1>1, ProfilesInvariance, PTL

(***************************************************************************)
(* However sessions overlap, a version is active because the audit says so *)
(* and nothing later in the audit says that it was replaced.               *)
(***************************************************************************)
THEOREM AuditIsTheReason == ProfilesSpec => []AuditExplainsActive
<1>1. ProfilesInv => AuditExplainsActive
  BY DEF ProfilesInv
<1>. QED  BY <1>1, ProfilesInvariance, PTL

(***************************************************************************)
(* However sessions race for the next version, none is overwritten, none is*)
(* skipped, and none ever disappears.                                      *)
(***************************************************************************)
THEOREM VersionsAreKept == ProfilesSpec => NotOverwrittenOrSkipped
<1> DEFINE A == /\ \A v \in Versions : v \in Versions' /\ rows'[v].given = rows[v].given
                /\ \A v \in Versions' : v > 1 => v - 1 \in Versions'
<1>1. ProfilesInv /\ ProfilesInv' /\ [ProfilesNext]_storageVars => [A]_storageVars
  <2> SUFFICES ASSUME ProfilesInv, ProfilesInv', ProfilesNext
               PROVE  A
    OBVIOUS
  <2>1. \A v \in Versions' : v > 1 => v - 1 \in Versions'
    BY DEF ProfilesInv, Unbroken
  <2>2. PICK c \in Client : (\E t : Reads(c, t)) \/ PutCommits(c) \/ Switches(c)
    BY EveryStep
  <2>3. \A v \in Versions : v \in Versions' /\ rows'[v].given = rows[v].given
    <3>1. CASE \E t : Reads(c, t)
      BY <3>1 DEF Reads, Versions
    <3>2. CASE PutCommits(c)
      BY <3>2, PutEffect DEF ProfilesInv
    <3>3. CASE Switches(c)
      BY <3>3, SwitchEffect DEF ProfilesInv
    <3>. QED  BY <2>2, <3>1, <3>2, <3>3
  <2>. QED  BY <2>1, <2>3
<1>. QED  BY <1>1, ProfilesInvariance, PTL DEF ProfilesSpec, NotOverwrittenOrSkipped

-----------------------------------------------------------------------------
(* The reference store.                                                    *)

\* The mapping, named.
Profiles == [v \in Versions |-> rows[v].given]
ActiveOne == IF Active = {} THEN 0 ELSE CHOOSE v \in Active : TRUE

LEMMA MappedVars == Store!storeVars = <<Profiles, ActiveOne>> /\ Store!Versions = Versions
BY DEF Store!storeVars, Store!Versions, Profiles, ActiveOne

LEMMA ActiveOneIs ==
  ASSUME NEW v, Active = {v}
  PROVE  ActiveOne = v
<1>1. Active # {} /\ \A w \in Active : w = v
  OBVIOUS
<1>. QED  BY <1>1 DEF ActiveOne

\* What the reference store takes for the next version is the next version.
LEMMA MappedNext ==
  ASSUME ProfilesInv
  PROVE  Store!NextVersion = Latest + 1
<1> DEFINE n == Latest
           V == {w + 1 : w \in Versions \cup {0}}
<1>1. n \in Nat /\ Versions = 1..n
  BY DEF ProfilesInv, Unbroken
<1> HIDE DEF n
<1>2. n + 1 \in V /\ \A w \in Versions : w < n + 1
  <2>1. n \in Versions \cup {0}
    BY <1>1
  <2>. QED  BY <1>1, <2>1
<1>3. \A v \in V : (\A w \in Versions : w < v) => v = n + 1
  <2> SUFFICES ASSUME NEW u \in Versions \cup {0}, \A w \in Versions : w < u + 1
               PROVE  u = n
    OBVIOUS
  <2>1. u \in Nat /\ u <= n
    BY <1>1
  <2>2. n # 0 => n < u + 1
    BY <1>1
  <2>. QED  BY <1>1, <2>1, <2>2
<1> HIDE DEF V
<1>4. (CHOOSE v \in V : \A w \in Versions : w < v) = n + 1
  BY <1>2, <1>3
<1>. QED  BY <1>4, MappedVars DEF Store!NextVersion, n, V

LEMMA PutIsPut ==
  ASSUME ProfilesInv, NEW c \in Client, PutCommits(c), ~ concurrent'
  PROVE  Store!StoreNext
<1>1. PICK v \in Version, s \in Status :
        /\ reading[c].at = "inserting" /\ reading[c].version = v /\ reading[c].status = s
        /\ v \notin Versions /\ Versions' = Versions \cup {v}
        /\ \A w \in Versions : rows'[w] = rows[w]
        /\ rows'[v] = [status |-> s, given |-> s]
        /\ rows' \in [Versions' -> Row]
        /\ Commit(c, [version |-> v, action |-> "create", previous |-> 0])
  BY PutEffect DEF ProfilesInv
<1>2. ~ concurrent
  BY <1>1 DEF Commit
<1>3. v = Latest + 1 /\ (s = "active" => Active = {})
  BY <1>1, <1>2 DEF ProfilesInv, OneByOne, UpToDate
<1>4. Active' = IF s = "active" THEN Active \cup {v} ELSE Active
  BY <1>1 DEF Active
<1>5. Profiles' = [w \in Versions \cup {v} |-> IF w = v THEN s ELSE Profiles[w]]
  BY <1>1 DEF Profiles
<1>6. ActiveOne' = IF s = "active" THEN v ELSE ActiveOne
  <2>1. CASE s = "active"
    <3>1. Active' = {v}
      BY <1>3, <1>4, <2>1
    <3>2. Active' # {} /\ \A w \in Active' : w = v
      BY <3>1
    <3>. QED  BY <2>1, <3>2 DEF ActiveOne
  <2>2. CASE s # "active"
    BY <1>4, <2>2 DEF ActiveOne
  <2>. QED  BY <2>1, <2>2
<1>7. s = "active" => ActiveOne = 0
  BY <1>3 DEF ActiveOne
<1>8. Store!Put(v, s)
  BY <1>3, <1>5, <1>6, <1>7, MappedNext, MappedVars DEF Store!Put, Profiles, ActiveOne
<1>9. s \in Store!Status
  BY DEF Status, Store!Status
<1>. QED  BY <1>3, <1>8, <1>9, MappedNext DEF Store!StoreNext

LEMMA SwitchIsRollback ==
  ASSUME ProfilesInv, NEW c \in Client, Switches(c), ~ concurrent'
  PROVE  Store!StoreNext
<1> DEFINE t == reading[c]
<1>1. /\ t.at = "switching" /\ t.version \in Version /\ t.previous \in Version \cup {0}
      /\ Versions' = Versions
      /\ \A v \in Versions : /\ rows'[v].given = rows[v].given
                             /\ rows'[v].status = Written(t, v)
  BY SwitchEffect DEF ProfilesInv
<1>2. ~ concurrent
  BY SwitchEffect DEF ProfilesInv, Commit
<1>3. /\ t.version \in Versions /\ rows[t.version].status = t.loaded
      /\ Active = {t.previous} \ {0} /\ t.previous # t.version
  BY <1>1, <1>2 DEF ProfilesInv, OneByOne, UpToDate
<1> HIDE DEF t
<1>4. t.version # 0
  BY <1>1 DEF Version
<1>5. t.loaded # "active"
  BY <1>3 DEF Active
<1>6. Active' = {t.version}
  <2>1. \A v \in Versions : rows'[v].status = "active" <=> v = t.version
    BY <1>1, <1>3, <1>4, <1>5 DEF Active, Written
  <2>. QED  BY <1>1, <1>3, <2>1 DEF Active
<1>7. ActiveOne' = t.version
  <2>1. Active' # {} /\ \A w \in Active' : w = t.version
    BY <1>6
  <2>. QED  BY <2>1 DEF ActiveOne
<1>8. t.version # ActiveOne
  <2>1. CASE t.previous = 0
    BY <1>3, <1>4, <2>1 DEF ActiveOne
  <2>2. CASE t.previous # 0
    BY <1>3, <2>2, ActiveOneIs
  <2>. QED  BY <2>1, <2>2
<1>9. Profiles' = Profiles
  BY <1>1 DEF Profiles
<1>10. Store!Rollback(t.version)
  BY <1>3, <1>7, <1>8, <1>9, MappedVars DEF Store!Rollback, Profiles, ActiveOne
<1>. QED  BY <1>3, <1>10, MappedVars DEF Store!StoreNext

(***************************************************************************)
(* As long as no two transactions have been open together, the database    *)
(* implements the reference store: a version put is its Put, a version     *)
(* switched to its Rollback, and whatever else a session does is nothing.  *)
(***************************************************************************)
THEOREM StorageImplementsStore == ProfilesSpec => OneAtATimeIsProfileStore
<1>1. ProfilesInit => Store!StoreInit
  <2> SUFFICES ASSUME ProfilesInit
               PROVE  Store!StoreInit
    OBVIOUS
  <2>1. Versions = {} /\ Active = {}
    BY DEF ProfilesInit, Versions, Active
  <2>2. Profiles = [v \in {} |-> "draft"] /\ ActiveOne = 0
    BY <2>1 DEF Profiles, ActiveOne
  <2>. QED  BY <2>2 DEF Store!StoreInit, Profiles, ActiveOne
<1>2. ASSUME ProfilesInv, [ProfilesNext]_storageVars
      PROVE  [~ concurrent' => [Store!StoreNext]_(Store!storeVars)]_storageVars
  <2> SUFFICES ASSUME ProfilesNext, ~ concurrent'
               PROVE  [Store!StoreNext]_(Store!storeVars)
    BY <1>2
  <2>1. PICK c \in Client : (\E t : Reads(c, t)) \/ PutCommits(c) \/ Switches(c)
    BY <1>2, EveryStep
  <2>2. CASE \E t : Reads(c, t)
    <3>1. rows' = rows
      BY <2>2 DEF Reads
    <3>2. Profiles' = Profiles /\ ActiveOne' = ActiveOne
      BY <3>1 DEF Profiles, ActiveOne, Versions, Active
    <3>. QED  BY <3>2 DEF Store!storeVars, Profiles, ActiveOne
  <2>3. CASE PutCommits(c)
    BY <1>2, <2>3, PutIsPut
  <2>4. CASE Switches(c)
    BY <1>2, <2>4, SwitchIsRollback
  <2>. QED  BY <2>1, <2>2, <2>3, <2>4
<1>. QED  BY <1>1, <1>2, ProfilesInvariance, PTL DEF ProfilesSpec, OneAtATimeIsProfileStore
==============================================================================
