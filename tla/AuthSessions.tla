----------------------------- MODULE AuthSessions ----------------------------
(***************************************************************************)
(* core/enterprise.py and core/identity.py: how a request that carries one *)
(* user's valid access token is let in, and the user's authentication      *)
(* sessions, which a request may name in X-ThreatFade-Session.             *)
(*                                                                         *)
(* A request is a chain of unlocked transactions: the session, the user,   *)
(* the membership, then the call itself, which reads and commits.  Other   *)
(* requests, and whoever disables the user or changes memberships, come    *)
(* between any two of them.  The token itself is external: it is valid.    *)
(***************************************************************************)
EXTENDS Integers, Sequences, FiniteSets

CONSTANTS
  Http,          \* requests that may be running at the same time
  Org,           \* organizations the user may belong to
  MaxSessions,   \* bound on the sessions ever registered
  MaxChanges     \* bound on the changes of memberships

VARIABLES
  production, \* THREATFADE_ENV = "production", set once for the process
  user,       \* identity_users: "absent", "active" or "disabled"
  roles,      \* identity_memberships of the user: organization -> role
  sessions,   \* identity_sessions, by id
  https,      \* the requests being served
  ended,      \* history: sessions some request has revoked
  changes     \* changes of memberships so far

authVars == <<production, user, roles, sessions, https, ended, changes>>

\* analyst permits what viewer does here, and owner what admin does.
MemberRole == {"none", "viewer", "admin"}
NoOrg == "no organization"
Calls == {"work", "register", "revoke", "revoke_all", "switch"}
ReadsOrg(o) == roles[o] = "admin"
Live(s) == s \in DOMAIN sessions /\ ~ sessions[s].revoked /\ ~ sessions[s].expired
Dead == {s \in DOMAIN sessions : ~ Live(s)}

NoHttp == [at |-> "idle"]
Serving(h) == https[h] # NoHttp

AuthInit == /\ production \in BOOLEAN
            /\ user \in {"absent", "active"}
            /\ roles \in [Org -> MemberRole]
            /\ sessions = << >>
            /\ https = [h \in Http |-> NoHttp]
            /\ ended = {}
            /\ changes = 0

-----------------------------------------------------------------------------
Goes(h, to) == https' = [https EXCEPT ![h] = to]
Moves(h, at) == Goes(h, [https[h] EXCEPT !.at = at])

\* A request: its call, the session it names (0 is none), the organization it
\* asks for and the one its token names.  What is dead or disabled as it
\* arrives, and where the user is a member meanwhile, is history.
Arrives(h, call, session, org, claim, admin) ==
  /\ ~ Serving(h)
  /\ call \in {"revoke", "switch"} => session # 0
  /\ CASE call = "work" -> org # NoOrg
       [] call = "switch" -> org # NoOrg
       [] call = "register" -> TRUE
       [] OTHER -> org = NoOrg
  /\ call # "work" \/ production \/ admin => claim = NoOrg  \* work shows what a claim does
  /\ call # "work" => ~ admin
  /\ Goes(h, [at |-> "arrived", call |-> call, session |-> session, org |-> org, claim |-> claim,
              admin |-> admin, dead |-> Dead, disabled |-> user = "disabled", loaded |-> {},
              held |-> {o \in Org : roles[o] # "none"}])
  /\ UNCHANGED <<production, user, roles, sessions, ended, changes>>

\* A 401, 403 or 500, and a lost process: the request ends, nothing is written.
Refuses(h) == Serving(h) /\ Goes(h, NoHttp) /\ UNCHANGED <<production, user, roles, sessions, ended, changes>>

\* Mutant: the whole row is written back, with the revocation it had.
TouchedWhole(h) == [sessions EXCEPT ![https[h].session].revoked = FALSE]

\* validate_session writes last_seen_at, which nothing here depends on.
Touched(h) == sessions

\* validate_session: reads the session and the user; another 401.
Validates(h) ==
  LET q == https[h]
  IN  /\ q.at = "arrived"
      /\ q.session # 0 => Live(q.session) /\ user = "active"
      /\ Moves(h, IF q.session = 0 THEN "validated" ELSE "touching")
      /\ UNCHANGED <<production, user, roles, sessions, ended, changes>>

Touches(h) == /\ https[h].at = "touching"
              /\ sessions' = Touched(h)
              /\ Moves(h, "validated")
              /\ UNCHANGED <<production, user, roles, ended, changes>>

IsEnabled == user # "disabled"

\* ensure_user, which registers a user on the first request.
EnsuresUser(h) == /\ https[h].at = "validated"
                  /\ IsEnabled
                  /\ user' = IF user = "absent" THEN "active" ELSE user
                  /\ Moves(h, "identified")
                  /\ UNCHANGED <<production, roles, sessions, ended, changes>>

\* require_tenant
MayEnter(q, o) == \/ roles[o] # "none"
                  \/ ~ production /\ o = q.claim
                  \/ q.admin

RequiresTenant(h) ==
  LET q == https[h]
  IN  /\ q.at = "identified"
      /\ q.call = "work" \/ (q.call = "register" /\ q.org # NoOrg)
      /\ MayEnter(q, q.org)
      /\ Moves(h, "entered")
      /\ UNCHANGED <<production, user, roles, sessions, ended, changes>>

\* Of the calls, work stands for every route behind require_tenant.
Works(h) == /\ https[h].at = "entered" /\ https[h].call = "work"
            /\ Goes(h, NoHttp)
            /\ UNCHANGED <<production, user, roles, sessions, ended, changes>>

\* register_session looks again at the user and at the membership.
RegisterReads(h) ==
  LET q == https[h]
  IN  /\ q.at \in {"identified", "entered"} /\ q.call = "register"
      /\ q.org # NoOrg => q.at = "entered"
      /\ user = "active"
      /\ q.org # NoOrg => roles[q.org] # "none"
      /\ Moves(h, "registering")
      /\ UNCHANGED <<production, user, roles, sessions, ended, changes>>

RegisterCommits(h) ==
  /\ https[h].at = "registering"
  /\ Len(sessions) < MaxSessions
  /\ sessions' = Append(sessions, [org |-> https[h].org, revoked |-> FALSE, expired |-> FALSE])
  /\ Goes(h, NoHttp)
  /\ UNCHANGED <<production, user, roles, ended, changes>>

\* What revoke_session and revoke_all_sessions read, to be written at commit.
Revocable(q) == IF q.call = "revoke" THEN {q.session} \cap DOMAIN sessions
                ELSE {s \in DOMAIN sessions : ~ sessions[s].revoked}

RevokeReads(h) ==
  /\ https[h].at = "identified" /\ https[h].call \in {"revoke", "revoke_all"}
  /\ Goes(h, [https[h] EXCEPT !.at = "revoking", !.loaded = Revocable(https[h])])
  /\ UNCHANGED <<production, user, roles, sessions, ended, changes>>

RevokeCommits(h) ==
  LET loaded == https[h].loaded
  IN  /\ https[h].at = "revoking"
      /\ sessions' = [s \in DOMAIN sessions |->
                        [sessions[s] EXCEPT !.revoked = @ \/ s \in loaded]]
      /\ ended' = ended \cup loaded
      /\ Goes(h, NoHttp)
      /\ UNCHANGED <<production, user, roles, changes>>

\* switch_session_organization: the permission is read first, by itself.
SwitchPermits(h) == /\ https[h].at = "identified" /\ https[h].call = "switch"
                    /\ ReadsOrg(https[h].org)
                    /\ Moves(h, "permitted")
                    /\ UNCHANGED <<production, user, roles, sessions, ended, changes>>

SwitchReads(h) == /\ https[h].at = "permitted"
                  /\ Live(https[h].session)
                  /\ Moves(h, "switching")
                  /\ UNCHANGED <<production, user, roles, sessions, ended, changes>>

SwitchCommits(h) == /\ https[h].at = "switching"
                    /\ sessions' = [sessions EXCEPT ![https[h].session].org = https[h].org]
                    /\ Goes(h, NoHttp)
                    /\ UNCHANGED <<production, user, roles, ended, changes>>

-----------------------------------------------------------------------------
\* What happens to the rows from elsewhere: time, other members, an operator.
Expires(s) == /\ Live(s)
              /\ sessions' = [sessions EXCEPT ![s].expired = TRUE]
              /\ UNCHANGED <<production, user, roles, https, ended, changes>>

MembershipChanges(o, role) ==
  /\ roles[o] # role /\ changes < MaxChanges
  /\ roles' = [roles EXCEPT ![o] = role]
  /\ https' = [h \in Http |-> IF Serving(h) /\ role # "none"
                              THEN [https[h] EXCEPT !.held = @ \cup {o}] ELSE https[h]]
  /\ changes' = changes + 1
  /\ UNCHANGED <<production, user, sessions, ended>>

Disables == /\ user = "active" /\ user' = "disabled"
            /\ UNCHANGED <<production, roles, sessions, https, ended, changes>>

AuthNext ==
  \/ \E h \in Http :
       \/ \E call \in Calls, s \in 0..Len(sessions), o \in Org \cup {NoOrg},
             claim \in Org \cup {NoOrg}, admin \in BOOLEAN : Arrives(h, call, s, o, claim, admin)
       \/ Refuses(h) \/ Validates(h) \/ Touches(h) \/ EnsuresUser(h) \/ RequiresTenant(h) \/ Works(h)
       \/ RegisterReads(h) \/ RegisterCommits(h) \/ RevokeReads(h) \/ RevokeCommits(h)
       \/ SwitchPermits(h) \/ SwitchReads(h) \/ SwitchCommits(h)
  \/ \E s \in DOMAIN sessions : Expires(s)
  \/ \E o \in Org, role \in MemberRole : MembershipChanges(o, role)
  \/ Disables

AuthSpec == AuthInit /\ [][AuthNext]_authVars

-----------------------------------------------------------------------------
\* Past its checks.
Admitted(h) == Serving(h) /\ https[h].at \notin {"arrived", "touching", "validated"}

(***************************************************************************)
(* Whatever runs beside it, a request that names a session is let in only  *)
(* if the session was neither revoked nor expired when the request came,   *)
(* and the account not disabled; it enters an organization only where the  *)
(* user was a member at some moment of the request, a global administrator *)
(* or, outside production, where the token says; and a session that was    *)
(* revoked once stays revoked.                                             *)
(***************************************************************************)
AdmittedWasLive ==
  /\ \A s \in ended : sessions[s].revoked
  /\ \A h \in Http : Admitted(h) =>
       /\ https[h].session \notin https[h].dead
       /\ ~ https[h].disabled
  /\ \A h \in Http : Serving(h) /\ https[h].at = "entered" =>
       \/ https[h].org \in https[h].held
       \/ https[h].admin
       \/ ~ production /\ https[h].org = https[h].claim
==============================================================================
