------------------------------ MODULE Workspace ------------------------------
(***************************************************************************)
(* core/identity.py: who belongs to an organization and who is invited.    *)
(* One organization; a subject stands for its verified email as well.      *)
(*                                                                         *)
(* A call that needs the permission "member:write" reads the caller's      *)
(* membership in a transaction of its own (require_permission), then runs  *)
(* a second one that reads what it is about to change and writes at        *)
(* commit.  Nothing is locked, so other calls commit between the steps.    *)
(* The session writes only attributes that differ from what it loaded, by  *)
(* primary key: an UPDATE of a deleted row fails, a DELETE of one does not.*)
(***************************************************************************)
EXTENDS Integers, Sequences, FiniteSets

CONSTANTS
  Subject,        \* authenticated users
  Founder,        \* the one who created the organization
  Request,        \* calls that may be running at the same time
  MaxInvitations  \* bound on the invitations ever created

ASSUME WorkspaceAssumption == Founder \in Subject /\ MaxInvitations \in Nat

VARIABLES
  members,      \* identity_memberships: subject -> role
  invitations,  \* identity_invitations, by id; accepted_at as a count of acceptances
  tx,           \* what each running call has read
  overlapped    \* history: two calls have been running together

workspaceVars == <<members, invitations, tx, overlapped>>

\* viewer stands for analyst too: they differ in no permission used here.
Role == {"owner", "admin", "viewer"}
Given == Role \ {"owner"}
Managers == {"owner", "admin"}
RoleOf(s) == IF s \in DOMAIN members THEN members[s] ELSE "none"
Pending == {i \in DOMAIN invitations : invitations[i].uses = 0 /\ ~ invitations[i].revoked}

Invitation == [email : Subject, role : Role, by : Subject, uses : Nat,
               revoked : BOOLEAN, expired : BOOLEAN]
NoCall == [at |-> "idle"]
Running ==
  {NoCall} \cup [at : {"permitted"}, by : Subject, as : Managers]
         \cup [at : {"inviting"}, by : Subject, email : Subject, role : Given, replaces : Nat]
         \cup [at : {"invited"}, by : Subject, invitation : Nat \ {0}]
         \cup [at : {"accepting"}, by : Subject, invitation : Nat \ {0},
               loaded : Role \cup {"none"}, gone : BOOLEAN]
         \cup [at : {"changing"}, by : Subject, target : Subject, role : Given,
               loaded : Given, gone : BOOLEAN]
         \cup [at : {"removing"}, target : Subject, gone : BOOLEAN]

WorkspaceTypeOK ==
  /\ DOMAIN members \subseteq Subject /\ members \in [DOMAIN members -> Role]
  /\ invitations \in Seq(Invitation)
  /\ tx \in [Request -> Running]
  /\ overlapped \in BOOLEAN

\* create_organization: its creator becomes the owner.
WorkspaceInit == /\ members = [s \in {Founder} |-> "owner"]
                 /\ invitations = << >>
                 /\ tx = [r \in Request |-> NoCall]
                 /\ overlapped = FALSE

-----------------------------------------------------------------------------
Open(r, call) == /\ tx[r] = NoCall
                 /\ tx' = [tx EXCEPT ![r] = call]
                 /\ overlapped' = (overlapped \/ \E q \in Request \ {r} : tx[q] # NoCall)
                 /\ UNCHANGED <<members, invitations>>

Reads(r, call) == /\ tx' = [tx EXCEPT ![r] = call]
                  /\ UNCHANGED <<members, invitations, overlapped>>

Ends(r) == tx' = [tx EXCEPT ![r] = NoCall] /\ UNCHANGED overlapped

\* Any exception, and a process that is lost: nothing is written.
Gives(r) == tx[r] # NoCall /\ Reads(r, NoCall)

\* require_permission(..., "member:write").
IsPermitted(r, s) == /\ RoleOf(s) \in Managers
                     /\ Open(r, [at |-> "permitted", by |-> s, as |-> RoleOf(s)])

\* Mutant: an admin may appoint an admin.
AppointsFreely(r, role) == TRUE

\* "only the organization owner can grant admin"
MayGive(r, role) == tx[r].as = "admin" => role # "admin"

\* Mutant: an earlier invitation is left as it is.
ReplacesNone(email) == {0}

\* invite_member selects one earlier invitation of that address, if any.
Replaceable(email) == LET earlier == {i \in Pending : invitations[i].email = email}
                      IN  IF earlier = {} THEN {0} ELSE earlier

InviteReads(r, email, role) ==
  /\ tx[r].at = "permitted" /\ MayGive(r, role)
  /\ \E i \in Replaceable(email) :
       Reads(r, [at |-> "inviting", by |-> tx[r].by, email |-> email, role |-> role, replaces |-> i])

InviteCommits(r) ==
  LET t == tx[r]
  IN  /\ t.at = "inviting" /\ Len(invitations) < MaxInvitations
      /\ invitations' =
           Append([i \in DOMAIN invitations |->
                     IF i = t.replaces THEN [invitations[i] EXCEPT !.revoked = TRUE]
                                       ELSE invitations[i]],
                  [email |-> t.email, role |-> t.role, by |-> t.by, uses |-> 0,
                   revoked |-> FALSE, expired |-> FALSE])
      /\ Ends(r) /\ UNCHANGED members

\* Mutant: whoever has the token may use it.
IsBearer(s, i) == TRUE

\* "invitation email does not match authenticated account"
IsAddressee(s, i) == invitations[i].email = s

\* accept_invitation, first select and its checks.
AcceptReads(r, s, i) ==
  /\ i \in Pending /\ ~ invitations[i].expired /\ IsAddressee(s, i)
  /\ Open(r, [at |-> "invited", by |-> s, invitation |-> i])

\* The second select: the membership, if there is one.
AcceptLooks(r) ==
  LET t == tx[r]
  IN  /\ t.at = "invited"
      /\ Reads(r, [at |-> "accepting", by |-> t.by, invitation |-> t.invitation,
                   loaded |-> RoleOf(t.by), gone |-> FALSE])

\* Membership is inserted (once: the unique constraint), updated, or, when the
\* loaded role is the invited one, not written.
Admits(t, role) ==
  \/ t.loaded = role /\ UNCHANGED members
  \/ /\ t.loaded = "none" /\ t.by \notin DOMAIN members
     /\ members' = [s \in DOMAIN members \cup {t.by} |-> IF s = t.by THEN role ELSE members[s]]
  \/ /\ t.loaded \notin {role, "none"} /\ ~ t.gone
     /\ members' = [members EXCEPT ![t.by] = role]

AcceptCommits(r) ==
  LET t == tx[r]
  IN  /\ t.at = "accepting"
      /\ Admits(t, invitations[t.invitation].role)
      /\ invitations' = [invitations EXCEPT ![t.invitation].uses = @ + 1]
      /\ Ends(r)

\* revoke_invitation depends on nothing it reads, also if used or revoked before.
Revoke(r, i) == /\ tx[r].at = "permitted" /\ i \in DOMAIN invitations
                /\ invitations' = [invitations EXCEPT ![i].revoked = TRUE]
                /\ Ends(r) /\ UNCHANGED members

\* A member the caller may change or remove: never the owner, an admin only by the owner.
MayManage(r, target) == /\ RoleOf(target) \in Given
                        /\ tx[r].as = "admin" => RoleOf(target) # "admin"

ChangeReads(r, target, role) ==
  /\ tx[r].at = "permitted" /\ MayManage(r, target) /\ MayGive(r, role)
  /\ Reads(r, [at |-> "changing", by |-> tx[r].by, target |-> target, role |-> role,
               loaded |-> RoleOf(target), gone |-> FALSE])

ChangeCommits(r) ==
  LET t == tx[r]
  IN  /\ t.at = "changing"
      /\ \/ t.loaded = t.role /\ UNCHANGED members
         \/ t.loaded # t.role /\ ~ t.gone /\ members' = [members EXCEPT ![t.target] = t.role]
      /\ Ends(r) /\ UNCHANGED invitations

RemoveReads(r, target) ==
  /\ tx[r].at = "permitted" /\ MayManage(r, target)
  /\ Reads(r, [at |-> "removing", target |-> target, gone |-> FALSE])

\* The rows other calls have loaded of that member are gone.
HoldsRowOf(t, s) == \/ t.at = "accepting" /\ t.by = s /\ t.loaded # "none"
                    \/ t.at \in {"changing", "removing"} /\ t.target = s

RemoveCommits(r) ==
  LET s == tx[r].target
  IN  /\ tx[r].at = "removing"
      /\ members' = IF tx[r].gone THEN members ELSE [m \in DOMAIN members \ {s} |-> members[m]]
      /\ tx' = [q \in Request |-> IF q = r THEN NoCall
                                ELSE IF ~ tx[r].gone /\ HoldsRowOf(tx[q], s)
                                     THEN [tx[q] EXCEPT !.gone = TRUE]
                                     ELSE tx[q]]
      /\ UNCHANGED <<invitations, overlapped>>

\* Seven days pass.
Expire(i) == /\ i \in DOMAIN invitations /\ ~ invitations[i].expired
             /\ invitations' = [invitations EXCEPT ![i].expired = TRUE]
             /\ UNCHANGED <<members, tx, overlapped>>

CallNext(r) ==
  \/ Gives(r) \/ InviteCommits(r) \/ AcceptLooks(r) \/ AcceptCommits(r)
  \/ ChangeCommits(r) \/ RemoveCommits(r)
  \/ \E s \in Subject : IsPermitted(r, s) \/ RemoveReads(r, s)
  \/ \E s \in Subject, i \in DOMAIN invitations : AcceptReads(r, s, i)
  \/ \E s \in Subject, role \in Given : InviteReads(r, s, role) \/ ChangeReads(r, s, role)
  \/ \E i \in DOMAIN invitations : Revoke(r, i)

WorkspaceNext == \/ \E r \in Request : CallNext(r)
                 \/ \E i \in DOMAIN invitations : Expire(i)

WorkspaceSpec == WorkspaceInit /\ [][WorkspaceNext]_workspaceVars

-----------------------------------------------------------------------------
(***************************************************************************)
(* "only the organization owner can grant admin": whenever somebody        *)
(* becomes an admin, by a change of role or by an invitation accepted long *)
(* after it was made, the founder made that call or wrote that invitation. *)
(***************************************************************************)
Grantor(r) == IF tx[r].at = "accepting" THEN invitations[tx[r].invitation].by ELSE tx[r].by

AdminsByOwner ==
  [][\A s \in DOMAIN members' :
       members'[s] = "admin" /\ RoleOf(s) # "admin"
         => \E r \in Request : tx[r] # NoCall /\ tx'[r] = NoCall /\ Grantor(r) = Founder
    ]_workspaceVars

(***************************************************************************)
(* Acceptance "requires the authenticated identity's email to match the    *)
(* invitation email" (docs/PHASE_13): every member but the founder has     *)
(* accepted an invitation to its own address, whatever calls overlap.      *)
(***************************************************************************)
MembersWereInvited ==
  \A s \in DOMAIN members \ {Founder} :
    \E i \in DOMAIN invitations : invitations[i].email = s /\ invitations[i].uses > 0

(***************************************************************************)
(* While calls follow one another, an address has at most one invitation   *)
(* it can still accept, and none was accepted twice.                       *)
(***************************************************************************)
OneInvitationEach ==
  ~ overlapped =>
    /\ \A i, j \in Pending : invitations[i].email = invitations[j].email => i = j
    /\ \A i \in DOMAIN invitations : invitations[i].uses <= 1

(***************************************************************************)
(* docs/PHASE_13_AUTHENTICATED_PLATFORM.md: "Invitation tokens are random, *)
(* single-use, seven-day tokens."                                          *)
(***************************************************************************)
SingleUse == \A i \in DOMAIN invitations : invitations[i].uses <= 1
==============================================================================
