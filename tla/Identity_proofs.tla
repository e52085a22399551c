---------------------------- MODULE Identity_proofs ----------------------------
(***************************************************************************)
(* Who belongs to an organization and who is let in, for any number of     *)
(* users, calls, invitations, requests, organizations and sessions.        *)
(***************************************************************************)
EXTENDS Workspace, AuthSessions, SequenceTheorems, TLAPS

-----------------------------------------------------------------------------
(***************************************************************************)
(* Workspaces.                                                             *)
(***************************************************************************)
\* Nobody but the founder is ever the owner, and only the owner invites admins.
OneOwner == \A s \in DOMAIN members : members[s] = "owner" => s = Founder

InvitationsInOrder ==
  \A i \in DOMAIN invitations : /\ invitations[i].role \in Given
                                /\ invitations[i].role = "admin" => invitations[i].by = Founder

\* What a running call has read entitles it to what it is about to write.
CallInOrder(t) ==
  /\ t.at = "permitted" => (t.as = "owner" => t.by = Founder)
  /\ t.at \in {"inviting", "changing"} => (t.role = "admin" => t.by = Founder)
  /\ t.at \in {"invited", "accepting"} => /\ t.invitation \in DOMAIN invitations
                                          /\ invitations[t.invitation].email = t.by

WorkspaceInv == /\ WorkspaceTypeOK /\ MembersWereInvited
                /\ OneOwner /\ InvitationsInOrder /\ \A r \in Request : CallInOrder(tx[r])

-----------------------------------------------------------------------------
LEMMA InitInv == ASSUME WorkspaceInit PROVE WorkspaceInv
<1>1. invitations \in Seq(Invitation) /\ DOMAIN invitations = {}
  BY DEF WorkspaceInit
<1>2. NoCall \in Running /\ CallInOrder(NoCall)
  BY DEF NoCall, Running, CallInOrder
<1>3. \A r \in Request : tx[r] = NoCall
  BY DEF WorkspaceInit
<1>4. DOMAIN members = {Founder} /\ members[Founder] = "owner"
  BY DEF WorkspaceInit
<1>5. WorkspaceTypeOK
  BY <1>1, <1>2, <1>4, WorkspaceAssumption
  DEF WorkspaceAssumption, WorkspaceInit, WorkspaceTypeOK, Role
<1>6. MembersWereInvited /\ OneOwner /\ InvitationsInOrder
  BY <1>1, <1>4 DEF MembersWereInvited, OneOwner, InvitationsInOrder
<1>. QED  BY <1>2, <1>3, <1>5, <1>6 DEF WorkspaceInv

\* A step that changes one call and neither members nor invitations.
LEMMA ReadingInv ==
  ASSUME WorkspaceInv, NEW r \in Request, NEW t \in Running, tx' = [tx EXCEPT ![r] = t],
         UNCHANGED <<members, invitations>>, overlapped' \in BOOLEAN, CallInOrder(t)
  PROVE  WorkspaceInv'
<1>1. WorkspaceTypeOK'
  BY DEF WorkspaceInv, WorkspaceTypeOK
<1>2. \A q \in Request : CallInOrder(tx[q])'
  <2>. SUFFICES ASSUME NEW q \in Request PROVE CallInOrder(tx[q])'
    OBVIOUS
  <2>1. CASE q = r
    BY <2>1 DEF WorkspaceInv, WorkspaceTypeOK, CallInOrder
  <2>2. CASE q # r
    BY <2>2 DEF WorkspaceInv, WorkspaceTypeOK, CallInOrder
  <2>. QED  BY <2>1, <2>2
<1>3. MembersWereInvited' /\ OneOwner' /\ InvitationsInOrder'
  BY DEF WorkspaceInv, MembersWereInvited, OneOwner, InvitationsInOrder
<1>. QED  BY <1>1, <1>2, <1>3 DEF WorkspaceInv

LEMMA GivesInv == ASSUME WorkspaceInv, NEW r \in Request, Gives(r) PROVE WorkspaceInv'
<1>1. NoCall \in Running /\ CallInOrder(NoCall)
  BY DEF NoCall, Running, CallInOrder
<1>. QED  BY <1>1, ReadingInv DEF Gives, Reads, WorkspaceInv, WorkspaceTypeOK

LEMMA IsPermittedInv ==
  ASSUME WorkspaceInv, NEW r \in Request, NEW s \in Subject, IsPermitted(r, s) PROVE WorkspaceInv'
<1>. DEFINE t == [at |-> "permitted", by |-> s, as |-> RoleOf(s)]
<1>1. t \in Running
  BY DEF IsPermitted, Running
<1>2. CallInOrder(t)
  BY DEF IsPermitted, CallInOrder, WorkspaceInv, OneOwner, RoleOf
<1>. QED  BY <1>1, <1>2, ReadingInv DEF IsPermitted, Open, WorkspaceInv, WorkspaceTypeOK

LEMMA InviteReadsInv ==
  ASSUME WorkspaceInv, NEW r \in Request, NEW email \in Subject, NEW role \in Given,
         InviteReads(r, email, role)
  PROVE  WorkspaceInv'
<1>1. PICK i \in Replaceable(email) :
        Reads(r, [at |-> "inviting", by |-> tx[r].by, email |-> email, role |-> role, replaces |-> i])
  BY DEF InviteReads
<1>. DEFINE t == [at |-> "inviting", by |-> tx[r].by, email |-> email, role |-> role, replaces |-> i]
<1>2. i \in Nat
  BY DEF Replaceable, Pending, WorkspaceInv, WorkspaceTypeOK
<1>3. tx[r].by \in Subject /\ tx[r].as \in Managers
  BY DEF InviteReads, WorkspaceInv, WorkspaceTypeOK, Running, NoCall
<1>4. t \in Running
  BY <1>2, <1>3 DEF Running
<1>5. CallInOrder(t)
  BY <1>3 DEF InviteReads, MayGive, Managers, CallInOrder, WorkspaceInv
<1>. QED  BY <1>1, <1>4, <1>5, ReadingInv DEF Reads, WorkspaceInv, WorkspaceTypeOK

LEMMA AcceptReadsInv ==
  ASSUME WorkspaceInv, NEW r \in Request, NEW s \in Subject, NEW i \in DOMAIN invitations,
         AcceptReads(r, s, i)
  PROVE  WorkspaceInv'
<1>. DEFINE t == [at |-> "invited", by |-> s, invitation |-> i]
<1>1. i \in Nat \ {0}
  BY DEF WorkspaceInv, WorkspaceTypeOK
<1>2. t \in Running /\ CallInOrder(t)
  BY <1>1 DEF Running, CallInOrder, AcceptReads, IsAddressee
<1>. QED  BY <1>2, ReadingInv DEF AcceptReads, Open, WorkspaceInv, WorkspaceTypeOK

LEMMA AcceptLooksInv == ASSUME WorkspaceInv, NEW r \in Request, AcceptLooks(r) PROVE WorkspaceInv'
<1>. DEFINE t == [at |-> "accepting", by |-> tx[r].by, invitation |-> tx[r].invitation,
                  loaded |-> RoleOf(tx[r].by), gone |-> FALSE]
<1>1. tx[r].by \in Subject /\ tx[r].invitation \in Nat \ {0}
  BY DEF AcceptLooks, WorkspaceInv, WorkspaceTypeOK, Running, NoCall
<1>2. RoleOf(tx[r].by) \in Role \cup {"none"}
  BY DEF RoleOf, WorkspaceInv, WorkspaceTypeOK
<1>3. t \in Running
  BY <1>1, <1>2 DEF Running
<1>4. CallInOrder(t)
  BY DEF AcceptLooks, WorkspaceInv, CallInOrder
<1>. QED  BY <1>3, <1>4, ReadingInv DEF AcceptLooks, Reads, WorkspaceInv, WorkspaceTypeOK

LEMMA ChangeReadsInv ==
  ASSUME WorkspaceInv, NEW r \in Request, NEW target \in Subject, NEW role \in Given,
         ChangeReads(r, target, role)
  PROVE  WorkspaceInv'
<1>. DEFINE t == [at |-> "changing", by |-> tx[r].by, target |-> target, role |-> role,
                  loaded |-> RoleOf(target), gone |-> FALSE]
<1>1. tx[r].by \in Subject /\ tx[r].as \in Managers
  BY DEF ChangeReads, WorkspaceInv, WorkspaceTypeOK, Running, NoCall
<1>2. t \in Running
  BY <1>1 DEF Running, ChangeReads, MayManage
<1>3. CallInOrder(t)
  BY <1>1 DEF ChangeReads, MayGive, Managers, CallInOrder, WorkspaceInv
<1>. QED  BY <1>2, <1>3, ReadingInv DEF ChangeReads, Reads, WorkspaceInv, WorkspaceTypeOK

LEMMA RemoveReadsInv ==
  ASSUME WorkspaceInv, NEW r \in Request, NEW target \in Subject, RemoveReads(r, target) PROVE WorkspaceInv'
<1>. DEFINE t == [at |-> "removing", target |-> target, gone |-> FALSE]
<1>1. t \in Running /\ CallInOrder(t)
  BY DEF Running, CallInOrder
<1>. QED  BY <1>1, ReadingInv DEF RemoveReads, Reads, WorkspaceInv, WorkspaceTypeOK

-----------------------------------------------------------------------------
\* Invitations are only ever added, revoked, used or expired.
Kept == \A i \in DOMAIN invitations :
          /\ i \in DOMAIN invitations'
          /\ invitations'[i].email = invitations[i].email
          /\ invitations'[i].uses \in Nat /\ invitations'[i].uses >= invitations[i].uses

\* A call that ends by a commit leaves every call in order: the others keep what
\* they have read, or are told that their row is gone.
LEMMA CommitInOrder ==
  ASSUME WorkspaceInv, Kept, NEW r \in Request, tx' \in [Request -> Running], tx'[r] = NoCall,
         \A q \in Request \ {r} : tx'[q] = tx[q] \/ tx'[q] = [tx[q] EXCEPT !.gone = TRUE]
  PROVE  \A q \in Request : CallInOrder(tx[q])'
<1>. SUFFICES ASSUME NEW q \in Request PROVE CallInOrder(tx[q])'
  OBVIOUS
<1>1. CASE q = r
  BY <1>1 DEF CallInOrder, NoCall
<1>2. CASE tx'[q] = tx[q]
  BY <1>2 DEF CallInOrder, Kept, WorkspaceInv
<1>3. CASE q # r /\ tx'[q] = [tx[q] EXCEPT !.gone = TRUE]
  <2>1. /\ tx'[q].at = tx[q].at /\ tx'[q].as = tx[q].as /\ tx'[q].by = tx[q].by
        /\ tx'[q].role = tx[q].role /\ tx'[q].invitation = tx[q].invitation
    BY <1>3
  <2>. QED  BY <2>1 DEF CallInOrder, Kept, WorkspaceInv
<1>. QED  BY <1>1, <1>2, <1>3

\* Members stay invited as long as invitations are kept and nobody joins.
LEMMA StillInvited ==
  ASSUME WorkspaceInv, Kept, DOMAIN members' \subseteq DOMAIN members PROVE MembersWereInvited'
<1>. SUFFICES ASSUME NEW s \in DOMAIN members' \ {Founder}
              PROVE  \E i \in DOMAIN invitations' :
                       invitations'[i].email = s /\ invitations'[i].uses > 0
  BY DEF MembersWereInvited
<1>1. PICK i \in DOMAIN invitations : invitations[i].email = s /\ invitations[i].uses > 0
  BY DEF WorkspaceInv, MembersWereInvited
<1>2. invitations[i].uses \in Nat
  <2>1. invitations[i] \in Invitation
    BY DEF WorkspaceInv, WorkspaceTypeOK
  <2>. QED  BY <2>1 DEF Invitation
<1>3. /\ i \in DOMAIN invitations' /\ invitations'[i].email = s
      /\ invitations'[i].uses \in Nat /\ invitations'[i].uses >= invitations[i].uses
  BY <1>1 DEF Kept
<1>4. invitations'[i].uses > 0
  BY <1>1, <1>2, <1>3
<1>. QED  BY <1>3, <1>4

LEMMA InviteCommitsInv == ASSUME WorkspaceInv, NEW r \in Request, InviteCommits(r) PROVE WorkspaceInv'
<1>. DEFINE t == tx[r]
            old == [i \in DOMAIN invitations |->
                      IF i = t.replaces THEN [invitations[i] EXCEPT !.revoked = TRUE]
                                        ELSE invitations[i]]
            new == [email |-> t.email, role |-> t.role, by |-> t.by, uses |-> 0,
                    revoked |-> FALSE, expired |-> FALSE]
<1>1. /\ t.by \in Subject /\ t.email \in Subject /\ t.role \in Given
      /\ t.role = "admin" => t.by = Founder
  BY DEF InviteCommits, WorkspaceInv, WorkspaceTypeOK, Running, NoCall, CallInOrder
<1>2. \A i \in DOMAIN invitations : invitations[i] \in Invitation
  BY DEF WorkspaceInv, WorkspaceTypeOK
<1>3. \A i \in DOMAIN invitations :
        /\ old[i] \in Invitation /\ old[i].email = invitations[i].email
        /\ old[i].role = invitations[i].role /\ old[i].by = invitations[i].by
        /\ old[i].uses = invitations[i].uses
  BY <1>2 DEF Invitation
<1>4. old \in Seq(Invitation) /\ Len(old) = Len(invitations)
  BY <1>3 DEF WorkspaceInv, WorkspaceTypeOK
<1>5. new \in Invitation
  BY <1>1 DEF Invitation, Given
<1>6. invitations' = Append(old, new)
  BY DEF InviteCommits
<1>7. /\ invitations' \in Seq(Invitation)
      /\ \A i \in DOMAIN invitations : i \in DOMAIN invitations' /\ invitations'[i] = old[i]
      /\ \A i \in DOMAIN invitations' : i \in DOMAIN invitations \/ invitations'[i] = new
  <2>1. /\ invitations' \in Seq(Invitation) /\ Len(invitations') = Len(old) + 1
        /\ \A i \in 1..Len(old) : invitations'[i] = old[i]
        /\ invitations'[Len(old) + 1] = new
    BY <1>4, <1>5, <1>6, AppendProperties
  <2>2. Len(invitations) \in Nat /\ DOMAIN invitations = 1..Len(invitations)
        /\ DOMAIN invitations' = 1..Len(invitations')
    BY <2>1 DEF WorkspaceInv, WorkspaceTypeOK
  <2>. HIDE DEF old, new
  <2>. QED  BY <1>4, <2>1, <2>2
<1>8. Kept
  <2>. SUFFICES ASSUME NEW i \in DOMAIN invitations
                PROVE  /\ i \in DOMAIN invitations'
                       /\ invitations'[i].email = invitations[i].email
                       /\ invitations'[i].uses = invitations[i].uses /\ invitations[i].uses \in Nat
    BY DEF Kept
  <2>1. invitations[i].uses \in Nat
    BY <1>2 DEF Invitation
  <2>. HIDE DEF old, new
  <2>. QED  BY <1>3, <1>7, <2>1
<1>9. tx' = [tx EXCEPT ![r] = NoCall] /\ NoCall \in Running
      /\ UNCHANGED <<members, overlapped>>
  BY DEF InviteCommits, Ends, Running
<1>10. WorkspaceTypeOK'
  BY <1>7, <1>9 DEF WorkspaceInv, WorkspaceTypeOK
<1>11. InvitationsInOrder'
  <2>1. new.role \in Given /\ (new.role = "admin" => new.by = Founder)
    BY <1>1
  <2>. HIDE DEF old, new
  <2>. QED  BY <2>1, <1>3, <1>7 DEF WorkspaceInv, InvitationsInOrder
<1>12. MembersWereInvited'
  BY <1>8, <1>9, StillInvited
<1>13. \A q \in Request : CallInOrder(tx[q])'
  BY <1>8, <1>9, CommitInOrder DEF WorkspaceInv, WorkspaceTypeOK
<1>. QED  BY <1>9, <1>10, <1>11, <1>12, <1>13 DEF WorkspaceInv, OneOwner

\* Steps that rewrite one invitation, leaving its addressee, role and author alone.
LEMMA RewritingInv ==
  ASSUME WorkspaceInv, NEW i \in DOMAIN invitations, NEW new \in Invitation,
         invitations' = [invitations EXCEPT ![i] = new],
         new.email = invitations[i].email, new.role = invitations[i].role,
         new.by = invitations[i].by, new.uses >= invitations[i].uses
  PROVE  /\ invitations' \in Seq(Invitation) /\ Kept /\ InvitationsInOrder'
         /\ DOMAIN invitations' = DOMAIN invitations /\ invitations'[i] = new
<1>1. \A j \in DOMAIN invitations : invitations[j] \in Invitation
  BY DEF WorkspaceInv, WorkspaceTypeOK
<1>2. /\ DOMAIN invitations' = DOMAIN invitations /\ invitations'[i] = new
      /\ \A j \in DOMAIN invitations \ {i} : invitations'[j] = invitations[j]
  BY DEF WorkspaceInv, WorkspaceTypeOK
<1>3. invitations' \in Seq(Invitation)
  BY DEF WorkspaceInv, WorkspaceTypeOK
<1>4. Kept
  BY <1>1, <1>2 DEF Kept, Invitation
<1>5. InvitationsInOrder'
  BY <1>2 DEF WorkspaceInv, InvitationsInOrder
<1>. QED  BY <1>2, <1>3, <1>4, <1>5

LEMMA RevokeInv ==
  ASSUME WorkspaceInv, NEW r \in Request, NEW i \in DOMAIN invitations, Revoke(r, i) PROVE WorkspaceInv'
<1>. DEFINE new == [invitations[i] EXCEPT !.revoked = TRUE]
<1>1. invitations[i] \in Invitation
  BY DEF WorkspaceInv, WorkspaceTypeOK
<1>2. /\ new \in Invitation /\ new.email = invitations[i].email /\ new.role = invitations[i].role
      /\ new.by = invitations[i].by /\ new.uses >= invitations[i].uses
  <2>1. new.uses = invitations[i].uses /\ invitations[i].uses \in Nat
    BY <1>1 DEF Invitation
  <2>2. new.uses >= invitations[i].uses
    BY <2>1
  <2>. QED  BY <1>1, <2>2 DEF Invitation
<1>3. invitations' = [invitations EXCEPT ![i] = new]
  BY DEF Revoke
<1>4. invitations' \in Seq(Invitation) /\ Kept /\ InvitationsInOrder'
  <2>. HIDE DEF new
  <2>. QED  BY <1>2, <1>3, RewritingInv
<1>5. /\ tx' = [tx EXCEPT ![r] = NoCall] /\ NoCall \in Running
      /\ UNCHANGED <<members, overlapped>>
  BY DEF Revoke, Ends, Running
<1>6. WorkspaceTypeOK' /\ OneOwner'
  BY <1>4, <1>5 DEF WorkspaceInv, WorkspaceTypeOK, OneOwner
<1>7. MembersWereInvited'
  BY <1>4, <1>5, StillInvited
<1>8. \A q \in Request : CallInOrder(tx[q])'
  BY <1>4, <1>5, CommitInOrder DEF WorkspaceInv, WorkspaceTypeOK
<1>. QED  BY <1>4, <1>6, <1>7, <1>8 DEF WorkspaceInv

LEMMA ExpireInv == ASSUME WorkspaceInv, NEW i \in DOMAIN invitations, Expire(i) PROVE WorkspaceInv'
<1>. DEFINE new == [invitations[i] EXCEPT !.expired = TRUE]
<1>1. invitations[i] \in Invitation
  BY DEF WorkspaceInv, WorkspaceTypeOK
<1>2. /\ new \in Invitation /\ new.email = invitations[i].email /\ new.role = invitations[i].role
      /\ new.by = invitations[i].by /\ new.uses >= invitations[i].uses
  <2>1. new.uses = invitations[i].uses /\ invitations[i].uses \in Nat
    BY <1>1 DEF Invitation
  <2>2. new.uses >= invitations[i].uses
    BY <2>1
  <2>. QED  BY <1>1, <2>2 DEF Invitation
<1>3. invitations' = [invitations EXCEPT ![i] = new]
  BY DEF Expire
<1>4. invitations' \in Seq(Invitation) /\ Kept /\ InvitationsInOrder'
  <2>. HIDE DEF new
  <2>. QED  BY <1>2, <1>3, RewritingInv
<1>5. UNCHANGED <<members, tx, overlapped>>
  BY DEF Expire
<1>6. WorkspaceTypeOK' /\ OneOwner'
  BY <1>4, <1>5 DEF WorkspaceInv, WorkspaceTypeOK, OneOwner
<1>7. MembersWereInvited'
  BY <1>4, <1>5, StillInvited
<1>8. \A q \in Request : CallInOrder(tx[q])'
  BY <1>4, <1>5 DEF CallInOrder, Kept, WorkspaceInv
<1>. QED  BY <1>4, <1>6, <1>7, <1>8 DEF WorkspaceInv

LEMMA AcceptCommitsInv == ASSUME WorkspaceInv, NEW r \in Request, AcceptCommits(r) PROVE WorkspaceInv'
<1>. DEFINE t == tx[r]
            i == t.invitation
            new == [invitations[i] EXCEPT !.uses = @ + 1]
<1>1. /\ t.by \in Subject /\ i \in DOMAIN invitations /\ invitations[i].email = t.by
      /\ t.loaded \in Role \cup {"none"}
  BY DEF AcceptCommits, WorkspaceInv, WorkspaceTypeOK, Running, NoCall, CallInOrder
<1>2. invitations[i] \in Invitation
  BY <1>1 DEF WorkspaceInv, WorkspaceTypeOK
<1>3. invitations[i].role \in Given
  BY <1>1 DEF WorkspaceInv, InvitationsInOrder
<1>4. /\ new \in Invitation /\ new.email = invitations[i].email /\ new.role = invitations[i].role
      /\ new.by = invitations[i].by /\ new.uses >= invitations[i].uses /\ new.uses > 0
  <2>1. invitations[i].uses \in Nat /\ new.uses = invitations[i].uses + 1
    BY <1>2 DEF Invitation
  <2>2. new.uses >= invitations[i].uses /\ new.uses > 0 /\ new.uses \in Nat
    BY <2>1
  <2>. QED  BY <1>2, <2>2 DEF Invitation
<1>5. invitations' = [invitations EXCEPT ![i] = new]
  BY DEF AcceptCommits
<1>6. /\ invitations' \in Seq(Invitation) /\ Kept /\ InvitationsInOrder'
      /\ DOMAIN invitations' = DOMAIN invitations /\ invitations'[i] = new
  <2>. HIDE DEF new, i
  <2>. QED  BY <1>1, <1>4, <1>5, RewritingInv
<1>7. tx' = [tx EXCEPT ![r] = NoCall] /\ NoCall \in Running /\ UNCHANGED overlapped
  BY DEF AcceptCommits, Ends, Running
\* Nobody else joins or changes, and the accepting user gets the invited role.
<1>8. /\ DOMAIN members' \subseteq DOMAIN members \cup {t.by}
      /\ members' \in [DOMAIN members' -> Role]
      /\ \A s \in DOMAIN members' :
           \/ s \in DOMAIN members /\ members'[s] = members[s]
           \/ s = t.by /\ members'[s] = invitations[i].role
  <2>. DEFINE role == invitations[i].role
  <2>1. \/ members' = members
        \/ members' = [s \in DOMAIN members \cup {t.by} |->
                        IF s = t.by THEN role ELSE members[s]]
        \/ members' = [members EXCEPT ![t.by] = role]
    BY DEF AcceptCommits, Admits
  <2>2. role \in Role /\ members \in [DOMAIN members -> Role]
    BY <1>3 DEF Given, WorkspaceInv, WorkspaceTypeOK
  <2>. HIDE DEF role
  <2>3. CASE members' = members
    BY <2>2, <2>3
  <2>4. CASE members' = [s \in DOMAIN members \cup {t.by} |->
                          IF s = t.by THEN role ELSE members[s]]
    BY <2>2, <2>4 DEF role
  <2>5. CASE members' = [members EXCEPT ![t.by] = role]
    BY <2>2, <2>5 DEF role
  <2>. QED  BY <2>1, <2>3, <2>4, <2>5
<1>9. WorkspaceTypeOK'
  BY <1>1, <1>6, <1>7, <1>8 DEF WorkspaceInv, WorkspaceTypeOK
<1>10. OneOwner'
  BY <1>3, <1>8 DEF WorkspaceInv, OneOwner, Given
<1>11. MembersWereInvited'
  <2>. SUFFICES ASSUME NEW s \in DOMAIN members' \ {Founder}
                PROVE  \E j \in DOMAIN invitations' :
                         invitations'[j].email = s /\ invitations'[j].uses > 0
    BY DEF MembersWereInvited
  <2>1. CASE s = t.by
    BY <2>1, <1>1, <1>4, <1>6
  <2>2. CASE s \in DOMAIN members
    <3>1. PICK j \in DOMAIN invitations : invitations[j].email = s /\ invitations[j].uses > 0
      BY <2>2 DEF WorkspaceInv, MembersWereInvited
    <3>2. invitations[j] \in Invitation
      BY DEF WorkspaceInv, WorkspaceTypeOK
    <3>3. invitations[j].uses \in Nat
      BY <3>2 DEF Invitation
    <3>4. /\ j \in DOMAIN invitations' /\ invitations'[j].email = s
          /\ invitations'[j].uses \in Nat /\ invitations'[j].uses >= invitations[j].uses
      BY <1>6, <3>1 DEF Kept
    <3>5. invitations'[j].uses > 0
      BY <3>1, <3>3, <3>4
    <3>. QED  BY <3>4, <3>5
  <2>. QED  BY <2>1, <2>2, <1>8
<1>12. \A q \in Request : CallInOrder(tx[q])'
  BY <1>6, <1>7, CommitInOrder DEF WorkspaceInv, WorkspaceTypeOK
<1>. QED  BY <1>6, <1>9, <1>10, <1>11, <1>12 DEF WorkspaceInv

LEMMA ChangeCommitsInv == ASSUME WorkspaceInv, NEW r \in Request, ChangeCommits(r) PROVE WorkspaceInv'
<1>. DEFINE t == tx[r]
<1>1. t.role \in Given /\ t.target \in Subject
  BY DEF ChangeCommits, WorkspaceInv, WorkspaceTypeOK, Running, NoCall
<1>2. /\ tx' = [tx EXCEPT ![r] = NoCall] /\ NoCall \in Running
      /\ UNCHANGED <<invitations, overlapped>>
  BY DEF ChangeCommits, Ends, Running
<1>3. /\ DOMAIN members' = DOMAIN members
      /\ \A s \in DOMAIN members : members'[s] = members[s] \/ members'[s] = t.role
      /\ members' \in [DOMAIN members' -> Role]
  BY <1>1 DEF ChangeCommits, WorkspaceInv, WorkspaceTypeOK, Given
<1>4. \A i \in DOMAIN invitations : invitations[i].uses \in Nat
  <2>1. \A i \in DOMAIN invitations : invitations[i] \in Invitation
    BY DEF WorkspaceInv, WorkspaceTypeOK
  <2>. QED  BY <2>1 DEF Invitation
<1>5. Kept
  BY <1>2, <1>4 DEF Kept
<1>6. WorkspaceTypeOK' /\ InvitationsInOrder'
  BY <1>2, <1>3 DEF WorkspaceInv, WorkspaceTypeOK, InvitationsInOrder
<1>7. OneOwner'
  BY <1>1, <1>3 DEF WorkspaceInv, OneOwner, Given
<1>8. MembersWereInvited'
  BY <1>3, <1>5, StillInvited
<1>9. \A q \in Request : CallInOrder(tx[q])'
  BY <1>2, <1>5, CommitInOrder DEF WorkspaceInv, WorkspaceTypeOK
<1>. QED  BY <1>6, <1>7, <1>8, <1>9 DEF WorkspaceInv

LEMMA RemoveCommitsInv == ASSUME WorkspaceInv, NEW r \in Request, RemoveCommits(r) PROVE WorkspaceInv'
<1>. DEFINE s == tx[r].target
<1>1. /\ DOMAIN members' \subseteq DOMAIN members
      /\ \A m \in DOMAIN members' : members'[m] = members[m]
      /\ members' \in [DOMAIN members' -> Role]
  BY DEF RemoveCommits, WorkspaceInv, WorkspaceTypeOK
<1>2. UNCHANGED <<invitations, overlapped>>
  BY DEF RemoveCommits
<1>3. \A i \in DOMAIN invitations : invitations[i].uses \in Nat
  <2>1. \A i \in DOMAIN invitations : invitations[i] \in Invitation
    BY DEF WorkspaceInv, WorkspaceTypeOK
  <2>. QED  BY <2>1 DEF Invitation
<1>4. Kept
  BY <1>2, <1>3 DEF Kept
<1>5. ASSUME NEW q \in Request, HoldsRowOf(tx[q], s)
      PROVE  [tx[q] EXCEPT !.gone = TRUE] \in Running
  <2>1. CASE tx[q].at = "accepting"
    BY <2>1 DEF WorkspaceInv, WorkspaceTypeOK, Running, NoCall
  <2>2. CASE tx[q].at = "changing"
    BY <2>2 DEF WorkspaceInv, WorkspaceTypeOK, Running, NoCall
  <2>3. CASE tx[q].at = "removing"
    BY <2>3 DEF WorkspaceInv, WorkspaceTypeOK, Running, NoCall
  <2>. QED  BY <1>5, <2>1, <2>2, <2>3 DEF HoldsRowOf
<1>6. /\ tx' \in [Request -> Running] /\ tx'[r] = NoCall
      /\ \A q \in Request \ {r} : tx'[q] = tx[q] \/ tx'[q] = [tx[q] EXCEPT !.gone = TRUE]
  <2>1. \A q \in Request :
          tx'[q] = IF q = r THEN NoCall
                   ELSE IF ~ tx[r].gone /\ HoldsRowOf(tx[q], s)
                        THEN [tx[q] EXCEPT !.gone = TRUE]
                        ELSE tx[q]
    BY DEF RemoveCommits
  <2>2. tx'[r] = NoCall /\ NoCall \in Running
    BY <2>1 DEF Running
  <2>3. \A q \in Request \ {r} :
          \/ tx'[q] = tx[q]
          \/ HoldsRowOf(tx[q], s) /\ tx'[q] = [tx[q] EXCEPT !.gone = TRUE]
    BY <2>1
  <2>4. \A q \in Request : tx'[q] \in Running
    BY <1>5, <2>2, <2>3 DEF WorkspaceInv, WorkspaceTypeOK
  <2>5. tx' = [q \in Request |-> tx'[q]]
    BY DEF RemoveCommits
  <2>. QED  BY <2>2, <2>3, <2>4, <2>5
<1>7. WorkspaceTypeOK' /\ OneOwner' /\ InvitationsInOrder'
  BY <1>1, <1>2, <1>6 DEF WorkspaceInv, WorkspaceTypeOK, OneOwner, InvitationsInOrder
<1>8. MembersWereInvited'
  BY <1>1, <1>4, StillInvited
<1>9. \A q \in Request : CallInOrder(tx[q])'
  BY <1>4, <1>6, CommitInOrder
<1>. QED  BY <1>7, <1>8, <1>9 DEF WorkspaceInv

LEMMA StepInv == ASSUME WorkspaceInv, [WorkspaceNext]_workspaceVars PROVE WorkspaceInv'
<1>1. ASSUME NEW r \in Request, CallNext(r) PROVE WorkspaceInv'
  BY <1>1, GivesInv, InviteCommitsInv, AcceptLooksInv, AcceptCommitsInv, ChangeCommitsInv,
     RemoveCommitsInv, IsPermittedInv, RemoveReadsInv, AcceptReadsInv, InviteReadsInv,
     ChangeReadsInv, RevokeInv DEF CallNext
<1>2. CASE \E i \in DOMAIN invitations : Expire(i)
  BY <1>2, ExpireInv
<1>3. CASE UNCHANGED workspaceVars
  BY <1>3 DEF workspaceVars, WorkspaceInv, WorkspaceTypeOK, MembersWereInvited, OneOwner,
              InvitationsInOrder, CallInOrder
<1>. QED  BY <1>1, <1>2, <1>3 DEF WorkspaceNext

\* A step that makes somebody an admin is a commit of the founder's.
LEMMA AdminStep ==
  ASSUME WorkspaceInv, [WorkspaceNext]_workspaceVars, NEW s \in DOMAIN members',
         members'[s] = "admin", RoleOf(s) # "admin"
  PROVE  \E r \in Request : tx[r] # NoCall /\ tx'[r] = NoCall /\ Grantor(r) = Founder
<1>1. members' # members
  BY DEF RoleOf
<1>2. PICK r \in Request : AcceptCommits(r) \/ ChangeCommits(r) \/ RemoveCommits(r)
  BY <1>1
  DEF WorkspaceNext, CallNext, Expire, Gives, InviteCommits, AcceptLooks, IsPermitted, RemoveReads,
      AcceptReads, InviteReads, ChangeReads, Revoke, Reads, Open, workspaceVars
<1>3. CASE AcceptCommits(r)
  <2>. DEFINE i == tx[r].invitation
  <2>1. /\ tx[r].at = "accepting" /\ i \in DOMAIN invitations
        /\ Admits(tx[r], invitations[i].role)
    BY <1>3 DEF AcceptCommits, WorkspaceInv, CallInOrder
  <2>2. members'[s] = invitations[i].role
    <3>. DEFINE role == invitations[i].role
                by == tx[r].by
    <3>1. \/ members' = members
          \/ members' = [m \in DOMAIN members \cup {by} |-> IF m = by THEN role ELSE members[m]]
          \/ members' = [members EXCEPT ![by] = role]
      BY <2>1 DEF Admits
    <3>2. members \in [DOMAIN members -> Role]
      BY DEF WorkspaceInv, WorkspaceTypeOK
    <3>. HIDE DEF role, by
    <3>3. members'[s] = role
      BY <1>1, <3>1, <3>2 DEF RoleOf
    <3>. QED  BY <3>3 DEF role
  <2>3. invitations[i].by = Founder
    BY <2>1, <2>2 DEF WorkspaceInv, InvitationsInOrder
  <2>4. tx[r] # NoCall /\ tx'[r] = NoCall
    BY <1>3, <2>1 DEF AcceptCommits, Ends, NoCall, WorkspaceInv, WorkspaceTypeOK
  <2>. QED  BY <2>1, <2>3, <2>4 DEF Grantor
<1>4. CASE ChangeCommits(r)
  <2>1. tx[r].at = "changing" /\ members' = [members EXCEPT ![tx[r].target] = tx[r].role]
    BY <1>1, <1>4 DEF ChangeCommits
  <2>2. members \in [DOMAIN members -> Role]
    BY DEF WorkspaceInv, WorkspaceTypeOK
  <2>3. tx[r].role = "admin"
    BY <2>1, <2>2 DEF RoleOf
  <2>4. tx[r].by = Founder
    BY <2>1, <2>3 DEF WorkspaceInv, CallInOrder
  <2>5. tx[r] # NoCall /\ tx'[r] = NoCall
    BY <1>4, <2>1 DEF ChangeCommits, Ends, NoCall, WorkspaceInv, WorkspaceTypeOK
  <2>. QED  BY <2>1, <2>4, <2>5 DEF Grantor
<1>5. CASE RemoveCommits(r)
  BY <1>1, <1>5 DEF RemoveCommits, RoleOf
<1>. QED  BY <1>2, <1>3, <1>4, <1>5

-----------------------------------------------------------------------------
\* The inductive invariant holds in every reachable state.
THEOREM WorkspaceInvariance == WorkspaceSpec => []WorkspaceInv
BY InitInv, StepInv, PTL DEF WorkspaceSpec

\* Memberships, invitations and what calls have read are of their types.
THEOREM WorkspaceTypeCorrect == WorkspaceSpec => []WorkspaceTypeOK
BY WorkspaceInvariance, PTL DEF WorkspaceInv

\* core/identity.py:91: nobody but the founder is a member without having accepted
\* an invitation to its own address, however many calls overlap.
THEOREM MembershipByInvitation == WorkspaceSpec => []MembersWereInvited
BY WorkspaceInvariance, PTL DEF WorkspaceInv

\* core/identity.py:79 and 110: whoever becomes an admin was made one by the founder,
\* also by a call that began, or an invitation that was written, much earlier.
THEOREM OnlyOwnerMakesAdmins == WorkspaceSpec => AdminsByOwner
<1>. DEFINE ByOwner ==
       \A s \in DOMAIN members' :
         members'[s] = "admin" /\ RoleOf(s) # "admin"
           => \E r \in Request : tx[r] # NoCall /\ tx'[r] = NoCall /\ Grantor(r) = Founder
<1>1. WorkspaceInv /\ [WorkspaceNext]_workspaceVars => [ByOwner]_workspaceVars
  BY AdminStep
<1>. QED  BY <1>1, WorkspaceInvariance, PTL DEF WorkspaceSpec, AdminsByOwner

-----------------------------------------------------------------------------
(***************************************************************************)
(* While calls follow one another.  What a call has read is then still so  *)
(* when it commits: the earlier invitation it replaces is the only one of  *)
(* that address, and the invitation it accepts has not been accepted.      *)
(***************************************************************************)
Alone == \A r \in Request, q \in Request : tx[r] # NoCall /\ tx[q] # NoCall => r = q

OneEach == /\ \A i, j \in Pending : invitations[i].email = invitations[j].email => i = j
           /\ \A i \in DOMAIN invitations : invitations[i].uses <= 1

Fresh(t) ==
  /\ t.at = "inviting" =>
       \A i \in Pending : invitations[i].email = t.email => i = t.replaces
  /\ t.at \in {"invited", "accepting"} => invitations[t.invitation].uses = 0

OneByOne == ~ overlapped => Alone /\ OneEach /\ \A r \in Request : Fresh(tx[r])

LEMMA InitOneByOne == ASSUME WorkspaceInit PROVE OneByOne
BY DEF WorkspaceInit, OneByOne, Alone, OneEach, Pending, Fresh, NoCall

\* The only running call reads on, or another begins when there is none.
LEMMA ReadsOneByOne ==
  ASSUME WorkspaceInv, OneByOne, NEW r \in Request, NEW t,
         \A q \in Request : q # r => tx'[q] = tx[q], tx'[r] = t,
         UNCHANGED invitations, ~ overlapped' => ~ overlapped,
         ~ overlapped' => \A q \in Request : q # r => tx[q] = NoCall,
         ~ overlapped' => Fresh(t)
  PROVE  OneByOne'
<1>. SUFFICES ASSUME ~ overlapped' PROVE Alone' /\ OneEach' /\ \A q \in Request : Fresh(tx[q])'
  BY DEF OneByOne
<1>1. Alone'
  BY DEF Alone
<1>2. OneEach' /\ Pending' = Pending
  BY DEF OneByOne, OneEach, Pending
<1>3. \A q \in Request : Fresh(tx[q])'
  BY <1>2 DEF OneByOne, Fresh
<1>. QED  BY <1>1, <1>2, <1>3

\* The only running call ends, whatever it has made of the invitations.
LEMMA EndsOneByOne ==
  ASSUME WorkspaceInv, OneByOne, NEW r \in Request, tx[r] # NoCall, tx'[r] = NoCall,
         \A q \in Request : tx[q] = NoCall => tx'[q] = NoCall,
         overlapped' = overlapped, ~ overlapped => OneEach'
  PROVE  OneByOne'
<1>. SUFFICES ASSUME ~ overlapped PROVE Alone' /\ OneEach' /\ \A q \in Request : Fresh(tx[q])'
  BY DEF OneByOne
<1>1. \A q \in Request : tx'[q] = NoCall
  BY DEF OneByOne, Alone
<1>. QED  BY <1>1 DEF Alone, Fresh, NoCall

LEMMA RunsAlone ==
  ASSUME OneByOne, ~ overlapped, NEW r \in Request, tx[r] # NoCall
  PROVE  \A q \in Request : q # r => tx[q] = NoCall
BY DEF OneByOne, Alone

LEMMA OpensOneByOne ==
  ASSUME WorkspaceInv, OneByOne, NEW r \in Request, NEW t, Open(r, t), Fresh(t)
  PROVE  OneByOne'
<1>1. /\ \A q \in Request : q # r => tx'[q] = tx[q]
      /\ tx'[r] = t /\ UNCHANGED invitations
      /\ overlapped' = (overlapped \/ \E q \in Request \ {r} : tx[q] # NoCall)
  BY DEF Open, WorkspaceInv, WorkspaceTypeOK
<1>2. ~ overlapped' => ~ overlapped /\ \A q \in Request : q # r => tx[q] = NoCall
  BY <1>1
<1>. QED  BY <1>1, <1>2, ReadsOneByOne

LEMMA GoesOnOneByOne ==
  ASSUME WorkspaceInv, OneByOne, NEW r \in Request, NEW t, tx[r] # NoCall, Reads(r, t),
         ~ overlapped => Fresh(t)
  PROVE  OneByOne'
<1>1. /\ \A q \in Request : q # r => tx'[q] = tx[q]
      /\ tx'[r] = t /\ UNCHANGED <<invitations, overlapped>>
  BY DEF Reads, WorkspaceInv, WorkspaceTypeOK
<1>. QED  BY <1>1, RunsAlone, ReadsOneByOne

\* One invitation is rewritten and does not become pending by it.
LEMMA RewritingOneEach ==
  ASSUME WorkspaceInv, OneEach, NEW i \in DOMAIN invitations, NEW new,
         invitations' = [invitations EXCEPT ![i] = new],
         new.email = invitations[i].email, new.uses <= 1,
         new.uses = 0 /\ ~ new.revoked => i \in Pending
  PROVE  OneEach'
<1>1. /\ DOMAIN invitations' = DOMAIN invitations /\ invitations'[i] = new
      /\ \A j \in DOMAIN invitations : j # i => invitations'[j] = invitations[j]
  BY DEF WorkspaceInv, WorkspaceTypeOK
<1>2. Pending' \subseteq Pending /\ \A j \in DOMAIN invitations : invitations'[j].email = invitations[j].email
  BY <1>1 DEF Pending
<1>3. \A j \in DOMAIN invitations' : invitations'[j].uses <= 1
  BY <1>1 DEF OneEach
<1>4. Pending \subseteq DOMAIN invitations
  BY DEF Pending
<1>. QED  BY <1>2, <1>3, <1>4 DEF OneEach

\* The invitation added is the only one of its address: the other was replaced.
LEMMA InviteOneEach ==
  ASSUME WorkspaceInv, OneEach, NEW r \in Request, InviteCommits(r), Fresh(tx[r])
  PROVE  OneEach'
<1>. DEFINE t == tx[r]
            old == [i \in DOMAIN invitations |->
                      IF i = t.replaces THEN [invitations[i] EXCEPT !.revoked = TRUE]
                                        ELSE invitations[i]]
            new == [email |-> t.email, role |-> t.role, by |-> t.by, uses |-> 0,
                    revoked |-> FALSE, expired |-> FALSE]
<1>1. \A i \in DOMAIN invitations : invitations[i] \in Invitation
  BY DEF WorkspaceInv, WorkspaceTypeOK
<1>2. \A i \in DOMAIN invitations :
        /\ old[i] \in Invitation /\ old[i].email = invitations[i].email
        /\ old[i].uses = invitations[i].uses
        /\ old[i].revoked = (invitations[i].revoked \/ i = t.replaces)
  BY <1>1 DEF Invitation
<1>3. old \in Seq(Invitation) /\ Len(old) = Len(invitations)
  <2>1. \A i \in DOMAIN invitations : old[i] \in Invitation
    BY <1>2
  <2>. QED  BY <2>1 DEF WorkspaceInv, WorkspaceTypeOK
<1>4. new \in Invitation
  BY DEF InviteCommits, WorkspaceInv, WorkspaceTypeOK, Running, NoCall, Invitation, Given
<1>5. invitations' = Append(old, new) /\ t.at = "inviting"
  BY DEF InviteCommits
<1>6. new.email = t.email /\ new.uses = 0
  OBVIOUS
<1>. HIDE DEF old, new
<1>7. /\ Len(invitations) \in Nat /\ DOMAIN invitations = 1..Len(invitations)
      /\ DOMAIN invitations' = 1..(Len(invitations) + 1)
      /\ \A i \in DOMAIN invitations : invitations'[i] = old[i]
      /\ invitations'[Len(invitations) + 1] = new
  <2>1. /\ invitations' \in Seq(Invitation) /\ Len(invitations') = Len(old) + 1
        /\ \A i \in 1..Len(old) : invitations'[i] = old[i]
        /\ invitations'[Len(old) + 1] = new
    BY <1>3, <1>4, <1>5, AppendProperties
  <2>2. Len(invitations) \in Nat /\ DOMAIN invitations = 1..Len(invitations)
        /\ DOMAIN invitations' = 1..Len(invitations')
    BY <2>1 DEF WorkspaceInv, WorkspaceTypeOK
  <2>. QED  BY <1>3, <2>1, <2>2
<1>8. \A i \in DOMAIN invitations' : i \in DOMAIN invitations \/ i = Len(invitations) + 1
  BY <1>7
<1>9. \A i \in DOMAIN invitations : i \in Pending' => i \in Pending /\ i # t.replaces
  BY <1>2, <1>7 DEF Pending
<1>10. Pending' \subseteq DOMAIN invitations'
  BY DEF Pending
<1>11. \A i \in DOMAIN invitations : i \in Pending' => invitations'[i].email # t.email
  BY <1>2, <1>5, <1>7, <1>9 DEF Fresh
<1>12. ASSUME NEW i \in Pending', NEW j \in Pending', invitations'[i].email = invitations'[j].email
       PROVE  i = j
  <2>1. CASE i \in DOMAIN invitations /\ j \in DOMAIN invitations
    BY <1>2, <1>7, <1>9, <1>12, <2>1 DEF OneEach
  <2>2. CASE i \notin DOMAIN invitations \/ j \notin DOMAIN invitations
    BY <1>6, <1>7, <1>8, <1>10, <1>11, <1>12, <2>2
  <2>. QED  BY <2>1, <2>2
<1>13. \A i \in DOMAIN invitations' : invitations'[i].uses <= 1
  BY <1>2, <1>6, <1>7, <1>8 DEF OneEach
<1>. QED  BY <1>12, <1>13 DEF OneEach

LEMMA OneByOneStep == ASSUME WorkspaceInv, OneByOne, [WorkspaceNext]_workspaceVars PROVE OneByOne'
<1>1. ASSUME NEW r \in Request, Gives(r) PROVE OneByOne'
  <2>1. Fresh(NoCall)
    BY DEF Fresh, NoCall
  <2>. QED  BY <1>1, <2>1, GoesOnOneByOne DEF Gives
<1>2. ASSUME NEW r \in Request, NEW s \in Subject, IsPermitted(r, s) PROVE OneByOne'
  <2>1. Fresh([at |-> "permitted", by |-> s, as |-> RoleOf(s)])
    BY DEF Fresh
  <2>. QED  BY <1>2, <2>1, OpensOneByOne DEF IsPermitted
<1>3. ASSUME NEW r \in Request, NEW s \in Subject, NEW i \in DOMAIN invitations, AcceptReads(r, s, i)
      PROVE  OneByOne'
  <2>1. Fresh([at |-> "invited", by |-> s, invitation |-> i])
    BY <1>3 DEF Fresh, AcceptReads, Pending
  <2>. QED  BY <1>3, <2>1, OpensOneByOne DEF AcceptReads
<1>4. ASSUME NEW r \in Request, AcceptLooks(r) PROVE OneByOne'
  <2>. DEFINE t == [at |-> "accepting", by |-> tx[r].by, invitation |-> tx[r].invitation,
                    loaded |-> RoleOf(tx[r].by), gone |-> FALSE]
  <2>1. tx[r].at = "invited" /\ tx[r] # NoCall /\ Reads(r, t)
    BY <1>4 DEF AcceptLooks, NoCall
  <2>2. ~ overlapped => Fresh(t)
    BY <2>1 DEF OneByOne, Fresh
  <2>. QED  BY <2>1, <2>2, GoesOnOneByOne
<1>5. ASSUME NEW r \in Request, NEW email \in Subject, NEW role \in Given, InviteReads(r, email, role)
      PROVE  OneByOne'
  <2>1. PICK i \in Replaceable(email) :
          Reads(r, [at |-> "inviting", by |-> tx[r].by, email |-> email, role |-> role, replaces |-> i])
    BY <1>5 DEF InviteReads
  <2>2. tx[r] # NoCall
    BY <1>5 DEF InviteReads, NoCall
  <2>3. ~ overlapped => Fresh([at |-> "inviting", by |-> tx[r].by, email |-> email, role |-> role,
                               replaces |-> i])
    BY <2>1 DEF Fresh, Replaceable, OneByOne, OneEach
  <2>. QED  BY <2>1, <2>2, <2>3, GoesOnOneByOne
<1>6. ASSUME NEW r \in Request, NEW target \in Subject, NEW role \in Given, ChangeReads(r, target, role)
      PROVE  OneByOne'
  <2>1. /\ tx[r] # NoCall
        /\ Reads(r, [at |-> "changing", by |-> tx[r].by, target |-> target, role |-> role,
                     loaded |-> RoleOf(target), gone |-> FALSE])
    BY <1>6 DEF ChangeReads, NoCall
  <2>2. Fresh([at |-> "changing", by |-> tx[r].by, target |-> target, role |-> role,
               loaded |-> RoleOf(target), gone |-> FALSE])
    BY DEF Fresh
  <2>. QED  BY <2>1, <2>2, GoesOnOneByOne
<1>7. ASSUME NEW r \in Request, NEW target \in Subject, RemoveReads(r, target) PROVE OneByOne'
  <2>1. tx[r] # NoCall /\ Reads(r, [at |-> "removing", target |-> target, gone |-> FALSE])
    BY <1>7 DEF RemoveReads, NoCall
  <2>2. Fresh([at |-> "removing", target |-> target, gone |-> FALSE])
    BY DEF Fresh
  <2>. QED  BY <2>1, <2>2, GoesOnOneByOne
<1>8. ASSUME NEW r \in Request, InviteCommits(r) PROVE OneByOne'
  <2>1. tx[r] # NoCall /\ Ends(r)
    BY <1>8 DEF InviteCommits, NoCall
  <2>2. ~ overlapped => OneEach'
    BY <1>8, InviteOneEach DEF OneByOne
  <2>. QED  BY <2>1, <2>2, EndsOneByOne DEF Ends, WorkspaceInv, WorkspaceTypeOK
<1>9. ASSUME NEW r \in Request, AcceptCommits(r) PROVE OneByOne'
  <2>. DEFINE i == tx[r].invitation
              new == [invitations[i] EXCEPT !.uses = @ + 1]
  <2>1. /\ tx[r] # NoCall /\ Ends(r) /\ i \in DOMAIN invitations
        /\ invitations' = [invitations EXCEPT ![i] = new] /\ tx[r].at = "accepting"
    BY <1>9 DEF AcceptCommits, NoCall, WorkspaceInv, CallInOrder
  <2>2. invitations[i] \in Invitation
    BY <2>1 DEF WorkspaceInv, WorkspaceTypeOK
  <2>3. new.email = invitations[i].email /\ new.uses = invitations[i].uses + 1
    BY <2>2 DEF Invitation
  <2>4. ~ overlapped => invitations[i].uses = 0
    BY <2>1 DEF OneByOne, Fresh
  <2>. HIDE DEF new, i
  <2>5. ASSUME ~ overlapped PROVE OneEach'
    <3>1. OneEach /\ new.uses = 1 /\ new.email = invitations[i].email
      BY <2>3, <2>4, <2>5 DEF OneByOne
    <3>2. new.uses <= 1 /\ ~ (new.uses = 0 /\ ~ new.revoked)
      BY <3>1
    <3>. QED  BY <2>1, <3>1, <3>2, RewritingOneEach
  <2>. QED  BY <2>1, <2>5, EndsOneByOne DEF Ends, WorkspaceInv, WorkspaceTypeOK
<1>10. ASSUME NEW r \in Request, NEW i \in DOMAIN invitations, Revoke(r, i) PROVE OneByOne'
  <2>. DEFINE new == [invitations[i] EXCEPT !.revoked = TRUE]
  <2>1. /\ tx[r] # NoCall /\ Ends(r) /\ invitations' = [invitations EXCEPT ![i] = new]
    BY <1>10 DEF Revoke, NoCall
  <2>2. invitations[i] \in Invitation
    BY DEF WorkspaceInv, WorkspaceTypeOK
  <2>3. new.email = invitations[i].email /\ new.uses = invitations[i].uses /\ new.revoked
    BY <2>2 DEF Invitation
  <2>. HIDE DEF new
  <2>4. ~ overlapped => OneEach'
    <3>1. ~ overlapped => OneEach /\ invitations[i].uses <= 1
      BY DEF OneByOne, OneEach
    <3>. QED  BY <2>1, <2>3, <3>1, RewritingOneEach
  <2>. QED  BY <2>1, <2>4, EndsOneByOne DEF Ends, WorkspaceInv, WorkspaceTypeOK
<1>11. ASSUME NEW r \in Request, ChangeCommits(r) PROVE OneByOne'
  <2>1. tx[r] # NoCall /\ Ends(r) /\ UNCHANGED invitations
    BY <1>11 DEF ChangeCommits, NoCall
  <2>2. ~ overlapped => OneEach'
    BY <2>1 DEF OneByOne, OneEach, Pending
  <2>. QED  BY <2>1, <2>2, EndsOneByOne DEF Ends, WorkspaceInv, WorkspaceTypeOK
<1>12. ASSUME NEW r \in Request, RemoveCommits(r) PROVE OneByOne'
  <2>1. tx[r] # NoCall /\ UNCHANGED <<invitations, overlapped>>
    BY <1>12 DEF RemoveCommits, NoCall
  <2>2. tx'[r] = NoCall /\ \A q \in Request : tx[q] = NoCall => tx'[q] = NoCall
    BY <1>12 DEF RemoveCommits, HoldsRowOf, NoCall
  <2>3. ~ overlapped => OneEach'
    BY <2>1 DEF OneByOne, OneEach, Pending
  <2>. QED  BY <2>1, <2>2, <2>3, EndsOneByOne
<1>13. ASSUME NEW i \in DOMAIN invitations, Expire(i) PROVE OneByOne'
  <2>. DEFINE new == [invitations[i] EXCEPT !.expired = TRUE]
  <2>1. invitations' = [invitations EXCEPT ![i] = new] /\ UNCHANGED <<tx, overlapped>>
    BY <1>13 DEF Expire
  <2>2. invitations[i] \in Invitation
    BY DEF WorkspaceInv, WorkspaceTypeOK
  <2>3. /\ new.email = invitations[i].email /\ new.uses = invitations[i].uses
        /\ new.revoked = invitations[i].revoked
    BY <2>2 DEF Invitation
  <2>. HIDE DEF new
  <2>4. \A j \in DOMAIN invitations : /\ invitations'[j].email = invitations[j].email
                                      /\ invitations'[j].uses = invitations[j].uses
                                      /\ invitations'[j].revoked = invitations[j].revoked
    BY <2>1, <2>3 DEF WorkspaceInv, WorkspaceTypeOK
  <2>5. DOMAIN invitations' = DOMAIN invitations
    BY <2>1
  <2>6. Pending' = Pending
    BY <2>4, <2>5 DEF Pending
  <2>7. \A r \in Request : tx[r].at \in {"invited", "accepting"} => tx[r].invitation \in DOMAIN invitations
    BY DEF WorkspaceInv, CallInOrder
  <2>8. Pending \subseteq DOMAIN invitations
    BY DEF Pending
  <2>9. ~ overlapped => OneEach' /\ Alone'
    BY <2>1, <2>4, <2>5, <2>6, <2>8 DEF OneByOne, OneEach, Alone
  <2>10. ~ overlapped => \A r \in Request : Fresh(tx[r])'
    BY <2>1, <2>4, <2>6, <2>7, <2>8 DEF OneByOne, Fresh
  <2>. QED  BY <2>1, <2>9, <2>10 DEF OneByOne
<1>14. CASE UNCHANGED workspaceVars
  BY <1>14 DEF workspaceVars, OneByOne, Alone, OneEach, Pending, Fresh
<1>15. ASSUME NEW r \in Request, CallNext(r) PROVE OneByOne'
  BY <1>1, <1>2, <1>3, <1>4, <1>5, <1>6, <1>7, <1>8, <1>9, <1>10, <1>11, <1>12, <1>15 DEF CallNext
<1>. QED  BY <1>13, <1>14, <1>15 DEF WorkspaceNext

\* core/identity.py:82 and 90: calls that follow one another leave an address at most
\* one invitation it can still accept, and accept none twice.
THEOREM InvitationsAreUsedOnce == WorkspaceSpec => []OneInvitationEach
<1>1. OneByOne => OneInvitationEach
  BY DEF OneByOne, OneEach, OneInvitationEach
<1>2. WorkspaceSpec => []OneByOne
  BY InitOneByOne, OneByOneStep, WorkspaceInvariance, PTL DEF WorkspaceSpec
<1>. QED  BY <1>1, <1>2, PTL

-----------------------------------------------------------------------------
(***************************************************************************)
(* Sessions and admission.                                                 *)
(***************************************************************************)
Session == [org : Org \cup {NoOrg}, revoked : BOOLEAN, expired : BOOLEAN]
Place == {"arrived", "touching", "validated", "identified", "entered", "registering",
          "revoking", "permitted", "switching"}
Served == [at : Place, call : Calls, session : Nat, org : Org \cup {NoOrg},
           claim : Org \cup {NoOrg}, admin : BOOLEAN, dead : SUBSET Nat, disabled : BOOLEAN,
           loaded : SUBSET Nat, held : SUBSET Org]

AuthTypeOK == /\ production \in BOOLEAN
              /\ user \in {"absent", "active", "disabled"}
              /\ roles \in [Org -> MemberRole]
              /\ sessions \in Seq(Session)
              /\ https \in [Http -> Served \cup {NoHttp}]
              /\ ended \subseteq DOMAIN sessions
              /\ changes \in Nat

(***************************************************************************)
(* What is true of a request between its transactions.  Its history stays  *)
(* true: what was dead as it came is dead, a disabled account is disabled, *)
(* and a membership the user has is one it had during the request.  The    *)
(* rest is what each check has established for good.                       *)
(***************************************************************************)
InOrder(h) ==
  Serving(h) =>
    /\ https[h].call = "work" => https[h].org # NoOrg
    /\ https[h].dead \subseteq Dead
    /\ https[h].disabled => user = "disabled"
    /\ \A o \in Org : roles[o] # "none" => o \in https[h].held
    /\ https[h].loaded \subseteq DOMAIN sessions
    /\ https[h].at # "arrived" => https[h].session \notin https[h].dead
    /\ Admitted(h) => ~ https[h].disabled
    /\ https[h].at = "entered" => \/ https[h].org \in https[h].held
                                  \/ https[h].admin
                                  \/ ~ production /\ https[h].org = https[h].claim

AuthInv == /\ AuthTypeOK
           /\ \A s \in ended : sessions[s].revoked
           /\ \A h \in Http : InOrder(h)

\* No session is forgotten, revived or extended.
OnlyDies ==
  /\ DOMAIN sessions \subseteq DOMAIN sessions'
  /\ \A s \in DOMAIN sessions : /\ sessions[s].revoked => sessions'[s].revoked
                                /\ sessions[s].expired => sessions'[s].expired

LEMMA InitEstablishes == AuthInit => AuthInv
<1> SUFFICES ASSUME AuthInit PROVE AuthInv
  OBVIOUS
<1>1. sessions \in Seq(Session) /\ \A h \in Http : https[h] = NoHttp
  BY DEF AuthInit
<1>2. AuthTypeOK
  BY <1>1 DEF AuthInit, AuthTypeOK
<1>3. \A h \in Http : InOrder(h)
  BY <1>1 DEF InOrder, Serving
<1> QED BY <1>2, <1>3 DEF AuthInv, AuthInit

\* A table changed in place is still a table.
LEMMA InPlace ==
    ASSUME NEW q \in Seq(Session), NEW f, DOMAIN f = DOMAIN q, f = [s \in DOMAIN q |-> f[s]],
           \A s \in DOMAIN q : f[s] \in Session
    PROVE  f \in Seq(Session)
<1>1. DOMAIN q = 1..Len(q) /\ Len(q) \in Nat
  OBVIOUS
<1>2. f \in [1..Len(q) -> Session]
  BY <1>1
<1> QED BY <1>1, <1>2, SeqDef

LEMMA DeadStaysDead ==
    ASSUME AuthTypeOK, OnlyDies PROVE Dead \subseteq Dead' /\ Dead \subseteq DOMAIN sessions
BY DEF OnlyDies, Dead, Live

LEMMA ServedTyped ==
    ASSUME AuthTypeOK, NEW h \in Http, Serving(h) PROVE https[h] \in Served
BY DEF AuthTypeOK, Serving

(***************************************************************************)
(* A request that does not move while another does stays in order, as long *)
(* as sessions only die, the account is not enabled again and nobody joins.*)
(***************************************************************************)
LEMMA OthersStay ==
    ASSUME AuthInv, OnlyDies, NEW h \in Http, https'[h] = https[h], production' = production,
           user = "disabled" => user' = "disabled", roles' = roles
    PROVE  InOrder(h)'
<1>1. InOrder(h) /\ Dead \subseteq Dead' /\ DOMAIN sessions \subseteq DOMAIN sessions'
  BY DeadStaysDead DEF AuthInv, OnlyDies
<1> QED BY <1>1 DEF InOrder, Serving, Admitted

(***************************************************************************)
(* A request that moves on keeps everything but its place; what it must    *)
(* bring along is what the new place promises.                             *)
(***************************************************************************)
LEMMA MovesOn ==
    ASSUME AuthInv, OnlyDies, NEW h \in Http, NEW a \in Place, Serving(h), Moves(h, a),
           production' = production, user = "disabled" => user' = "disabled", roles' = roles,
           https[h].session \notin https[h].dead,
           a \notin {"arrived", "touching", "validated"} => ~ https[h].disabled,
           a = "entered" => \/ https[h].org \in https[h].held
                            \/ https[h].admin
                            \/ ~ production /\ https[h].org = https[h].claim
    PROVE  /\ https' \in [Http -> Served \cup {NoHttp}]
           /\ \A g \in Http : InOrder(g)'
<1>1. PICK q \in Served : q = https[h]
  BY ServedTyped DEF AuthInv
<1>2. https' = [https EXCEPT ![h] = [q EXCEPT !.at = a]] /\ https \in [Http -> Served \cup {NoHttp}]
  BY <1>1 DEF Moves, Goes, AuthInv, AuthTypeOK
<1>3. [q EXCEPT !.at = a] \in Served
  BY DEF Served
<1>4. /\ https'[h] = [q EXCEPT !.at = a] /\ https' \in [Http -> Served \cup {NoHttp}]
      /\ \A g \in Http : g # h => https'[g] = https[g]
  BY <1>2, <1>3
<1>5. /\ https'[h].at = a /\ https'[h].call = q.call /\ https'[h].session = q.session /\ https'[h].org = q.org
      /\ https'[h].claim = q.claim /\ https'[h].admin = q.admin /\ https'[h].dead = q.dead
      /\ https'[h].disabled = q.disabled /\ https'[h].loaded = q.loaded /\ https'[h].held = q.held
  BY <1>4 DEF Served
<1>6. /\ q.call = "work" => q.org # NoOrg
      /\ q.dead \subseteq Dead' /\ (q.disabled => user' = "disabled")
      /\ \A o \in Org : roles'[o] # "none" => o \in q.held
      /\ q.loaded \subseteq DOMAIN sessions'
  BY <1>1, DeadStaysDead DEF AuthInv, InOrder, OnlyDies
<1>7. InOrder(h)'
  BY <1>1, <1>5, <1>6 DEF InOrder, Admitted
<1>8. ASSUME NEW g \in Http, g # h PROVE InOrder(g)'
  BY <1>4, <1>8, OthersStay
<1> QED BY <1>4, <1>7, <1>8

\* A request that ends leaves the others as they were.
LEMMA EndsWell ==
    ASSUME AuthInv, OnlyDies, NEW h \in Http, Goes(h, NoHttp),
           production' = production, user = "disabled" => user' = "disabled", roles' = roles
    PROVE  /\ https' \in [Http -> Served \cup {NoHttp}]
           /\ \A g \in Http : InOrder(g)'
<1>1. /\ https' \in [Http -> Served \cup {NoHttp}] /\ https'[h] = NoHttp
      /\ \A g \in Http : g # h => https'[g] = https[g]
  BY DEF Goes, AuthInv, AuthTypeOK
<1>2. InOrder(h)'
  BY <1>1 DEF InOrder, Serving
<1>3. ASSUME NEW g \in Http, g # h PROVE InOrder(g)'
  BY <1>1, <1>3, OthersStay
<1> QED BY <1>1, <1>2, <1>3

\* When the sessions are not touched.
LEMMA Untouched == ASSUME AuthTypeOK, sessions' = sessions PROVE OnlyDies
BY DEF OnlyDies

\* Typing and the revoked sessions, when neither sessions nor ended changes.
LEMMA TablesStay ==
    ASSUME AuthInv, UNCHANGED <<production, roles, sessions, ended, changes>>,
           user' \in {"absent", "active", "disabled"},
           https' \in [Http -> Served \cup {NoHttp}], \A h \in Http : InOrder(h)'
    PROVE  AuthInv'
BY DEF AuthInv, AuthTypeOK

LEMMA ArrivesKeeps ==
    ASSUME AuthInv, NEW h \in Http, NEW call \in Calls, NEW s \in 0..Len(sessions),
           NEW o \in Org \cup {NoOrg}, NEW claim \in Org \cup {NoOrg}, NEW admin \in BOOLEAN,
           Arrives(h, call, s, o, claim, admin)
    PROVE  AuthInv'
<1> DEFINE q == [at |-> "arrived", call |-> call, session |-> s, org |-> o, claim |-> claim,
                 admin |-> admin, dead |-> Dead, disabled |-> user = "disabled", loaded |-> {},
                 held |-> {p \in Org : roles[p] # "none"}]
<1>1. sessions \in Seq(Session) /\ AuthTypeOK /\ OnlyDies
  BY Untouched DEF AuthInv, AuthTypeOK, Arrives
<1>2. /\ s \in Nat /\ Dead \subseteq Nat /\ Dead' = Dead
      /\ https' = [https EXCEPT ![h] = q]
      /\ UNCHANGED <<production, user, roles, sessions, ended, changes>>
  BY <1>1 DEF Dead, Live, Arrives, Goes
<1>3. q \in Served
  BY <1>2 DEF Served, Place
<1>4. q.at = "arrived" /\ q.call = call /\ q.org = o /\ q.dead = Dead /\ q.disabled = (user = "disabled")
      /\ q.held = {p \in Org : roles[p] # "none"} /\ q.loaded = {}
  OBVIOUS
<1> HIDE DEF q
<1>8. call = "work" => o # NoOrg
  BY DEF Arrives
<1>5. /\ https' \in [Http -> Served \cup {NoHttp}] /\ https'[h] = q
      /\ \A g \in Http : g # h => https'[g] = https[g]
  BY <1>2, <1>3 DEF AuthInv, AuthTypeOK
<1>6. InOrder(h)'
  BY <1>2, <1>4, <1>5, <1>8 DEF InOrder, Admitted
<1>7. ASSUME NEW g \in Http, g # h PROVE InOrder(g)'
  BY <1>1, <1>2, <1>5, <1>7, OthersStay
<1> QED BY <1>1, <1>2, <1>5, <1>6, <1>7, TablesStay DEF AuthTypeOK

LEMMA RefusesKeeps == ASSUME AuthInv, NEW h \in Http, Refuses(h) PROVE AuthInv'
<1>1. OnlyDies /\ Goes(h, NoHttp) /\ user \in {"absent", "active", "disabled"}
      /\ UNCHANGED <<production, user, roles, sessions, ended, changes>>
  BY Untouched DEF AuthInv, AuthTypeOK, Refuses
<1> QED BY <1>1, EndsWell, TablesStay

LEMMA WorksKeeps == ASSUME AuthInv, NEW h \in Http, Works(h) PROVE AuthInv'
<1>1. OnlyDies /\ Goes(h, NoHttp) /\ user \in {"absent", "active", "disabled"}
      /\ UNCHANGED <<production, user, roles, sessions, ended, changes>>
  BY Untouched DEF AuthInv, AuthTypeOK, Works
<1> QED BY <1>1, EndsWell, TablesStay

\* A session that a request names and that is good now was good as it came.
LEMMA GoodThen ==
    ASSUME AuthInv, NEW h \in Http, Serving(h),
           https[h].session = 0 \/ Live(https[h].session)
    PROVE  https[h].session \notin https[h].dead
<1>1. https[h].dead \subseteq Dead /\ Dead \subseteq 1..Len(sessions)
  BY DEF AuthInv, InOrder, Dead, AuthTypeOK
<1>2. CASE https[h].session = 0
  <2>1. Len(sessions) \in Nat
    BY DEF AuthInv, AuthTypeOK
  <2> QED BY <1>1, <1>2, <2>1
<1>3. CASE Live(https[h].session)
  BY <1>1, <1>3 DEF Dead
<1> QED BY <1>2, <1>3

LEMMA ValidatesKeeps == ASSUME AuthInv, NEW h \in Http, Validates(h) PROVE AuthInv'
<1> DEFINE a == IF https[h].session = 0 THEN "validated" ELSE "touching"
<1>1. /\ OnlyDies /\ Serving(h) /\ Moves(h, a) /\ a \in Place /\ a \in {"touching", "validated"}
      /\ UNCHANGED <<production, user, roles, sessions, ended, changes>>
      /\ user \in {"absent", "active", "disabled"}
      /\ https[h].session = 0 \/ Live(https[h].session)
  BY Untouched DEF AuthInv, AuthTypeOK, Validates, Serving, NoHttp, Place
<1>2. https[h].session \notin https[h].dead
  BY <1>1, GoodThen
<1> HIDE DEF a
<1> QED BY <1>1, <1>2, MovesOn, TablesStay

\* What the places behind the first two checks have in common.
LEMMA Behind ==
    ASSUME AuthInv, NEW h \in Http, Serving(h), https[h].at # "arrived"
    PROVE  https[h].session \notin https[h].dead /\ (Admitted(h) => ~ https[h].disabled)
BY DEF AuthInv, InOrder

LEMMA TouchesKeeps == ASSUME AuthInv, NEW h \in Http, Touches(h) PROVE AuthInv'
<1>1. /\ OnlyDies /\ Serving(h) /\ https[h].at = "touching" /\ Moves(h, "validated")
      /\ UNCHANGED <<production, user, roles, sessions, ended, changes>>
      /\ user \in {"absent", "active", "disabled"} /\ "validated" \in Place
  BY Untouched DEF AuthInv, AuthTypeOK, Touches, Touched, Serving, NoHttp, Place
<1> QED BY <1>1, Behind, MovesOn, TablesStay

LEMMA EnsuresUserKeeps == ASSUME AuthInv, NEW h \in Http, EnsuresUser(h) PROVE AuthInv'
<1>1. /\ OnlyDies /\ Serving(h) /\ https[h].at = "validated" /\ Moves(h, "identified")
      /\ UNCHANGED <<production, roles, sessions, ended, changes>>
      /\ user' \in {"absent", "active", "disabled"} /\ "identified" \in Place
      /\ user # "disabled"
  BY Untouched DEF AuthInv, AuthTypeOK, EnsuresUser, IsEnabled, Serving, NoHttp, Place
<1>2. ~ https[h].disabled
  BY <1>1 DEF AuthInv, InOrder
<1> QED BY <1>1, <1>2, Behind, MovesOn, TablesStay

LEMMA RequiresTenantKeeps == ASSUME AuthInv, NEW h \in Http, RequiresTenant(h) PROVE AuthInv'
<1>1. /\ OnlyDies /\ Serving(h) /\ https[h].at = "identified" /\ Moves(h, "entered")
      /\ UNCHANGED <<production, user, roles, sessions, ended, changes>>
      /\ user \in {"absent", "active", "disabled"} /\ "entered" \in Place /\ Admitted(h)
      /\ MayEnter(https[h], https[h].org) /\ (https[h].org # NoOrg \/ https[h].call = "work")
  BY Untouched DEF AuthInv, AuthTypeOK, RequiresTenant, Serving, NoHttp, Place, Admitted
<1>2. https[h] \in Served /\ https[h].org \in Org
  <2>1. https[h] \in Served
    BY <1>1, ServedTyped DEF AuthInv
  <2>2. https[h].org # NoOrg
    BY <1>1 DEF AuthInv, InOrder
  <2> QED BY <2>1, <2>2 DEF Served
<1>3. \/ https[h].org \in https[h].held
      \/ https[h].admin
      \/ ~ production /\ https[h].org = https[h].claim
  BY <1>1, <1>2 DEF AuthInv, InOrder, MayEnter
<1> QED BY <1>1, <1>3, Behind, MovesOn, TablesStay

LEMMA RegisterReadsKeeps == ASSUME AuthInv, NEW h \in Http, RegisterReads(h) PROVE AuthInv'
<1>1. /\ OnlyDies /\ Serving(h) /\ https[h].at # "arrived" /\ Admitted(h)
      /\ Moves(h, "registering") /\ "registering" \in Place
      /\ UNCHANGED <<production, user, roles, sessions, ended, changes>>
      /\ user \in {"absent", "active", "disabled"}
  BY Untouched DEF AuthInv, AuthTypeOK, RegisterReads, Serving, NoHttp, Place, Admitted
<1> QED BY <1>1, Behind, MovesOn, TablesStay

LEMMA SwitchPermitsKeeps == ASSUME AuthInv, NEW h \in Http, SwitchPermits(h) PROVE AuthInv'
<1>1. /\ OnlyDies /\ Serving(h) /\ https[h].at # "arrived" /\ Admitted(h)
      /\ Moves(h, "permitted") /\ "permitted" \in Place
      /\ UNCHANGED <<production, user, roles, sessions, ended, changes>>
      /\ user \in {"absent", "active", "disabled"}
  BY Untouched DEF AuthInv, AuthTypeOK, SwitchPermits, Serving, NoHttp, Place, Admitted
<1> QED BY <1>1, Behind, MovesOn, TablesStay

LEMMA SwitchReadsKeeps == ASSUME AuthInv, NEW h \in Http, SwitchReads(h) PROVE AuthInv'
<1>1. /\ OnlyDies /\ Serving(h) /\ https[h].at # "arrived" /\ Admitted(h)
      /\ Moves(h, "switching") /\ "switching" \in Place
      /\ UNCHANGED <<production, user, roles, sessions, ended, changes>>
      /\ user \in {"absent", "active", "disabled"}
  BY Untouched DEF AuthInv, AuthTypeOK, SwitchReads, Serving, NoHttp, Place, Admitted
<1> QED BY <1>1, Behind, MovesOn, TablesStay

\* The commits: the session table changes, sessions only die.
LEMMA SessionsChange ==
    ASSUME AuthInv, OnlyDies, sessions' \in Seq(Session),
           UNCHANGED <<production, user, roles, changes>>,
           ended' \subseteq DOMAIN sessions', \A s \in ended' : sessions'[s].revoked,
           https' \in [Http -> Served \cup {NoHttp}], \A h \in Http : InOrder(h)'
    PROVE  AuthInv'
BY DEF AuthInv, AuthTypeOK

LEMMA RegisterCommitsKeeps == ASSUME AuthInv, NEW h \in Http, RegisterCommits(h) PROVE AuthInv'
<1> DEFINE fresh == [org |-> https[h].org, revoked |-> FALSE, expired |-> FALSE]
<1>1. /\ Serving(h) /\ sessions' = Append(sessions, fresh) /\ Goes(h, NoHttp)
      /\ UNCHANGED <<production, user, roles, ended, changes>>
  BY DEF RegisterCommits, Serving, NoHttp
<1>2. fresh \in Session /\ sessions \in Seq(Session)
  BY <1>1, ServedTyped DEF AuthInv, AuthTypeOK, Served, Session
<1> HIDE DEF fresh, Session
<1>3. /\ sessions' \in Seq(Session) /\ DOMAIN sessions \subseteq DOMAIN sessions'
      /\ \A s \in DOMAIN sessions : sessions'[s] = sessions[s]
  BY <1>1, <1>2
<1>4. OnlyDies
  BY <1>3 DEF OnlyDies
<1>5. ended' \subseteq DOMAIN sessions' /\ \A s \in ended' : sessions'[s].revoked
  BY <1>1, <1>3 DEF AuthInv, AuthTypeOK
<1> QED BY <1>1, <1>3, <1>4, <1>5, EndsWell, SessionsChange

LEMMA RevokeReadsKeeps == ASSUME AuthInv, NEW h \in Http, RevokeReads(h) PROVE AuthInv'
<1> DEFINE q == [https[h] EXCEPT !.at = "revoking", !.loaded = Revocable(https[h])]
<1>1. /\ OnlyDies /\ Serving(h) /\ https[h].at # "arrived" /\ Admitted(h)
      /\ https' = [https EXCEPT ![h] = q]
      /\ UNCHANGED <<production, user, roles, sessions, ended, changes>>
      /\ user \in {"absent", "active", "disabled"}
  BY Untouched DEF AuthInv, AuthTypeOK, RevokeReads, Serving, NoHttp, Admitted, Goes
<1>2. PICK p \in Served : p = https[h] /\ p.at # "arrived"
  BY <1>1, ServedTyped DEF AuthInv
<1>3. Revocable(https[h]) \subseteq DOMAIN sessions /\ DOMAIN sessions \subseteq Nat
  BY DEF Revocable, AuthInv, AuthTypeOK
<1>4. PICK taken \in SUBSET Nat : taken = Revocable(https[h])
  BY <1>3
<1>5. q = [[p EXCEPT !.at = "revoking"] EXCEPT !.loaded = taken]
  BY <1>2, <1>4
<1>6. PICK m \in Served : m = [p EXCEPT !.at = "revoking"]
  BY DEF Served, Place
<1>7. /\ m.at = "revoking" /\ m.call = p.call /\ m.session = p.session /\ m.org = p.org
      /\ m.dead = p.dead /\ m.disabled = p.disabled /\ m.held = p.held
  BY <1>6 DEF Served
<1>8. q \in Served /\ q.loaded = taken /\ q.at = "revoking" /\ q.call = p.call
      /\ q.session = p.session /\ q.org = p.org /\ q.dead = p.dead /\ q.disabled = p.disabled
      /\ q.held = p.held
  <2> HIDE DEF q
  <2> QED BY <1>5, <1>6, <1>7 DEF Served
<1> HIDE DEF q
<1>9. /\ https' \in [Http -> Served \cup {NoHttp}] /\ https'[h] = q
      /\ \A g \in Http : g # h => https'[g] = https[g]
  BY <1>1, <1>8 DEF AuthInv, AuthTypeOK
<1>10. p.session \notin p.dead /\ ~ p.disabled /\ p.dead \subseteq Dead
       /\ (p.call = "work" => p.org # NoOrg)
       /\ \A o \in Org : roles[o] # "none" => o \in p.held
  BY <1>1, <1>2 DEF AuthInv, InOrder
<1>11. Dead' = Dead
  BY <1>1 DEF Dead, Live
<1>12. InOrder(h)'
  BY <1>1, <1>3, <1>4, <1>8, <1>9, <1>10, <1>11 DEF InOrder
<1>13. ASSUME NEW g \in Http, g # h PROVE InOrder(g)'
  BY <1>1, <1>9, <1>13, OthersStay
<1> QED BY <1>1, <1>9, <1>12, <1>13, TablesStay

LEMMA RevokeCommitsKeeps == ASSUME AuthInv, NEW h \in Http, RevokeCommits(h) PROVE AuthInv'
<1> DEFINE loaded == https[h].loaded
<1>1. /\ Serving(h) /\ Goes(h, NoHttp) /\ ended' = ended \cup loaded
      /\ sessions' = [s \in DOMAIN sessions |->
                        [sessions[s] EXCEPT !.revoked = sessions[s].revoked \/ s \in loaded]]
      /\ UNCHANGED <<production, user, roles, changes>>
  BY DEF RevokeCommits, Serving, NoHttp
<1>2. loaded \subseteq DOMAIN sessions
  BY <1>1 DEF AuthInv, InOrder
<1> HIDE DEF loaded
<1>3. ASSUME NEW r \in Session, NEW b \in BOOLEAN
      PROVE  /\ [r EXCEPT !.revoked = b] \in Session
             /\ [r EXCEPT !.revoked = b].revoked = b /\ [r EXCEPT !.revoked = b].expired = r.expired
  BY DEF Session
<1>4. sessions \in Seq(Session) /\ \A s \in DOMAIN sessions : sessions[s] \in Session
  BY DEF AuthInv, AuthTypeOK
<1>5. \A r \in Session : r.revoked \in BOOLEAN
  BY DEF Session
<1>6. ASSUME NEW s \in DOMAIN sessions
      PROVE  /\ sessions'[s] \in Session
             /\ sessions'[s].revoked = (sessions[s].revoked \/ s \in loaded)
             /\ sessions'[s].expired = sessions[s].expired
  <2> DEFINE b == sessions[s].revoked \/ s \in loaded
  <2>1. b \in BOOLEAN /\ sessions'[s] = [sessions[s] EXCEPT !.revoked = b]
    BY <1>1, <1>4, <1>5
  <2> HIDE DEF b, Session
  <2>2. /\ sessions'[s] \in Session /\ sessions'[s].revoked = b
        /\ sessions'[s].expired = sessions[s].expired
    BY <2>1, <1>3, <1>4
  <2> QED BY <2>2 DEF b
<1> HIDE DEF Session
<1>7. DOMAIN sessions' = DOMAIN sessions /\ sessions' = [s \in DOMAIN sessions |-> sessions'[s]]
  BY <1>1
<1>8. sessions' \in Seq(Session)
  BY <1>4, <1>6, <1>7, InPlace
<1>9. OnlyDies
  BY <1>6, <1>7 DEF OnlyDies
<1>10. ended' \subseteq DOMAIN sessions' /\ \A s \in ended' : sessions'[s].revoked
  BY <1>1, <1>2, <1>6, <1>7 DEF AuthInv, AuthTypeOK
<1> QED BY <1>1, <1>8, <1>9, <1>10, EndsWell, SessionsChange

LEMMA SwitchCommitsKeeps == ASSUME AuthInv, NEW h \in Http, SwitchCommits(h) PROVE AuthInv'
<1> DEFINE t == https[h].session
           o == https[h].org
<1>1. /\ Serving(h) /\ Goes(h, NoHttp) /\ sessions' = [sessions EXCEPT ![t].org = o]
      /\ UNCHANGED <<production, user, roles, ended, changes>>
  BY DEF SwitchCommits, Serving, NoHttp
<1>2. o \in Org \cup {NoOrg}
  BY <1>1, ServedTyped DEF AuthInv, Served
<1> HIDE DEF t, o
<1>3. sessions \in Seq(Session) /\ \A s \in DOMAIN sessions : sessions[s] \in Session
  BY DEF AuthInv, AuthTypeOK
<1>4. ASSUME NEW r \in Session
      PROVE  /\ [r EXCEPT !.org = o] \in Session
             /\ [r EXCEPT !.org = o].revoked = r.revoked /\ [r EXCEPT !.org = o].expired = r.expired
  BY <1>2 DEF Session
<1> HIDE DEF Session
<1>5. DOMAIN sessions' = DOMAIN sessions /\ sessions' = [s \in DOMAIN sessions |-> sessions'[s]]
  BY <1>1
<1>6. ASSUME NEW s \in DOMAIN sessions
      PROVE  sessions'[s] = sessions[s] \/ sessions'[s] = [sessions[s] EXCEPT !.org = o]
  BY <1>1
<1>7. ASSUME NEW s \in DOMAIN sessions
      PROVE  /\ sessions'[s] \in Session
             /\ sessions'[s].revoked = sessions[s].revoked
             /\ sessions'[s].expired = sessions[s].expired
  BY <1>3, <1>4, <1>6
<1>8. sessions' \in Seq(Session)
  BY <1>3, <1>5, <1>7, InPlace
<1>9. OnlyDies
  BY <1>5, <1>7 DEF OnlyDies
<1>10. ended' \subseteq DOMAIN sessions' /\ \A s \in ended' : sessions'[s].revoked
  BY <1>1, <1>5, <1>7 DEF AuthInv, AuthTypeOK
<1> QED BY <1>1, <1>8, <1>9, <1>10, EndsWell, SessionsChange

LEMMA ExpiresKeeps == ASSUME AuthInv, NEW t \in DOMAIN sessions, Expires(t) PROVE AuthInv'
<1>1. /\ sessions' = [sessions EXCEPT ![t].expired = TRUE]
      /\ UNCHANGED <<production, user, roles, https, ended, changes>>
  BY DEF Expires
<1>2. sessions \in Seq(Session) /\ \A s \in DOMAIN sessions : sessions[s] \in Session
  BY DEF AuthInv, AuthTypeOK
<1>3. ASSUME NEW r \in Session
      PROVE  /\ [r EXCEPT !.expired = TRUE] \in Session
             /\ [r EXCEPT !.expired = TRUE].revoked = r.revoked /\ [r EXCEPT !.expired = TRUE].expired
  BY DEF Session
<1> HIDE DEF Session
<1>4. DOMAIN sessions' = DOMAIN sessions /\ sessions' = [s \in DOMAIN sessions |-> sessions'[s]]
  BY <1>1
<1>5. ASSUME NEW s \in DOMAIN sessions
      PROVE  sessions'[s] = sessions[s] \/ sessions'[s] = [sessions[s] EXCEPT !.expired = TRUE]
  BY <1>1
<1>6. ASSUME NEW s \in DOMAIN sessions
      PROVE  /\ sessions'[s] \in Session
             /\ sessions'[s].revoked = sessions[s].revoked
             /\ sessions[s].expired => sessions'[s].expired
  BY <1>2, <1>3, <1>5
<1>7. sessions' \in Seq(Session)
  BY <1>2, <1>4, <1>6, InPlace
<1>8. OnlyDies
  BY <1>4, <1>6 DEF OnlyDies
<1>9. ended' \subseteq DOMAIN sessions' /\ \A s \in ended' : sessions'[s].revoked
  BY <1>1, <1>4, <1>6 DEF AuthInv, AuthTypeOK
<1>10. https' \in [Http -> Served \cup {NoHttp}] /\ \A g \in Http : InOrder(g)'
  BY <1>1, <1>8, OthersStay DEF AuthInv, AuthTypeOK
<1> QED BY <1>1, <1>7, <1>8, <1>9, <1>10, SessionsChange

LEMMA MembershipChangesKeeps ==
    ASSUME AuthInv, NEW o \in Org, NEW role \in MemberRole, MembershipChanges(o, role) PROVE AuthInv'
<1>1. /\ roles' = [roles EXCEPT ![o] = role] /\ changes' = changes + 1
      /\ https' = [h \in Http |-> IF Serving(h) /\ role # "none"
                                  THEN [https[h] EXCEPT !.held = https[h].held \cup {o}]
                                  ELSE https[h]]
      /\ UNCHANGED <<production, user, sessions, ended>>
  BY DEF MembershipChanges
<1>2. AuthTypeOK /\ Dead' = Dead
  BY <1>1 DEF AuthInv, Dead, Live
<1>3. ASSUME NEW q \in Served
      PROVE  LET r == [q EXCEPT !.held = q.held \cup {o}]
             IN  /\ r \in Served /\ r.held = q.held \cup {o} /\ r.at = q.at /\ r.call = q.call
                 /\ r.session = q.session /\ r.org = q.org /\ r.claim = q.claim /\ r.admin = q.admin
                 /\ r.dead = q.dead /\ r.disabled = q.disabled /\ r.loaded = q.loaded
  BY DEF Served
<1>4. ASSUME NEW h \in Http, Serving(h), role # "none" PROVE https'[h] \in Served /\ InOrder(h)'
  <2>1. PICK q \in Served : q = https[h]
    BY <1>2, <1>4, ServedTyped
  <2>2. https'[h] = [q EXCEPT !.held = q.held \cup {o}]
    BY <1>1, <1>4, <2>1
  <2> DEFINE r == [q EXCEPT !.held = q.held \cup {o}]
  <2>3. /\ r \in Served /\ r.held = q.held \cup {o} /\ r.at = q.at /\ r.call = q.call
        /\ r.session = q.session /\ r.org = q.org /\ r.claim = q.claim /\ r.admin = q.admin
        /\ r.dead = q.dead /\ r.disabled = q.disabled /\ r.loaded = q.loaded
    BY <1>3
  <2> HIDE DEF r
  <2>4. https'[h] = r
    BY <2>2 DEF r
  <2>5. \A p \in Org : roles'[p] # "none" => p \in r.held
    BY <1>1, <1>2, <1>4, <2>1, <2>3 DEF AuthInv, InOrder, AuthTypeOK
  <2> QED BY <1>1, <1>2, <1>4, <2>1, <2>3, <2>4, <2>5 DEF AuthInv, InOrder, Admitted
<1>5. ASSUME NEW h \in Http, ~ (Serving(h) /\ role # "none")
      PROVE  https'[h] = https[h] /\ InOrder(h)'
  <2>1. https'[h] = https[h]
    BY <1>1, <1>5
  <2>2. Serving(h) => \A p \in Org : roles'[p] # "none" => p \in https[h].held
    BY <1>1, <1>2, <1>5 DEF AuthInv, InOrder, AuthTypeOK
  <2>3. InOrder(h)
    BY DEF AuthInv
  <2> QED BY <1>1, <1>2, <2>1, <2>2, <2>3 DEF InOrder, Serving, Admitted
<1>6. https' \in [Http -> Served \cup {NoHttp}]
  <2>1. \A h \in Http : https'[h] \in Served \cup {NoHttp}
    BY <1>2, <1>4, <1>5 DEF AuthTypeOK
  <2>2. https' = [h \in Http |-> https'[h]]
    BY <1>1
  <2> QED BY <2>1, <2>2
<1>7. AuthTypeOK'
  BY <1>1, <1>2, <1>6 DEF AuthTypeOK
<1> QED BY <1>1, <1>4, <1>5, <1>7 DEF AuthInv

LEMMA DisablesKeeps == ASSUME AuthInv, Disables PROVE AuthInv'
<1>1. OnlyDies /\ user' = "disabled" /\ UNCHANGED <<production, roles, sessions, https, ended, changes>>
  BY Untouched DEF AuthInv, AuthTypeOK, Disables
<1>2. https' \in [Http -> Served \cup {NoHttp}] /\ \A g \in Http : InOrder(g)'
  BY <1>1, OthersStay DEF AuthInv, AuthTypeOK
<1> QED BY <1>1, <1>2, TablesStay

LEMMA StutterKeeps == ASSUME AuthInv, UNCHANGED authVars PROVE AuthInv'
<1>1. OnlyDies /\ UNCHANGED <<production, user, roles, sessions, https, ended, changes>>
  BY Untouched DEF AuthInv, AuthTypeOK, authVars
<1>2. https' \in [Http -> Served \cup {NoHttp}] /\ \A g \in Http : InOrder(g)'
  BY <1>1, OthersStay DEF AuthInv, AuthTypeOK
<1> QED BY <1>1, <1>2, TablesStay DEF AuthInv, AuthTypeOK

LEMMA AuthInductive == AuthInv /\ [AuthNext]_authVars => AuthInv'
<1> SUFFICES ASSUME AuthInv, [AuthNext]_authVars PROVE AuthInv'
  OBVIOUS
<1>1. ASSUME NEW h \in Http, NEW call \in Calls, NEW s \in 0..Len(sessions),
             NEW o \in Org \cup {NoOrg}, NEW claim \in Org \cup {NoOrg}, NEW admin \in BOOLEAN,
             Arrives(h, call, s, o, claim, admin)
      PROVE  AuthInv'
  BY <1>1, ArrivesKeeps
<1>2. ASSUME NEW h \in Http,
             \/ Refuses(h) \/ Validates(h) \/ Touches(h) \/ EnsuresUser(h) \/ RequiresTenant(h)
             \/ Works(h)
      PROVE  AuthInv'
  BY <1>2, RefusesKeeps, ValidatesKeeps, TouchesKeeps, EnsuresUserKeeps, RequiresTenantKeeps, WorksKeeps
<1>3. ASSUME NEW h \in Http,
             \/ RegisterReads(h) \/ RegisterCommits(h) \/ RevokeReads(h) \/ RevokeCommits(h)
             \/ SwitchPermits(h) \/ SwitchReads(h) \/ SwitchCommits(h)
      PROVE  AuthInv'
  BY <1>3, RegisterReadsKeeps, RegisterCommitsKeeps, RevokeReadsKeeps, RevokeCommitsKeeps,
     SwitchPermitsKeeps, SwitchReadsKeeps, SwitchCommitsKeeps
<1>4. ASSUME NEW s \in DOMAIN sessions, Expires(s) PROVE AuthInv'
  BY <1>4, ExpiresKeeps
<1>5. ASSUME NEW o \in Org, NEW role \in MemberRole, MembershipChanges(o, role) PROVE AuthInv'
  BY <1>5, MembershipChangesKeeps
<1>6. CASE Disables
  BY <1>6, DisablesKeeps
<1>7. CASE UNCHANGED authVars
  BY <1>7, StutterKeeps
<1> QED BY <1>1, <1>2, <1>3, <1>4, <1>5, <1>6, <1>7 DEF AuthNext

\* Types, for any number of requests, organizations and sessions.
THEOREM SessionsTypeCorrect == AuthSpec => []AuthTypeOK
<1>1. AuthInv => AuthTypeOK
  BY DEF AuthInv
<1> QED BY <1>1, InitEstablishes, AuthInductive, PTL DEF AuthSpec

(***************************************************************************)
(* enterprise_routes._principal, require_tenant and the session functions  *)
(* of core/identity.py: a request is let in only on a session, an account  *)
(* and a membership that were good while it ran, and a session revoked     *)
(* once stays revoked, however the transactions of requests interleave.    *)
(***************************************************************************)
THEOREM AdmissionIsSound == AuthSpec => []AdmittedWasLive
<1>1. AuthInv => AdmittedWasLive
  <2> SUFFICES ASSUME AuthInv PROVE AdmittedWasLive
    OBVIOUS
  <2>1. ASSUME NEW h \in Http, Admitted(h)
        PROVE  https[h].session \notin https[h].dead /\ ~ https[h].disabled
    BY <2>1 DEF AuthInv, InOrder, Admitted
  <2>2. ASSUME NEW h \in Http, Serving(h), https[h].at = "entered"
        PROVE  \/ https[h].org \in https[h].held
               \/ https[h].admin
               \/ ~ production /\ https[h].org = https[h].claim
    BY <2>2 DEF AuthInv, InOrder
  <2> QED BY <2>1, <2>2 DEF AuthInv, AdmittedWasLive
<1> QED BY <1>1, InitEstablishes, AuthInductive, PTL DEF AuthSpec
================================================================================
