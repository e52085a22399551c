---------------------------- MODULE MCTransactions ----------------------------
(***************************************************************************)
(* TLC instance of the parts of the server that decide who may do what in  *)
(* unlocked transactions, each by itself: the members of an organization,  *)
(* the versions of a profile, and how a request is let in.  The initial    *)
(* state picks the part.                                                   *)
(***************************************************************************)
EXTENDS Workspace, AuthSessions, ProfileStorage, TLC

VARIABLE part

transactionVars == <<part, workspaceVars, storageVars, authVars>>

Init == /\ part \in {"workspace", "profile", "auth"}
        /\ WorkspaceInit /\ ProfilesInit /\ AuthInit
        /\ user = "absent" /\ \A o \in Org : roles[o] \in {"none"} \cup (IF part = "auth" THEN {"admin"} ELSE {})
        /\ part # "auth" => ~ production

WorkspaceMoves == /\ part = "workspace" /\ WorkspaceNext
                  /\ UNCHANGED <<part, storageVars, authVars>>
ProfileMoves == /\ part = "profile" /\ ProfilesNext
                /\ UNCHANGED <<part, workspaceVars, authVars>>
AuthMoves == /\ part = "auth" /\ AuthNext
             /\ UNCHANGED <<part, workspaceVars, storageVars>>

Next == WorkspaceMoves \/ ProfileMoves \/ AuthMoves

Spec == Init /\ [][Next]_transactionVars

\* Users who did not found the organization, calls and requests are interchangeable.
Symmetry == {s @@ r : s \in Permutations(Subject \ {Founder}), r \in Permutations(Request)}
===============================================================================
