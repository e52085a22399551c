---------------------------- MODULE ProfileStore -----------------------------
(***************************************************************************)
(* class ProfileStore of core/environment_profile.py, the reference store  *)
(* of environment profiles, for one profile of one tenant (profiles share  *)
(* nothing, and a call for another tenant raises at once).                 *)
(*                                                                         *)
(* A profile object never changes; of its contents only the status it was  *)
(* created with matters here.  The list of audit entries is left out: it is*)
(* only appended to, and the database writes different entries.            *)
(***************************************************************************)
EXTENDS Integers

VARIABLES
  profiles,   \* _profiles: the status each version was put with
  active      \* _active: a version, 0 if there is none

storeVars == <<profiles, active>>

Status == {"draft", "active", "retired"}
Versions == DOMAIN profiles

StoreInit == profiles = [v \in {} |-> "draft"] /\ active = 0

-----------------------------------------------------------------------------
\* max(versions, default=0) + 1
NextVersion == CHOOSE v \in {w + 1 : w \in Versions \cup {0}} : \A w \in Versions : w < v

\* Any other version raises.
Put(v, status) ==
  /\ v = NextVersion
  /\ status = "active" => active = 0
  /\ profiles' = [w \in Versions \cup {v} |-> IF w = v THEN status ELSE profiles[w]]
  /\ active' = IF status = "active" THEN v ELSE active

Activate(v) == /\ v \in Versions /\ profiles[v] # "retired"
               /\ active' = v
               /\ UNCHANGED profiles

\* A retired version may be rolled back to.
Rollback(v) == /\ v \in Versions /\ v # active
               /\ active' = v
               /\ UNCHANGED profiles

StoreNext == \/ \E s \in Status : Put(NextVersion, s)
             \/ \E v \in Versions : Activate(v) \/ Rollback(v)

StoreSpec == StoreInit /\ [][StoreNext]_storeVars
==============================================================================
