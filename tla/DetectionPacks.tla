---------------------------- MODULE DetectionPacks ----------------------------
(***************************************************************************)
(* core/detection_pack_registry.py: identities of detection packs and the  *)
(* life they go through. An identity is an immutable value: whoever holds  *)
(* one can use it at any later time, whatever became of the pack since.    *)
(* A content digest is the content it is taken of; a call that raises      *)
(* ValueError is no step.                                                  *)
(***************************************************************************)
EXTENDS FiniteSets, Naturals

CONSTANTS Pack, Version, Content,
          MaxHeld \* bound on the identities made, for model checking

LIFECYCLE == {"research", "validated", "canary", "production", "deprecated"}
TRANSITIONS == [research   |-> {"validated"},
                validated  |-> {"canary", "research"},
                canary     |-> {"production", "validated"},
                production |-> {"deprecated", "canary"},
                deprecated |-> {}]

PackIdentity == [pack : Pack, version : Version, lifecycle : LIFECYCLE, content : Content]

VARIABLES held,   \* the identities somebody holds
          vouched \* history: what was made beyond research, or moved to validated

packVars == <<held, vouched>>

Named(i) == <<i.pack, i.version, i.content>>

PacksTypeOK == held \subseteq PackIdentity /\ vouched \subseteq Pack \X Version \X Content

PacksInit == held = {} /\ vouched = {}

Returns(i) == held' = held \cup {i}

\* Any stage may be given to a new identity, which is the caller's statement
\* about the pack.
MakeIdentity(i) ==
    /\ Returns(i)
    /\ vouched' = IF i.lifecycle = "research" THEN vouched ELSE vouched \cup {Named(i)}

Transition(i, target) ==
    /\ target \in TRANSITIONS[i.lifecycle]
    /\ Returns([i EXCEPT !.lifecycle = target])
    /\ vouched' = IF target = "validated" THEN vouched \cup {Named(i)} ELSE vouched

\* A rollback returns to production what is held as validated, canary or
\* production. A variant that accepts any stage but deprecated.
NotWithdrawn(previous) == previous.lifecycle # "deprecated"
WasValidated(previous) == previous.lifecycle \in {"validated", "canary", "production"}

Rollback(i, previous) ==
    /\ i.pack = previous.pack /\ i.content # previous.content
    /\ i.lifecycle \in {"canary", "production"}
    /\ WasValidated(previous)
    /\ Returns([previous EXCEPT !.lifecycle = "production"])
    /\ UNCHANGED vouched

PacksNext ==
    \/ \E i \in PackIdentity : MakeIdentity(i)
    \/ \E i \in held, target \in LIFECYCLE : Transition(i, target)
    \/ \E i \in held, previous \in held : Rollback(i, previous)

PacksSpec == PacksInit /\ [][PacksNext]_packVars

\* Bound for model checking.
FewHeld == Cardinality(held') <= MaxHeld

\* Nothing is beyond research whose very content was never validated or
\* declared to be: neither a path of transitions nor a rollback across
\* versions, to an identity kept from long ago, deploys research content or
\* gives one version the content of another (rollback: "Return a
\* canary/production deployment to a previously validated pack").
DeployedWasValidated ==
    \A i \in held : i.lifecycle # "research" => Named(i) \in vouched
===============================================================================
