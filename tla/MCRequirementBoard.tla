-------------------------- MODULE MCRequirementBoard --------------------------
(* Small instances of RequirementBoard for TLC. *)
EXTENDS RequirementBoard, TLC

CONSTANTS r1, r2, r3, open, done

MCReq == {r1, r2, r3}

MCCreatedAt == r1 :> 1 @@ r2 :> 2 @@ r3 :> 3

\* Two cards at the same position, as two concurrent moves leave them, and one
\* closer to them than MinGap.
MCInitPosition == r1 :> 1 @@ r2 :> 1 @@ r3 :> 2

MCStatus == {open, done}

\* The wildcard rows of the installation, and an exact one that overrides them:
\* reopening is for maintainers and takes a comment, so that it may be refused.
MCTransitions ==
    { [ from_status_id |-> AnyStatus, to_status_id |-> s,
        allowed_actors |-> {"user", "agent"}, allowed_roles |-> Role,
        requires_comment |-> FALSE, requires_ready |-> FALSE ] : s \in MCStatus }
    \cup
    { [ from_status_id |-> done, to_status_id |-> open,
        allowed_actors |-> {"user", "agent"}, allowed_roles |-> {"maintainer", "admin"},
        requires_comment |-> TRUE, requires_ready |-> FALSE ] }
===============================================================================
