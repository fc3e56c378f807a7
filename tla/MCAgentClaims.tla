---------------------------- MODULE MCAgentClaims ----------------------------
(* Small instances of AgentClaims for TLC. *)
EXTENDS AgentClaims, TLC

CONSTANTS ready, progress, closed   \* statuses

MCStatus == {ready, progress, closed}

\* Wildcard rows to every status, as init_system.sql seeds them, and one exact
\* row that overrides the wildcard: from closed back to ready takes a comment
\* and is not for agents.
MCTransitions ==
    { [ from_status_id |-> AnyStatus, to_status_id |-> s,
        allowed_actors |-> {"user", "agent"}, allowed_roles |-> Role,
        requires_comment |-> FALSE, requires_ready |-> FALSE ] : s \in MCStatus }
    \cup
    { [ from_status_id |-> closed, to_status_id |-> ready,
        allowed_actors |-> {"user"}, allowed_roles |-> {"maintainer", "admin"},
        requires_comment |-> TRUE, requires_ready |-> FALSE ] }

Symmetry == Permutations(Req) \cup Permutations(Agent)
===============================================================================
