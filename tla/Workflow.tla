------------------------------- MODULE Workflow -------------------------------
(***************************************************************************)
(* The rule by which requirement_transition decides whether a status       *)
(* change is legal: which row of workflow_transition it consults, and what *)
(* that row asks of the caller and of the requirement.  The module holds   *)
(* no state; AgentClaims and RequirementBoard move requirements with it.   *)
(***************************************************************************)

CONSTANTS
    Status,               \* workflow_status rows of the account
    AnyStatus,            \* from_status_id IS NULL: the row holds from any status
    WorkflowTransition,   \* the workflow_transition rows of the tracker
    Closed,               \* statuses with is_closed
    RequiresResolution    \* statuses with requires_resolution

Role == {"contributor", "maintainer", "admin"}

TransitionRow ==
    [ from_status_id : Status \cup {AnyStatus}, to_status_id : Status,
      allowed_actors : SUBSET {"user", "agent"}, allowed_roles : SUBSET Role,
      requires_comment : BOOLEAN,
      requires_ready : BOOLEAN ]  \* requires_assignee or requires_readiness

ASSUME WorkflowAssumption ==
    /\ AnyStatus \notin Status
    /\ Closed \subseteq Status
    /\ RequiresResolution \subseteq Status
    /\ WorkflowTransition \subseteq TransitionRow

\* The rows the SELECT may return: an exact from_status_id wins over the
\* wildcard.  Wildcard rows are not unique (NULLs are distinct in the UNIQUE
\* constraint), so LIMIT 1 may pick any of them.
TransitionsFor(from, to) ==
    LET matching == { tr \in WorkflowTransition :
                        /\ tr.to_status_id = to
                        /\ tr.from_status_id \in {from, AnyStatus} }
        exact == { tr \in matching : tr.from_status_id = from }
    IN  IF exact # {} THEN exact ELSE matching

\* The checks made on the chosen row.  The system actor skips the actor and
\* role checks only.
Permits(tr, actor, role, comment, resolution, ready) ==
    /\ actor # "system" => /\ actor \in tr.allowed_actors
                           /\ role \in tr.allowed_roles
    /\ tr.requires_comment => comment
    /\ tr.requires_ready => ready
    /\ tr.to_status_id \in RequiresResolution => resolution

\* May the call succeed?  From a status to itself it returns at once.
MayTransition(from, to, actor, role, comment, resolution, ready) ==
    \/ from = to
    \/ \E tr \in TransitionsFor(from, to) :
            Permits(tr, actor, role, comment, resolution, ready)

\* May the call fail?
MayRefuse(from, to, actor, role, comment, resolution, ready) ==
    /\ from # to
    /\ \/ TransitionsFor(from, to) = {}
       \/ \E tr \in TransitionsFor(from, to) :
            ~Permits(tr, actor, role, comment, resolution, ready)

\* Where a call without comment or resolution, whose exception is swallowed,
\* leaves the requirement.  The caller's role, and whether the requirement is
\* ready and assigned, are not known here.
SwallowedTransition(from, to, actor) ==
    { s \in {from, to} : \E role \in Role, ready \in BOOLEAN :
        \/ s = to /\ MayTransition(from, to, actor, role, FALSE, FALSE, ready)
        \/ s = from /\ MayRefuse(from, to, actor, role, FALSE, FALSE, ready) }

\* The statuses some caller of this kind may move the requirement to.
TransitionTargets(from, actor) ==
    { to \in Status \ {from} : \E role \in Role, comment, resolution, ready \in BOOLEAN :
        MayTransition(from, to, actor, role, comment, resolution, ready) }

\* The statuses some caller of this kind may be refused.
RefusedTargets(from, actor) ==
    { to \in Status \ {from} : \E role \in Role, comment, resolution, ready \in BOOLEAN :
        MayRefuse(from, to, actor, role, comment, resolution, ready) }

===============================================================================
