------------------------------ MODULE AgentClaims ------------------------------
(***************************************************************************)
(* Requirements leased to agents (db/agent/agent_functions.sql).           *)
(*                                                                         *)
(* A claim is kept twice: in the requirement row (claim_id,                *)
(* claimed_by_agent_id, claim_expires_at) and in a row of agent_claim.     *)
(* Every function locks the requirement row first, so each call is one     *)
(* step, but now() is the time the transaction BEGAN: an agent's or the    *)
(* worker's transaction reads the clock in one step (Begin) and acts in a  *)
(* later one, after the other round trips and any wait for the row lock.   *)
(*                                                                         *)
(* Left out: journal and notification rows, the renewals counter, and the  *)
(* order in which agent_claim_next ranks requirements (rows locked by      *)
(* others are skipped, so any eligible requirement may be the first left). *)
(***************************************************************************)
EXTENDS Integers, Workflow

CONSTANTS
    Req,            \* requirements of one space
    Agent,          \* agents of the account
    ClaimId,        \* ids of agent_claim rows: bounds the claims of a behaviour
    Claimable,      \* statuses with is_agent_claimable
    InProgress,     \* the status whose key is in_progress
    AgentEnabled,   \* requirements whose tracker has is_agent_enabled
    Lease,          \* lease lengths a request may ask for
    MaxNow,         \* bound on the clock
    Worker,         \* the quagenticus-worker process
    None            \* SQL NULL

\* What a claim may be released as, by the worker or by anybody: ReleaseClaim ignores
\* the error of its validation, and the column has no CHECK.  "expired" stands also
\* for failed and abandoned, which agent_release treats alike, "resolved" also for any
\* text that agent_release does not know.
ReleaseState == {"resolved", "expired"}

Requirement ==
    [ status_id : Status, claim_id : ClaimId \cup {None},
      claimed_by_agent_id : Agent \cup {None}, claim_expires_at : Nat \cup {None} ]

ClaimRow ==
    [ requirement_id : Req, agent_id : Agent, expires_at : Nat,
      previous_status_id : Status,
      completion_state : ReleaseState \cup {None} ]

ASSUME ClaimsAssumption ==
    /\ Claimable \subseteq Status
    /\ InProgress \in Status
    /\ AgentEnabled \subseteq Req
    /\ Lease \subseteq Nat \ {0}
    /\ MaxNow \in Nat
    /\ Worker \notin Agent
    /\ None \notin Agent \cup ClaimId \cup Status \cup Nat \cup ReleaseState
    /\ None \notin ClaimRow

VARIABLES
    now,            \* the database clock
    began,          \* began[p]: now() of p's open transaction, None when p has none
    requirement,    \* the requirement rows: status and claim columns
    agent_claim,    \* the agent_claim rows, None where there is no row
    agent_member    \* requirement_member rows with subject_type = 'agent'

vars == <<now, began, requirement, agent_claim, agent_member>>

Actor == Agent \cup {Worker}

TypeOK ==
    /\ now \in Nat
    /\ began \in [Actor -> Nat \cup {None}]
    /\ requirement \in [Req -> Requirement]
    /\ agent_claim \in [ClaimId -> ClaimRow \cup {None}]
    /\ agent_member \in [Req -> SUBSET Agent]

Unclaimed(status) ==
    [ status_id |-> status, claim_id |-> None,
      claimed_by_agent_id |-> None, claim_expires_at |-> None ]

Init ==
    /\ now = 0
    /\ began = [p \in Actor |-> None]
    /\ requirement \in [Req -> { Unclaimed(s) : s \in Status }]
    /\ agent_claim = [c \in ClaimId |-> None]
    /\ agent_member = [r \in Req |-> {}]

--------------------------------------------------------------------------------
(* Transactions and time *)

Tick ==
    /\ now < MaxNow
    /\ now' = now + 1
    /\ UNCHANGED <<began, requirement, agent_claim, agent_member>>

\* BEGIN fixes now() for the whole transaction (WithActor, worker.scalar).
Begin(p) ==
    /\ began[p] = None
    /\ began' = [began EXCEPT ![p] = now]
    /\ UNCHANGED <<now, requirement, agent_claim, agent_member>>

\* The transaction ends without a write: an error rolls it back, the connection
\* is lost, a claim on one's own live lease returns the row it already has, or
\* the worker finds every lapsed row locked.
EndWithoutWrite(p) ==
    /\ began[p] # None
    /\ began' = [began EXCEPT ![p] = None]
    /\ UNCHANGED <<now, requirement, agent_claim, agent_member>>

--------------------------------------------------------------------------------
(* Claiming *)

\* Mutant: a lease counts as over one tick before it is.
LiveAt_EndsEarly(r, t) ==
    /\ requirement[r].claimed_by_agent_id # None
    /\ requirement[r].claim_expires_at > t + 1

\* agent_claim's test of an existing lease: expires_at > now().
LiveAt(r, t) ==
    /\ requirement[r].claimed_by_agent_id # None
    /\ requirement[r].claim_expires_at > t

\* A fresh uuid; which one does not matter.
NewClaimId == CHOOSE c \in ClaimId : agent_claim[c] = None

\* Mutant: an agent is added only where no agent is a member yet.
AddAgentMember_First(r, a) ==
    agent_member' = [agent_member EXCEPT ![r] = IF @ = {} THEN {a} ELSE @]

\* INSERT INTO requirement_member ... ON CONFLICT DO NOTHING
AddAgentMember(r, a) ==
    agent_member' = [agent_member EXCEPT ![r] = @ \cup {a}]

\* The INSERT and UPDATEs that follow the checks, and the automatic move to
\* in_progress.  A lapsed claim of r is superseded: its agent_claim row stays
\* open and its agent's member row stays.
TakeClaim(a, r, expires) ==
    /\ \E c \in ClaimId : agent_claim[c] = None
    /\ agent_claim' = [agent_claim EXCEPT ![NewClaimId] =
            [ requirement_id |-> r, agent_id |-> a, expires_at |-> expires,
              previous_status_id |-> requirement[r].status_id,
              completion_state |-> None ]]
    /\ \E s \in SwallowedTransition(requirement[r].status_id, InProgress, "agent") :
            requirement' = [requirement EXCEPT ![r] =
                [ status_id |-> s, claim_id |-> NewClaimId,
                  claimed_by_agent_id |-> a, claim_expires_at |-> expires ]]
    /\ AddAgentMember(r, a)
    /\ began' = [began EXCEPT ![a] = None]
    /\ UNCHANGED now

\* POST /requirements/{id}/claim
Claim(a, r, lease) ==
    /\ began[a] # None
    /\ ~LiveAt(r, began[a])
    /\ requirement[r].status_id \in Claimable
    /\ TakeClaim(a, r, began[a] + lease)

\* POST /spaces/{id}/agent-queue/claim-next: its own, stricter filter, and then
\* agent_claim with its checks.
ClaimNext(a, r, lease) ==
    /\ began[a] # None
    /\ r \in AgentEnabled
    /\ requirement[r].status_id \in Claimable
    /\ requirement[r].claimed_by_agent_id # None =>
            requirement[r].claim_expires_at < began[a]
    /\ ~LiveAt(r, began[a])
    /\ TakeClaim(a, r, began[a] + lease)

\* Mutant: the second UPDATE of agent_claim_renew is missing.
RenewedRows_None(r, expires) == agent_claim

\* Mutant: the second UPDATE finds the rows to extend by requirement and agent.
RenewedRows_ByAgent(r, expires) ==
    [c \in ClaimId |->
        IF /\ agent_claim[c] # None
           /\ agent_claim[c].requirement_id = r
           /\ agent_claim[c].agent_id = requirement[r].claimed_by_agent_id
        THEN [agent_claim[c] EXCEPT !.expires_at = expires]
        ELSE agent_claim[c]]

\* The agent_claim rows after the UPDATE ... WHERE id = claim_id of a renewal.
RenewedRows(r, expires) ==
    [agent_claim EXCEPT ![requirement[r].claim_id] = [@ EXCEPT !.expires_at = expires]]

\* POST /requirements/{id}/claim/renew: asks only that the claim be the caller's,
\* so a lapsed one may be revived.
Renew(a, r, lease) ==
    /\ began[a] # None
    /\ requirement[r].claimed_by_agent_id = a
    /\ LET expires == began[a] + lease IN
        /\ requirement' = [requirement EXCEPT ![r].claim_expires_at = expires]
        /\ agent_claim' = RenewedRows(r, expires)
    /\ began' = [began EXCEPT ![a] = None]
    /\ UNCHANGED <<now, agent_member>>

--------------------------------------------------------------------------------
(* Releasing *)

\* Mutant: the claim row is read before RETURNING has filled it in.
StatusAfterRelease_NoRow(r, state, actor) ==
    IF state = "resolved" THEN {requirement[r].status_id} ELSE {None}

\* Mutant: the exception of the automatic move is not swallowed, so the release
\* itself fails when the workflow refuses the move.
StatusAfterRelease_NotSwallowed(r, state, actor) ==
    IF state = "resolved"
    THEN {requirement[r].status_id}
    ELSE LET previous == agent_claim[requirement[r].claim_id].previous_status_id IN
         {previous} \cap SwallowedTransition(requirement[r].status_id, previous, actor)

\* Where agent_release leaves the status: an unfinished claim goes back to the
\* status it was claimed in, if the workflow lets the caller do so, whatever
\* the status is by now.
StatusAfterRelease(r, state, actor) ==
    LET row == agent_claim[requirement[r].claim_id] IN
    IF state = "resolved"
    THEN {requirement[r].status_id}
    ELSE SwallowedTransition(requirement[r].status_id, row.previous_status_id, actor)

\* The writes of agent_release on each requirement of S; back[r] is the status
\* r is left in.
ReleaseClaims(S, state, back) ==
    /\ requirement' = [r \in Req |->
            IF r \in S
            THEN Unclaimed(back[r])
            ELSE requirement[r]]
    /\ agent_claim' = [c \in ClaimId |->
            IF \E r \in S : requirement[r].claim_id = c
            THEN [agent_claim[c] EXCEPT !.completion_state = state]
            ELSE agent_claim[c]]
    /\ agent_member' = [r \in Req |->
            IF r \in S
            THEN agent_member[r] \ {agent_claim[requirement[r].claim_id].agent_id}
            ELSE agent_member[r]]

\* agent_release for one requirement that is claimed.
ReleaseOne(r, state, actor) ==
    /\ requirement[r].claim_id # None
    /\ \E s \in StatusAfterRelease(r, state, actor) :
            ReleaseClaims({r}, state, [q \in {r} |-> s])

\* POST /requirements/{id}/claim/release by an agent: only its own claim.
ReleaseByAgent(a, r, state) ==
    /\ began[a] # None
    /\ requirement[r].claimed_by_agent_id = a
    /\ ReleaseOne(r, state, "agent")
    /\ began' = [began EXCEPT ![a] = None]
    /\ UNCHANGED now

\* The same route by a user: any claim.
ReleaseByUser(r, state) ==
    /\ ReleaseOne(r, state, "user")
    /\ UNCHANGED <<now, began>>

\* Mutant: the worker looks for lapsed leases in the open agent_claim rows of a
\* requirement instead of in the requirement.
LapsedAt_AnyRow(r, t) ==
    \E c \in ClaimId : /\ agent_claim[c] # None
                       /\ agent_claim[c].requirement_id = r
                       /\ agent_claim[c].completion_state = None
                       /\ agent_claim[c].expires_at < t

LapsedAt(r, t) ==
    /\ requirement[r].claim_expires_at # None
    /\ requirement[r].claim_expires_at < t

\* agent_claims_expire: one transaction releases every lapsed row that is not
\* locked.  FOR UPDATE evaluates the lapse again on the row it locks.
ClaimsExpire(S) ==
    /\ began[Worker] # None
    /\ S # {}
    /\ \A r \in S : LapsedAt(r, began[Worker]) /\ requirement[r].claim_id # None
    /\ \E back \in [S -> Status] :
        /\ \A r \in S : back[r] \in StatusAfterRelease(r, "expired", "system")
        /\ ReleaseClaims(S, "expired", back)
    /\ began' = [began EXCEPT ![Worker] = None]
    /\ UNCHANGED now

--------------------------------------------------------------------------------
(* requirement_transition by a user or an agent, claimed or not: the claim
   columns stay as they are. *)
Transition(r, to, actor) ==
    /\ to \in TransitionTargets(requirement[r].status_id, actor)
    /\ requirement' = [requirement EXCEPT ![r].status_id = to]
    /\ UNCHANGED <<now, began, agent_claim, agent_member>>

Next ==
    \/ Tick
    \/ \E p \in Actor : Begin(p)
    \/ \E p \in Actor : EndWithoutWrite(p)
    \/ \E a \in Agent, r \in Req, l \in Lease : Claim(a, r, l)
    \/ \E a \in Agent, r \in Req, l \in Lease : ClaimNext(a, r, l)
    \/ \E a \in Agent, r \in Req, l \in Lease : Renew(a, r, l)
    \/ \E a \in Agent, r \in Req, st \in ReleaseState : ReleaseByAgent(a, r, st)
    \/ \E r \in Req, st \in ReleaseState : ReleaseByUser(r, st)
    \/ \E S \in SUBSET Req : ClaimsExpire(S)
    \/ \E r \in Req, to \in Status, k \in {"user", "agent"} : Transition(r, to, k)

Spec == Init /\ [][Next]_vars

\* The worker runs its job every minute (worker.every), and locks are short:
\* SKIP LOCKED does not pass over the same lapsed row in every run.  Nothing is
\* assumed of agents and users: an agent may die holding a claim.
WorkerFairness ==
    /\ WF_vars(Begin(Worker))
    /\ WF_vars(EndWithoutWrite(Worker))
    /\ \A r \in Req : SF_vars(\E S \in SUBSET Req : r \in S /\ ClaimsExpire(S))

FairSpec == Spec /\ WorkerFairness

--------------------------------------------------------------------------------
(* Invariants *)

\* The two records of a claim agree: the claim columns of a requirement are all
\* set or all NULL, and when set they name an open agent_claim row of the same
\* requirement, agent and expiry.  Claim, renewal and release each write both.
ClaimColumnsAgree ==
    \A r \in Req :
        LET q == requirement[r]
            row == agent_claim[q.claim_id]
        IN  IF q.claim_id = None
            THEN q.claimed_by_agent_id = None /\ q.claim_expires_at = None
            ELSE /\ row # None
                 /\ row.requirement_id = r
                 /\ row.agent_id = q.claimed_by_agent_id
                 /\ row.expires_at = q.claim_expires_at
                 /\ row.completion_state = None

\* The agent that holds a claim can be seen among the requirement's members:
\* claiming adds it and only the release of its own claim removes it, even when
\* the member row of an earlier, superseded claim was left behind.
ClaimantIsMember ==
    \A r \in Req : requirement[r].claimed_by_agent_id # None =>
        requirement[r].claimed_by_agent_id \in agent_member[r]

Open(c) == agent_claim[c] # None /\ agent_claim[c].completion_state = None

Current(c) == requirement[agent_claim[c].requirement_id].claim_id = c

\* A row that is still open though its requirement no longer points at it was
\* superseded, and its lease has run out.
SupersededHasLapsed ==
    \A c \in ClaimId : Open(c) /\ ~Current(c) => agent_claim[c].expires_at <= now

\* No requirement is leased twice: of the open rows of a requirement at most one
\* has time left.  (The rows themselves may be many: a takeover completes none.)
AtMostOneLiveClaim ==
    \A c, d \in ClaimId :
        /\ Open(c) /\ Open(d)
        /\ agent_claim[c].requirement_id = agent_claim[d].requirement_id
        /\ agent_claim[c].expires_at > now
        /\ agent_claim[d].expires_at > now
        => c = d

\* An open transaction's now() is never ahead of the clock.
BeganInThePast ==
    \A p \in Actor : began[p] # None => began[p] <= now

--------------------------------------------------------------------------------
(* What a step may never do *)

\* The step gives a claimed requirement to another claim.
Replaces(r) ==
    /\ requirement[r].claim_id # None
    /\ requirement'[r].claim_id \notin {requirement[r].claim_id, None}

\* The step ends a claim, whatever it is released as.
Ends(c) == Open(c) /\ agent_claim'[c].completion_state # None

\* The step closes the transaction of the worker.
WorkerCommits == began[Worker] # None /\ began'[Worker] = None

\* A claim is replaced by another only when its lease has run out, however old
\* the clock reading of the transaction that takes it.
LeaseNotStolen ==
    [][\A r \in Req : Replaces(r) => requirement[r].claim_expires_at <= now]_vars

\* The worker never ends a claim with time left, also when the claim was renewed
\* after the worker's transaction began, or took over a lapsed one.
OnlyLapsedExpire ==
    [][\A c \in ClaimId :
        WorkerCommits /\ Ends(c) => agent_claim[c].expires_at <= now]_vars

\* The history is final: a completed claim, and an open one its requirement no
\* longer points at, are never written again, not by a renewal or release of a
\* later claim of the same agent on the same requirement.
PastClaimsFrozen ==
    [][\A c \in ClaimId :
        agent_claim[c] # None /\ ~(Open(c) /\ Current(c))
        => agent_claim'[c] = agent_claim[c]]_vars

--------------------------------------------------------------------------------
(* Liveness and the promise to other components *)

\* "If the agent dies, the requirement goes back to the queue by itself": a
\* lapsed claim does not stay on its requirement.  The worker releases it, unless
\* it is renewed or another agent takes it first.
LapsedClaimsEnd ==
    \A r \in Req : LapsedAt(r, now) ~> ~LapsedAt(r, now)

\* AgentClaims implements a lease per requirement.
LeaseOf == INSTANCE AgentLease WITH
    holder   <- [r \in Req |-> requirement[r].claimed_by_agent_id],
    deadline <- [r \in Req |-> requirement[r].claim_expires_at]

ImplementsLease == LeaseOf!Spec
ImplementsFairLease == LeaseOf!FairSpec
===============================================================================
