--------------------------- MODULE AgentClaimsProofs ---------------------------
(***************************************************************************)
(* The safety of AgentClaims for any number of requirements, agents and    *)
(* claims, any workflow, and a clock without bound.                        *)
(*                                                                         *)
(* One inductive invariant, IInv, carries everything: a claim is written   *)
(* to two tables, so neither its type nor its history can be shown without *)
(* knowing that both records agree, and that a superseded row has lapsed   *)
(* follows only when no transaction is ahead of the clock.                 *)
(***************************************************************************)
EXTENDS AgentClaims, TLAPS

IInv ==
    /\ TypeOK
    /\ ClaimColumnsAgree
    /\ ClaimantIsMember
    /\ BeganInThePast
    /\ SupersededHasLapsed

--------------------------------------------------------------------------------
(* Facts about the operators *)

\* A move whose exception is swallowed leaves the requirement where it was or
\* where the move was to lead (requirement_transition under EXCEPTION).
LEMMA SwallowedStays ==
    ASSUME NEW from, NEW to, NEW actor
    PROVE  SwallowedTransition(from, to, actor) \subseteq {from, to}
BY DEF SwallowedTransition

\* While ids last, the INSERT INTO agent_claim gets one that no row has.
LEMMA FreshClaimId ==
    ASSUME \E c \in ClaimId : agent_claim[c] = None
    PROVE  NewClaimId \in ClaimId /\ agent_claim[NewClaimId] = None
BY DEF NewClaimId

\* What ClaimColumnsAgree says of a claimed requirement, and that an unclaimed
\* one has no holder and no expiry.
LEMMA ClaimedRow ==
    ASSUME TypeOK, ClaimColumnsAgree, NEW r \in Req
    PROVE  /\ requirement[r].claim_id = None =>
                 /\ requirement[r].claimed_by_agent_id = None
                 /\ requirement[r].claim_expires_at = None
           /\ requirement[r].claim_id # None =>
                 /\ requirement[r].claim_id \in ClaimId
                 /\ agent_claim[requirement[r].claim_id] \in ClaimRow
                 /\ agent_claim[requirement[r].claim_id].requirement_id = r
                 /\ agent_claim[requirement[r].claim_id].agent_id =
                        requirement[r].claimed_by_agent_id
                 /\ agent_claim[requirement[r].claim_id].expires_at =
                        requirement[r].claim_expires_at
                 /\ agent_claim[requirement[r].claim_id].completion_state = None
                 /\ requirement[r].claimed_by_agent_id \in Agent
                 /\ requirement[r].claimed_by_agent_id # None
                 /\ requirement[r].claim_expires_at \in Nat
                 /\ requirement[r].claim_expires_at # None
<1>1. requirement[r] \in Requirement
  BY DEF TypeOK
<1>2. requirement[r].claim_id # None =>
        /\ requirement[r].claim_id \in ClaimId
        /\ agent_claim[requirement[r].claim_id] # None
  BY <1>1 DEF Requirement, ClaimColumnsAgree
<1>3. requirement[r].claim_id # None =>
        agent_claim[requirement[r].claim_id] \in ClaimRow
  BY <1>2 DEF TypeOK
<1>4. requirement[r].claim_id # None =>
        /\ agent_claim[requirement[r].claim_id].agent_id \in Agent
        /\ agent_claim[requirement[r].claim_id].expires_at \in Nat
  BY <1>3 DEF ClaimRow
<1> QED
  BY <1>1, <1>2, <1>3, <1>4, ClaimsAssumption DEF ClaimColumnsAgree

\* No two requirements point at the same agent_claim row.
LEMMA ClaimIdsDiffer ==
    ASSUME TypeOK, ClaimColumnsAgree, NEW q \in Req, NEW r \in Req,
           requirement[q].claim_id # None,
           requirement[q].claim_id = requirement[r].claim_id
    PROVE  q = r
BY ClaimedRow

--------------------------------------------------------------------------------
(* Each write preserves the invariant *)

\* Taking a claim: the new row and the claim columns agree, and the row it
\* supersedes, if any, has lapsed because the taker's now() is not ahead of the
\* clock.
LEMMA TakeClaimPreserves ==
    ASSUME IInv, NEW a \in Agent, NEW r \in Req, NEW expires \in Nat,
           began[a] # None, ~LiveAt(r, began[a]),
           TakeClaim(a, r, expires)
    PROVE  IInv'
<1> DEFINE new == NewClaimId
<1>1. new \in ClaimId /\ agent_claim[new] = None
  BY FreshClaimId DEF TakeClaim
<1>2. PICK s \in Status :
        requirement' = [requirement EXCEPT ![r] =
            [ status_id |-> s, claim_id |-> new,
              claimed_by_agent_id |-> a, claim_expires_at |-> expires ]]
  <2>1. requirement[r].status_id \in Status
    BY DEF IInv, TypeOK, Requirement
  <2>2. SwallowedTransition(requirement[r].status_id, InProgress, "agent") \subseteq Status
    BY <2>1, SwallowedStays, ClaimsAssumption
  <2> QED
    BY <2>2 DEF TakeClaim
<1> DEFINE row == [ requirement_id |-> r, agent_id |-> a, expires_at |-> expires,
                    previous_status_id |-> requirement[r].status_id,
                    completion_state |-> None ]
<1>3. agent_claim' = [agent_claim EXCEPT ![new] = row]
  BY DEF TakeClaim
<1>4. row \in ClaimRow /\ row # None
  BY ClaimsAssumption DEF IInv, TypeOK, Requirement, ClaimRow
<1>5. \A q \in Req : requirement[q].claim_id # new
  BY <1>1, ClaimedRow, ClaimsAssumption DEF IInv
<1>6. \A q \in Req : requirement'[q] =
        IF q = r
        THEN [ status_id |-> s, claim_id |-> new,
               claimed_by_agent_id |-> a, claim_expires_at |-> expires ]
        ELSE requirement[q]
  BY <1>2 DEF IInv, TypeOK
<1>7. \A c \in ClaimId : agent_claim'[c] = IF c = new THEN row ELSE agent_claim[c]
  BY <1>3 DEF IInv, TypeOK
<1> HIDE DEF new, row
<1>8. TypeOK'
  <2>1. requirement' \in [Req -> Requirement]
    BY <1>1, <1>2 DEF IInv, TypeOK, Requirement
  <2>2. agent_claim' \in [ClaimId -> ClaimRow \cup {None}]
    BY <1>3, <1>4 DEF IInv, TypeOK
  <2> QED
    BY <2>1, <2>2 DEF IInv, TypeOK, TakeClaim, AddAgentMember, Actor
<1>9. ClaimColumnsAgree'
  <2> SUFFICES ASSUME NEW q \in Req
               PROVE  ClaimColumnsAgree!(q)'
    BY DEF ClaimColumnsAgree
  <2>1. CASE q = r
    BY <2>1, <1>1, <1>4, <1>6, <1>7, ClaimsAssumption DEF row
  <2>2. CASE q # r
    <3>1. requirement'[q] = requirement[q]
      BY <2>2, <1>6
    <3>2. requirement[q].claim_id # None =>
            agent_claim'[requirement[q].claim_id] = agent_claim[requirement[q].claim_id]
      BY <1>5, <1>7, ClaimedRow DEF IInv
    <3> QED
      BY <3>1, <3>2 DEF IInv, ClaimColumnsAgree
  <2> QED
    BY <2>1, <2>2
<1>10. ClaimantIsMember'
  BY <1>6 DEF IInv, TypeOK, ClaimantIsMember, TakeClaim, AddAgentMember
<1>11. BeganInThePast'
  BY ClaimsAssumption DEF IInv, TypeOK, BeganInThePast, TakeClaim
<1>12. SupersededHasLapsed'
  <2> SUFFICES ASSUME NEW c \in ClaimId, Open(c)', ~Current(c)'
               PROVE  agent_claim'[c].expires_at <= now
    BY DEF SupersededHasLapsed, TakeClaim
  <2>1. c # new
    BY <1>6, <1>7 DEF Current, row
  <2>2. agent_claim'[c] = agent_claim[c] /\ Open(c)
    BY <2>1, <1>7 DEF Open
  <2>3. agent_claim[c] \in ClaimRow
    BY <2>2 DEF Open, IInv, TypeOK
  <2>4. agent_claim[c].requirement_id \in Req
    BY <2>3 DEF ClaimRow
  <2>5. CASE Current(c)
    <3>1. agent_claim[c].requirement_id = r /\ requirement[r].claim_id = c
      BY <2>2, <2>4, <2>5, <1>6 DEF Current
    <3>2. requirement[r].claim_id # None
      BY <3>1, ClaimsAssumption
    <3>3. agent_claim[c].expires_at <= began[a]
      BY <3>1, <3>2, ClaimedRow, ClaimsAssumption DEF LiveAt, IInv, TypeOK, Actor
    <3>4. began[a] \in Nat /\ began[a] <= now
      BY ClaimsAssumption DEF IInv, TypeOK, Actor, BeganInThePast
    <3> QED
      BY <2>2, <2>3, <3>3, <3>4 DEF ClaimRow, IInv, TypeOK
  <2>6. CASE ~Current(c)
    BY <2>2, <2>6 DEF IInv, SupersededHasLapsed
  <2> QED
    BY <2>5, <2>6
<1> QED
  BY <1>8, <1>9, <1>10, <1>11, <1>12 DEF IInv

\* A renewal moves the expiry of the current claim only, in both its records.
LEMMA RenewPreserves ==
    ASSUME IInv, NEW a \in Agent, NEW r \in Req, NEW l \in Lease, Renew(a, r, l)
    PROVE  IInv'
<1> DEFINE expires == began[a] + l
           mine    == requirement[r].claim_id
<1>1. expires \in Nat
  BY ClaimsAssumption DEF Renew, IInv, TypeOK, Actor
<1>2. mine # None /\ mine \in ClaimId /\ agent_claim[mine] \in ClaimRow
  <2>1. requirement[r].claimed_by_agent_id # None
    BY ClaimsAssumption DEF Renew
  <2> QED
    BY <2>1, ClaimedRow DEF IInv
<1>3. requirement' = [requirement EXCEPT ![r].claim_expires_at = expires]
  BY DEF Renew
<1>4. agent_claim' = [agent_claim EXCEPT ![mine] = [@ EXCEPT !.expires_at = expires]]
  BY DEF Renew, RenewedRows
<1>5. \A q \in Req : requirement'[q] =
        IF q = r THEN [requirement[r] EXCEPT !.claim_expires_at = expires]
                 ELSE requirement[q]
  BY <1>3 DEF IInv, TypeOK
<1>6. \A c \in ClaimId : agent_claim'[c] =
        IF c = mine THEN [agent_claim[c] EXCEPT !.expires_at = expires]
                    ELSE agent_claim[c]
  BY <1>4 DEF IInv, TypeOK
<1>7. \A q \in Req : requirement'[q].claim_id = requirement[q].claim_id
  BY <1>5 DEF IInv, TypeOK, Requirement
<1> HIDE DEF expires
<1>8. TypeOK'
  <2>1. requirement' \in [Req -> Requirement]
    BY <1>1, <1>3 DEF IInv, TypeOK, Requirement
  <2>2. agent_claim' \in [ClaimId -> ClaimRow \cup {None}]
    <3>1. [agent_claim[mine] EXCEPT !.expires_at = expires] \in ClaimRow
      BY <1>1, <1>2 DEF ClaimRow
    <3> QED
      BY <1>2, <1>4, <3>1 DEF IInv, TypeOK
  <2> QED
    BY <2>1, <2>2 DEF IInv, TypeOK, Renew, Actor
<1>9. ClaimColumnsAgree'
  <2> SUFFICES ASSUME NEW q \in Req
               PROVE  ClaimColumnsAgree!(q)'
    BY DEF ClaimColumnsAgree
  <2>1. CASE q = r
    <3>1. requirement'[r] = [requirement[r] EXCEPT !.claim_expires_at = expires]
      BY <1>5
    <3>2. agent_claim'[mine] = [agent_claim[mine] EXCEPT !.expires_at = expires]
      BY <1>2, <1>6
    <3>3. requirement[r] \in Requirement
      BY DEF IInv, TypeOK
    <3>4. agent_claim'[mine] \in ClaimRow
      BY <1>1, <1>2, <3>2 DEF ClaimRow
    <3> QED
      BY <2>1, <1>2, <3>1, <3>2, <3>3, <3>4, ClaimedRow, ClaimsAssumption
      DEF Requirement, ClaimRow, IInv
  <2>2. CASE q # r
    <3>1. requirement[q].claim_id # None => requirement[q].claim_id # mine
      BY <2>2, ClaimIdsDiffer DEF IInv
    <3>2. requirement[q].claim_id # None =>
            agent_claim'[requirement[q].claim_id] = agent_claim[requirement[q].claim_id]
      BY <3>1, <1>6, ClaimedRow DEF IInv
    <3> QED
      BY <2>2, <3>2, <1>5 DEF IInv, ClaimColumnsAgree
  <2> QED
    BY <2>1, <2>2
<1>10. ClaimantIsMember'
  BY <1>5 DEF IInv, TypeOK, Requirement, ClaimantIsMember, Renew
<1>11. BeganInThePast'
  BY ClaimsAssumption DEF IInv, TypeOK, BeganInThePast, Renew
<1>12. SupersededHasLapsed'
  <2> SUFFICES ASSUME NEW c \in ClaimId, Open(c)', ~Current(c)'
               PROVE  agent_claim'[c].expires_at <= now
    BY DEF SupersededHasLapsed, Renew
  <2>1. c # mine
    <3>1. agent_claim'[mine].requirement_id = r
      BY <1>2, <1>6, ClaimedRow DEF ClaimRow, IInv
    <3> QED
      BY <3>1, <1>7 DEF Current
  <2>2. agent_claim'[c] = agent_claim[c] /\ Open(c)
    BY <2>1, <1>6 DEF Open
  <2>3. agent_claim[c].requirement_id \in Req
    BY <2>2 DEF Open, IInv, TypeOK, ClaimRow
  <2>4. ~Current(c)
    BY <2>2, <2>3, <1>7 DEF Current
  <2> QED
    BY <2>2, <2>4 DEF IInv, SupersededHasLapsed
<1> QED
  BY <1>8, <1>9, <1>10, <1>11, <1>12 DEF IInv

\* The status a released requirement is left in is one of the account's.
LEMMA StatusAfterReleaseType ==
    ASSUME IInv, NEW r \in Req, requirement[r].claim_id # None, NEW state, NEW actor
    PROVE  StatusAfterRelease(r, state, actor) \subseteq Status
<1>1. requirement[r].status_id \in Status
  BY DEF IInv, TypeOK, Requirement
<1>2. agent_claim[requirement[r].claim_id].previous_status_id \in Status
  BY ClaimedRow DEF ClaimRow, IInv
<1> QED
  BY <1>1, <1>2, SwallowedStays DEF StatusAfterRelease

\* Releasing completes exactly the current rows of the requirements released.
LEMMA ReleasedRows ==
    ASSUME IInv, NEW S \in SUBSET Req, NEW state \in ReleaseState,
           NEW back, \A r \in S : requirement[r].claim_id # None,
           ReleaseClaims(S, state, back)
    PROVE  /\ \A q \in S : /\ requirement'[q].claim_id = None
                             /\ requirement'[q].claimed_by_agent_id = None
                             /\ requirement'[q].claim_expires_at = None
           /\ \A q \in Req \ S : requirement'[q] = requirement[q]
           /\ \A r \in S :
                /\ agent_claim'[requirement[r].claim_id] \in ClaimRow
                /\ agent_claim'[requirement[r].claim_id].completion_state = state
           /\ \A c \in ClaimId : (\A r \in S : requirement[r].claim_id # c) =>
                agent_claim'[c] = agent_claim[c]
<1>1. /\ \A q \in S : /\ requirement'[q].claim_id = None
                        /\ requirement'[q].claimed_by_agent_id = None
                        /\ requirement'[q].claim_expires_at = None
      /\ \A q \in Req \ S : requirement'[q] = requirement[q]
  BY DEF ReleaseClaims, Unclaimed
<1>2. ASSUME NEW r \in S
      PROVE  /\ agent_claim'[requirement[r].claim_id] \in ClaimRow
             /\ agent_claim'[requirement[r].claim_id].completion_state = state
  <2> DEFINE c == requirement[r].claim_id
  <2>1. c \in ClaimId /\ agent_claim[c] \in ClaimRow
    BY ClaimedRow DEF IInv
  <2>2. agent_claim'[c] = [agent_claim[c] EXCEPT !.completion_state = state]
    BY <2>1 DEF ReleaseClaims
  <2> QED
    BY <2>1, <2>2 DEF ClaimRow
<1>3. \A c \in ClaimId : (\A r \in S : requirement[r].claim_id # c) =>
        agent_claim'[c] = agent_claim[c]
  BY DEF ReleaseClaims
<1> QED
  BY <1>1, <1>2, <1>3

\* A release, of one requirement or by the worker of many, keeps both records of
\* every claim in step, and leaves nothing superseded behind.
LEMMA ReleaseClaimsPreserves ==
    ASSUME IInv, NEW S \in SUBSET Req, NEW state \in ReleaseState,
           NEW back, \A r \in S : back[r] \in Status,
           \A r \in S : requirement[r].claim_id # None,
           ReleaseClaims(S, state, back),
           began' \in [Actor -> Nat \cup {None}], BeganInThePast', now' = now
    PROVE  IInv'
<1>1. state # None
  BY ClaimsAssumption
<1>2. /\ \A q \in S : /\ requirement'[q].claim_id = None
                        /\ requirement'[q].claimed_by_agent_id = None
                        /\ requirement'[q].claim_expires_at = None
      /\ \A q \in Req \ S : requirement'[q] = requirement[q]
  BY ReleasedRows
<1>3. \A r \in S :
        /\ agent_claim'[requirement[r].claim_id] \in ClaimRow
        /\ agent_claim'[requirement[r].claim_id].completion_state = state
  BY ReleasedRows
<1>4. \A c \in ClaimId : (\A r \in S : requirement[r].claim_id # c) =>
        agent_claim'[c] = agent_claim[c]
  BY ReleasedRows
<1>5. TypeOK'
  <2>1. requirement' \in [Req -> Requirement]
    <3>1. \A q \in S : Unclaimed(back[q]) \in Requirement
      BY DEF Unclaimed, Requirement
    <3> QED
      BY <3>1 DEF ReleaseClaims, IInv, TypeOK
  <2>2. agent_claim' \in [ClaimId -> ClaimRow \cup {None}]
    <3> SUFFICES ASSUME NEW c \in ClaimId
                 PROVE  agent_claim'[c] \in ClaimRow \cup {None}
      BY DEF ReleaseClaims
    <3>1. CASE \E r \in S : requirement[r].claim_id = c
      BY <3>1, <1>3
    <3>2. CASE \A r \in S : requirement[r].claim_id # c
      BY <3>2, <1>4 DEF IInv, TypeOK
    <3> QED
      BY <3>1, <3>2
  <2>3. agent_member' \in [Req -> SUBSET Agent]
    BY DEF ReleaseClaims, IInv, TypeOK
  <2> QED
    BY <2>1, <2>2, <2>3 DEF IInv, TypeOK
<1>6. ClaimColumnsAgree'
  <2> SUFFICES ASSUME NEW q \in Req
               PROVE  ClaimColumnsAgree!(q)'
    BY DEF ClaimColumnsAgree
  <2>1. CASE q \in S
    BY <2>1, <1>2
  <2>2. CASE q \notin S
    <3>1. requirement'[q] = requirement[q]
      BY <2>2, <1>2
    <3>2. requirement[q].claim_id # None =>
            \A r \in S : requirement[r].claim_id # requirement[q].claim_id
      BY <2>2, ClaimIdsDiffer DEF IInv
    <3>3. requirement[q].claim_id # None =>
            agent_claim'[requirement[q].claim_id] = agent_claim[requirement[q].claim_id]
      BY <3>2, ClaimedRow, <1>4 DEF IInv
    <3> QED
      BY <3>1, <3>3 DEF IInv, ClaimColumnsAgree
  <2> QED
    BY <2>1, <2>2
<1>7. ClaimantIsMember'
  <2> SUFFICES ASSUME NEW q \in Req, requirement'[q].claimed_by_agent_id # None
               PROVE  requirement'[q].claimed_by_agent_id \in agent_member'[q]
    BY DEF ClaimantIsMember
  <2>1. q \notin S
    BY <1>2
  <2>2. agent_member'[q] = agent_member[q] /\ requirement'[q] = requirement[q]
    BY <2>1 DEF ReleaseClaims
  <2> QED
    BY <2>2 DEF IInv, ClaimantIsMember
<1>8. SupersededHasLapsed'
  <2> SUFFICES ASSUME NEW c \in ClaimId, Open(c)', ~Current(c)'
               PROVE  agent_claim'[c].expires_at <= now
    BY DEF SupersededHasLapsed
  <2>1. \A r \in S : requirement[r].claim_id # c
    BY <1>1, <1>3 DEF Open
  <2>2. agent_claim'[c] = agent_claim[c] /\ Open(c)
    BY <2>1, <1>4 DEF Open
  <2>3. agent_claim[c].requirement_id \in Req
    BY <2>2 DEF Open, IInv, TypeOK, ClaimRow
  <2>4. ~Current(c)
    <3> SUFFICES ASSUME Current(c) PROVE FALSE
      OBVIOUS
    <3>1. agent_claim[c].requirement_id \notin S
      BY <2>1 DEF Current
    <3> QED
      BY <3>1, <2>2, <2>3, <1>2 DEF Current
  <2> QED
    BY <2>2, <2>4 DEF IInv, SupersededHasLapsed
<1> QED
  BY <1>5, <1>6, <1>7, <1>8 DEF IInv

\* agent_release of one requirement, as ReleaseByAgent and ReleaseByUser call it.
LEMMA ReleaseOnePreserves ==
    ASSUME IInv, NEW r \in Req, NEW state \in ReleaseState, NEW actor,
           ReleaseOne(r, state, actor),
           began' \in [Actor -> Nat \cup {None}], BeganInThePast', now' = now
    PROVE  IInv'
<1>1. requirement[r].claim_id # None
  BY DEF ReleaseOne
<1>2. PICK s \in StatusAfterRelease(r, state, actor) :
        ReleaseClaims({r}, state, [q \in {r} |-> s])
  BY DEF ReleaseOne
<1>3. s \in Status
  BY <1>1, <1>2, StatusAfterReleaseType
<1> DEFINE back == [q \in {r} |-> s]
<1>4. \A q \in {r} : back[q] \in Status /\ requirement[q].claim_id # None
  BY <1>1, <1>3
<1>5. ReleaseClaims({r}, state, back)
  BY <1>2
<1> HIDE DEF back
<1> QED
  BY <1>4, <1>5, ReleaseClaimsPreserves

--------------------------------------------------------------------------------
(* The invariant holds *)

LEMMA InitEstablishes == Init => IInv
<1> SUFFICES ASSUME Init PROVE IInv
  OBVIOUS
<1>1. TypeOK
  <2>1. \A s \in Status : Unclaimed(s) \in Requirement
    BY DEF Unclaimed, Requirement
  <2> QED
    BY <2>1 DEF Init, TypeOK
<1>2. \A r \in Req : /\ requirement[r].claim_id = None
                     /\ requirement[r].claimed_by_agent_id = None
                     /\ requirement[r].claim_expires_at = None
  BY DEF Init, Unclaimed
<1>3. ClaimColumnsAgree /\ ClaimantIsMember
  BY <1>2 DEF ClaimColumnsAgree, ClaimantIsMember
<1>4. BeganInThePast /\ SupersededHasLapsed
  BY DEF Init, BeganInThePast, SupersededHasLapsed, Open
<1> QED
  BY <1>1, <1>3, <1>4 DEF IInv

\* Every step of the specification preserves the invariant.
LEMMA NextPreserves == IInv /\ [Next]_vars => IInv'
<1> SUFFICES ASSUME IInv, [Next]_vars PROVE IInv'
  OBVIOUS
<1> USE ClaimsAssumption
<1>1. CASE Tick
  <2>1. now' \in Nat /\ now <= now'
    BY <1>1 DEF Tick, IInv, TypeOK
  <2>2. TypeOK' /\ ClaimColumnsAgree' /\ ClaimantIsMember'
    BY <1>1, <2>1 DEF Tick, IInv, TypeOK, ClaimColumnsAgree, ClaimantIsMember
  <2>3. BeganInThePast'
    BY <1>1, <2>1 DEF Tick, IInv, TypeOK, BeganInThePast
  <2>4. SupersededHasLapsed'
    <3>1. \A c \in ClaimId : Open(c) => agent_claim[c].expires_at \in Nat
      BY DEF Open, IInv, TypeOK, ClaimRow
    <3> QED
      BY <1>1, <2>1, <3>1 DEF Tick, IInv, TypeOK, SupersededHasLapsed, Open, Current
  <2> QED
    BY <2>2, <2>3, <2>4 DEF IInv
<1>2. CASE \E p \in Actor : Begin(p) \/ EndWithoutWrite(p)
  <2>1. PICK p \in Actor : Begin(p) \/ EndWithoutWrite(p)
    BY <1>2
  <2>2. began' \in [Actor -> Nat \cup {None}] /\ BeganInThePast'
    BY <2>1 DEF Begin, EndWithoutWrite, IInv, TypeOK, BeganInThePast
  <2> QED
    BY <2>1, <2>2 DEF Begin, EndWithoutWrite, IInv, TypeOK, ClaimColumnsAgree,
        ClaimantIsMember, SupersededHasLapsed, Open, Current
<1>3. CASE \E a \in Agent, r \in Req, l \in Lease : Claim(a, r, l) \/ ClaimNext(a, r, l)
  <2>1. PICK a \in Agent, r \in Req, l \in Lease : Claim(a, r, l) \/ ClaimNext(a, r, l)
    BY <1>3
  <2>2. began[a] # None /\ ~LiveAt(r, began[a]) /\ TakeClaim(a, r, began[a] + l)
    BY <2>1 DEF Claim, ClaimNext
  <2>3. began[a] + l \in Nat
    BY <2>2 DEF IInv, TypeOK, Actor
  <2> QED
    BY <2>2, <2>3, TakeClaimPreserves
<1>4. CASE \E a \in Agent, r \in Req, l \in Lease : Renew(a, r, l)
  BY <1>4, RenewPreserves
<1>5. CASE \E a \in Agent, r \in Req, st \in ReleaseState : ReleaseByAgent(a, r, st)
  <2>1. PICK a \in Agent, r \in Req, st \in ReleaseState : ReleaseByAgent(a, r, st)
    BY <1>5
  <2>2. began' \in [Actor -> Nat \cup {None}] /\ BeganInThePast' /\ now' = now
    BY <2>1 DEF ReleaseByAgent, IInv, TypeOK, BeganInThePast, Actor
  <2>3. ReleaseOne(r, st, "agent")
    BY <2>1 DEF ReleaseByAgent
  <2> QED
    BY <2>2, <2>3, ReleaseOnePreserves
<1>6. CASE \E r \in Req, st \in ReleaseState : ReleaseByUser(r, st)
  <2>1. PICK r \in Req, st \in ReleaseState : ReleaseByUser(r, st)
    BY <1>6
  <2>2. began' \in [Actor -> Nat \cup {None}] /\ BeganInThePast' /\ now' = now
    BY <2>1 DEF ReleaseByUser, IInv, TypeOK, BeganInThePast
  <2>3. ReleaseOne(r, st, "user")
    BY <2>1 DEF ReleaseByUser
  <2> QED
    BY <2>2, <2>3, ReleaseOnePreserves
<1>7. CASE \E S \in SUBSET Req : ClaimsExpire(S)
  <2>1. PICK S \in SUBSET Req : ClaimsExpire(S)
    BY <1>7
  <2>2. began' \in [Actor -> Nat \cup {None}] /\ BeganInThePast' /\ now' = now
    BY <2>1 DEF ClaimsExpire, IInv, TypeOK, BeganInThePast, Actor
  <2>3. PICK back \in [S -> Status] : ReleaseClaims(S, "expired", back)
    BY <2>1 DEF ClaimsExpire
  <2>4. \A r \in S : back[r] \in Status /\ requirement[r].claim_id # None
    BY <2>1, <2>3 DEF ClaimsExpire
  <2>5. "expired" \in ReleaseState
    BY DEF ReleaseState
  <2> QED
    BY <2>2, <2>3, <2>4, <2>5, ReleaseClaimsPreserves
<1>8. CASE \E r \in Req, to \in Status, k \in {"user", "agent"} : Transition(r, to, k)
  <2>1. PICK r \in Req, to \in Status, k \in {"user", "agent"} : Transition(r, to, k)
    BY <1>8
  <2>2. requirement' = [requirement EXCEPT ![r].status_id = to]
    BY <2>1 DEF Transition
  <2>3. requirement' \in [Req -> Requirement]
    BY <2>2 DEF IInv, TypeOK, Requirement
  <2>4. \A q \in Req :
          /\ requirement'[q].claim_id = requirement[q].claim_id
          /\ requirement'[q].claimed_by_agent_id = requirement[q].claimed_by_agent_id
          /\ requirement'[q].claim_expires_at = requirement[q].claim_expires_at
    BY <2>2 DEF IInv, TypeOK, Requirement
  <2>5. UNCHANGED <<now, began, agent_claim, agent_member>>
    BY <2>1 DEF Transition
  <2>6. TypeOK' /\ BeganInThePast'
    BY <2>3, <2>5 DEF IInv, TypeOK, BeganInThePast
  <2>7. ClaimColumnsAgree' /\ ClaimantIsMember'
    BY <2>4, <2>5 DEF IInv, ClaimColumnsAgree, ClaimantIsMember
  <2>8. SupersededHasLapsed'
    <3>1. \A c \in ClaimId : Open(c) => agent_claim[c].requirement_id \in Req
      BY DEF Open, IInv, TypeOK, ClaimRow
    <3> QED
      BY <2>4, <2>5, <3>1 DEF IInv, SupersededHasLapsed, Open, Current
  <2> QED
    BY <2>6, <2>7, <2>8 DEF IInv
<1>9. CASE UNCHANGED vars
  BY <1>9 DEF vars, IInv, TypeOK, ClaimColumnsAgree, ClaimantIsMember, BeganInThePast,
      SupersededHasLapsed, Open, Current
<1> QED
  BY <1>1, <1>2, <1>3, <1>4, <1>5, <1>6, <1>7, <1>8, <1>9 DEF Next

\* The inductive invariant holds in every reachable state.
THEOREM Invariance == Spec => []IInv
BY InitEstablishes, NextPreserves, PTL DEF Spec

\* The tables keep their types: in particular a release always finds the claim
\* row whose previous status it returns to.
THEOREM TypeCorrect == Spec => []TypeOK
<1>1. IInv => TypeOK
  BY DEF IInv
<1> QED
  BY <1>1, Invariance, PTL

\* The claim columns of a requirement and its agent_claim row always agree.
THEOREM ColumnsAgree == Spec => []ClaimColumnsAgree
<1>1. IInv => ClaimColumnsAgree
  BY DEF IInv
<1> QED
  BY <1>1, Invariance, PTL

\* The agent that holds a claim is among the requirement's members.
THEOREM ClaimantStaysMember == Spec => []ClaimantIsMember
<1>1. IInv => ClaimantIsMember
  BY DEF IInv
<1> QED
  BY <1>1, Invariance, PTL

\* A claim that was taken over without being completed had run out of time.
THEOREM SupersededLapsed == Spec => []SupersededHasLapsed
<1>1. IInv => SupersededHasLapsed
  BY DEF IInv
<1> QED
  BY <1>1, Invariance, PTL

\* No requirement is leased to two agents, or twice to one, at the same time.
THEOREM OneLiveClaim == Spec => []AtMostOneLiveClaim
<1>1. IInv => AtMostOneLiveClaim
  <2> SUFFICES ASSUME IInv, NEW c \in ClaimId, NEW d \in ClaimId, Open(c), Open(d),
                      agent_claim[c].requirement_id = agent_claim[d].requirement_id,
                      agent_claim[c].expires_at > now, agent_claim[d].expires_at > now
               PROVE  c = d
    BY DEF AtMostOneLiveClaim
  <2>1. now \in Nat /\ agent_claim[c].expires_at \in Nat /\ agent_claim[d].expires_at \in Nat
    BY DEF Open, IInv, TypeOK, ClaimRow
  <2>2. Current(c) /\ Current(d)
    BY <2>1 DEF IInv, SupersededHasLapsed
  <2> QED
    BY <2>2 DEF Current
<1> QED
  BY <1>1, Invariance, PTL

--------------------------------------------------------------------------------
(* What a step may do *)

\* What each step does to the two tables: it takes a claim over, renews one,
\* releases the current claims of a set of requirements, or leaves all claims
\* and claim columns as they were.
LEMMA StepShapes ==
    ASSUME IInv, [Next]_vars
    PROVE  \/ \E a \in Agent, r \in Req, expires \in Nat :
                /\ began[a] # None /\ ~LiveAt(r, began[a])
                /\ TakeClaim(a, r, expires)
           \/ \E a \in Agent, r \in Req, l \in Lease : Renew(a, r, l)
           \/ \E S \in SUBSET Req, state \in ReleaseState :
              \E back \in [S -> Status] :
                /\ \A r \in S : requirement[r].claim_id # None
                /\ \/ began'[Worker] = began[Worker]
                   \/ /\ began[Worker] # None
                      /\ \A r \in S : LapsedAt(r, began[Worker])
                /\ ReleaseClaims(S, state, back)
                /\ now' = now
           \/ /\ agent_claim' = agent_claim
              /\ \A q \in Req :
                   /\ requirement'[q].claim_id = requirement[q].claim_id
                   /\ requirement'[q].claimed_by_agent_id = requirement[q].claimed_by_agent_id
                   /\ requirement'[q].claim_expires_at = requirement[q].claim_expires_at
              /\ (now' = now \/ Tick)
<1> USE ClaimsAssumption
<1>1. CASE Tick \/ (\E p \in Actor : Begin(p) \/ EndWithoutWrite(p)) \/ UNCHANGED vars
  BY <1>1 DEF Tick, Begin, EndWithoutWrite, vars
<1>2. CASE \E a \in Agent, r \in Req, l \in Lease : Claim(a, r, l) \/ ClaimNext(a, r, l)
  <2>1. PICK a \in Agent, r \in Req, l \in Lease : Claim(a, r, l) \/ ClaimNext(a, r, l)
    BY <1>2
  <2>2. began[a] # None /\ ~LiveAt(r, began[a]) /\ TakeClaim(a, r, began[a] + l)
    BY <2>1 DEF Claim, ClaimNext
  <2>3. began[a] + l \in Nat
    BY <2>2 DEF IInv, TypeOK, Actor
  <2> QED
    BY <2>2, <2>3
<1>3. CASE \E a \in Agent, r \in Req, l \in Lease : Renew(a, r, l)
  BY <1>3
<1>4. ASSUME NEW r \in Req, NEW st \in ReleaseState, NEW actor,
             ReleaseOne(r, st, actor), now' = now,
             began'[Worker] = began[Worker]
      PROVE  \E S \in SUBSET Req, state \in ReleaseState :
             \E back \in [S -> Status] :
                /\ \A q \in S : requirement[q].claim_id # None
                /\ \/ began'[Worker] = began[Worker]
                   \/ /\ began[Worker] # None
                      /\ \A q \in S : LapsedAt(q, began[Worker])
                /\ ReleaseClaims(S, state, back)
                /\ now' = now
  <2>1. requirement[r].claim_id # None
    BY <1>4 DEF ReleaseOne
  <2>2. PICK s \in StatusAfterRelease(r, st, actor) :
          ReleaseClaims({r}, st, [q \in {r} |-> s])
    BY <1>4 DEF ReleaseOne
  <2>3. s \in Status
    BY <2>1, <2>2, StatusAfterReleaseType
  <2>4. [q \in {r} |-> s] \in [{r} -> Status]
    BY <2>3
  <2> QED
    BY <1>4, <2>1, <2>2, <2>4
<1>5. CASE \E a \in Agent, r \in Req, st \in ReleaseState : ReleaseByAgent(a, r, st)
  <2>1. PICK a \in Agent, r \in Req, st \in ReleaseState : ReleaseByAgent(a, r, st)
    BY <1>5
  <2>2. ReleaseOne(r, st, "agent") /\ now' = now /\ began'[Worker] = began[Worker]
    BY <2>1 DEF ReleaseByAgent, IInv, TypeOK, Actor
  <2> QED
    BY <2>2, <1>4
<1>6. CASE \E r \in Req, st \in ReleaseState : ReleaseByUser(r, st)
  <2>1. PICK r \in Req, st \in ReleaseState : ReleaseByUser(r, st)
    BY <1>6
  <2>2. ReleaseOne(r, st, "user") /\ now' = now /\ began'[Worker] = began[Worker]
    BY <2>1 DEF ReleaseByUser
  <2> QED
    BY <2>2, <1>4
<1>7. CASE \E S \in SUBSET Req : ClaimsExpire(S)
  <2>1. PICK S \in SUBSET Req : ClaimsExpire(S)
    BY <1>7
  <2>2. PICK back \in [S -> Status] : ReleaseClaims(S, "expired", back)
    BY <2>1 DEF ClaimsExpire
  <2>3. /\ \A r \in S : requirement[r].claim_id # None
        /\ began[Worker] # None
        /\ \A r \in S : LapsedAt(r, began[Worker])
        /\ now' = now
    BY <2>1 DEF ClaimsExpire
  <2>4. "expired" \in ReleaseState
    BY DEF ReleaseState
  <2> QED
    BY <2>2, <2>3, <2>4
<1>8. CASE \E r \in Req, to \in Status, k \in {"user", "agent"} : Transition(r, to, k)
  <2>1. PICK r \in Req, to \in Status, k \in {"user", "agent"} : Transition(r, to, k)
    BY <1>8
  <2>2. \A q \in Req :
          /\ requirement'[q].claim_id = requirement[q].claim_id
          /\ requirement'[q].claimed_by_agent_id = requirement[q].claimed_by_agent_id
          /\ requirement'[q].claim_expires_at = requirement[q].claim_expires_at
    BY <2>1 DEF Transition, IInv, TypeOK, Requirement
  <2> QED
    BY <2>1, <2>2 DEF Transition
<1> QED
  BY <1>1, <1>2, <1>3, <1>5, <1>6, <1>7, <1>8 DEF Next

\* No transaction of an agent or of the worker is ahead of the clock.
LEMMA BeganTyped ==
    ASSUME IInv, NEW p \in Actor, began[p] # None
    PROVE  began[p] \in Nat /\ now \in Nat /\ began[p] <= now
BY DEF IInv, TypeOK, BeganInThePast

\* A claim is replaced by another only when its lease has run out.
THEOREM NoLeaseStolen == Spec => LeaseNotStolen
<1>1. IInv /\ [Next]_vars =>
        [\A r \in Req : Replaces(r) => requirement[r].claim_expires_at <= now]_vars
  <2> SUFFICES ASSUME IInv, [Next]_vars, NEW q \in Req, Replaces(q)
               PROVE  requirement[q].claim_expires_at <= now
    OBVIOUS
  <2>1. CASE \E a \in Agent, r \in Req, expires \in Nat :
                /\ began[a] # None /\ ~LiveAt(r, began[a])
                /\ TakeClaim(a, r, expires)
    <3>1. PICK a \in Agent, r \in Req, expires \in Nat :
                /\ began[a] # None /\ ~LiveAt(r, began[a])
                /\ TakeClaim(a, r, expires)
      BY <2>1
    <3>2. \A p \in Req \ {r} : requirement'[p] = requirement[p]
      BY <3>1 DEF TakeClaim, IInv, TypeOK
    <3>3. q = r
      BY <3>2 DEF Replaces
    <3>4. requirement[r].claim_id # None
      BY <3>3 DEF Replaces
    <3>5. requirement[r].claimed_by_agent_id # None /\ requirement[r].claim_expires_at \in Nat
      BY <3>4, ClaimedRow DEF IInv
    <3>6. requirement[r].claim_expires_at <= began[a]
      BY <3>1, <3>5, BeganTyped DEF LiveAt, Actor
    <3> QED
      BY <3>1, <3>3, <3>5, <3>6, BeganTyped DEF Actor
  <2>2. CASE \E a \in Agent, r \in Req, l \in Lease : Renew(a, r, l)
    BY <2>2 DEF Renew, Replaces, IInv, TypeOK, Requirement
  <2>3. CASE \E S \in SUBSET Req, state \in ReleaseState :
             \E back \in [S -> Status] : ReleaseClaims(S, state, back)
    BY <2>3 DEF ReleaseClaims, Unclaimed, Replaces
  <2>4. CASE \A r \in Req : requirement'[r].claim_id = requirement[r].claim_id
    BY <2>4 DEF Replaces
  <2> QED
    BY <2>1, <2>2, <2>3, <2>4, StepShapes
<1> QED
  BY <1>1, Invariance, PTL DEF Spec, LeaseNotStolen

\* The worker never ends a claim that has time left.
THEOREM NoLiveClaimExpires == Spec => OnlyLapsedExpire
<1>1. IInv /\ [Next]_vars =>
        [\A c \in ClaimId :
            WorkerCommits /\ Ends(c) => agent_claim[c].expires_at <= now]_vars
  <2> SUFFICES ASSUME IInv, [Next]_vars, NEW c \in ClaimId, WorkerCommits, Ends(c)
               PROVE  agent_claim[c].expires_at <= now
    OBVIOUS
  <2>1. CASE \E a \in Agent, r \in Req, expires \in Nat : TakeClaim(a, r, expires)
    <3>1. began'[Worker] = began[Worker]
      BY <2>1, ClaimsAssumption DEF TakeClaim, IInv, TypeOK, Actor
    <3> QED
      BY <3>1 DEF WorkerCommits
  <2>2. CASE \E a \in Agent, r \in Req, l \in Lease : Renew(a, r, l)
    <3>1. began'[Worker] = began[Worker]
      BY <2>2, ClaimsAssumption DEF Renew, IInv, TypeOK, Actor
    <3> QED
      BY <3>1 DEF WorkerCommits
  <2>3. CASE \E S \in SUBSET Req, state \in ReleaseState :
             \E back \in [S -> Status] :
                /\ \A r \in S : requirement[r].claim_id # None
                /\ \/ began'[Worker] = began[Worker]
                   \/ /\ began[Worker] # None
                      /\ \A r \in S : LapsedAt(r, began[Worker])
                /\ ReleaseClaims(S, state, back)
    <3>1. PICK S \in SUBSET Req, state \in ReleaseState :
             \E back \in [S -> Status] :
                /\ \A r \in S : requirement[r].claim_id # None
                /\ \/ began'[Worker] = began[Worker]
                   \/ /\ began[Worker] # None
                      /\ \A r \in S : LapsedAt(r, began[Worker])
                /\ ReleaseClaims(S, state, back)
      BY <2>3
    <3>2. PICK back \in [S -> Status] : ReleaseClaims(S, state, back)
      BY <3>1
    <3>3. \A r \in S : LapsedAt(r, began[Worker])
      BY <3>1 DEF WorkerCommits
    <3>4. (\A r \in S : requirement[r].claim_id # c) => agent_claim'[c] = agent_claim[c]
      BY <3>1, <3>2, ReleasedRows
    <3>5. PICK r \in S : requirement[r].claim_id = c
      BY <3>4 DEF Ends, Open
    <3>6. /\ requirement[r].claim_expires_at < began[Worker]
          /\ agent_claim[c].expires_at = requirement[r].claim_expires_at
          /\ agent_claim[c].expires_at \in Nat
      BY <3>1, <3>3, <3>5, ClaimedRow DEF LapsedAt, IInv
    <3> QED
      BY <3>6, BeganTyped DEF Actor, WorkerCommits
  <2>4. CASE agent_claim' = agent_claim
    BY <2>4 DEF Ends, Open
  <2> QED
    BY <2>1, <2>2, <2>3, <2>4, StepShapes
<1> QED
  BY <1>1, Invariance, PTL DEF Spec, OnlyLapsedExpire

\* Completed and superseded claims are never written again.
THEOREM HistoryFrozen == Spec => PastClaimsFrozen
<1>1. IInv /\ [Next]_vars =>
        [\A c \in ClaimId :
            agent_claim[c] # None /\ ~(Open(c) /\ Current(c))
            => agent_claim'[c] = agent_claim[c]]_vars
  <2> SUFFICES ASSUME IInv, [Next]_vars, NEW c \in ClaimId,
                      agent_claim[c] # None, ~(Open(c) /\ Current(c))
               PROVE  agent_claim'[c] = agent_claim[c]
    OBVIOUS
  <2>1. \A r \in Req : requirement[r].claim_id = c => FALSE
    <3> SUFFICES ASSUME NEW r \in Req, requirement[r].claim_id = c PROVE FALSE
      OBVIOUS
    <3>1. requirement[r].claim_id # None
      BY ClaimsAssumption
    <3>2. agent_claim[c].requirement_id = r /\ agent_claim[c].completion_state = None
      BY <3>1, ClaimedRow DEF IInv
    <3> QED
      BY <3>2 DEF Open, Current
  <2>2. CASE \E a \in Agent, r \in Req, expires \in Nat : TakeClaim(a, r, expires)
    BY <2>2, FreshClaimId DEF TakeClaim, IInv, TypeOK
  <2>3. CASE \E a \in Agent, r \in Req, l \in Lease : Renew(a, r, l)
    BY <2>3, <2>1 DEF Renew, RenewedRows, IInv, TypeOK
  <2>4. CASE \E S \in SUBSET Req, state \in ReleaseState :
             \E back \in [S -> Status] : ReleaseClaims(S, state, back)
    BY <2>4, <2>1 DEF ReleaseClaims
  <2>5. CASE agent_claim' = agent_claim
    BY <2>5
  <2> QED
    BY <2>2, <2>3, <2>4, <2>5, StepShapes
<1> QED
  BY <1>1, Invariance, PTL DEF Spec, PastClaimsFrozen

--------------------------------------------------------------------------------
(* AgentClaims implements AgentLease *)

\* Claims are leases: seen through the holder and the expiry of each requirement,
\* every behaviour of the claim functions is one of AgentLease.
THEOREM Refinement == Spec => ImplementsLease
<1> DEFINE H == [r \in Req |-> requirement[r].claimed_by_agent_id]
           D == [r \in Req |-> requirement[r].claim_expires_at]
<1>1. Init => LeaseOf!Init
  BY DEF Init, Unclaimed, LeaseOf!Init
<1>2. IInv /\ [Next]_vars => [LeaseOf!Next]_(LeaseOf!vars)
  <2> SUFFICES ASSUME IInv, [Next]_vars
               PROVE  LeaseOf!Next \/ UNCHANGED LeaseOf!vars
    OBVIOUS
  <2>1. IInv'
    BY NextPreserves
  <2>2. D' \in [Req -> Nat \cup {None}]
    BY <2>1 DEF IInv, TypeOK, Requirement
  <2>3. CASE \E a \in Agent, r \in Req, expires \in Nat :
                /\ began[a] # None /\ ~LiveAt(r, began[a])
                /\ TakeClaim(a, r, expires)
    <3>1. PICK a \in Agent, r \in Req, expires \in Nat :
                /\ began[a] # None /\ ~LiveAt(r, began[a])
                /\ TakeClaim(a, r, expires)
      BY <2>3
    <3>2. PICK s : requirement' = [requirement EXCEPT ![r] =
                [ status_id |-> s, claim_id |-> NewClaimId,
                  claimed_by_agent_id |-> a, claim_expires_at |-> expires ]]
      BY <3>1 DEF TakeClaim
    <3>3. H' = [H EXCEPT ![r] = a]
      BY <3>2 DEF IInv, TypeOK
    <3>4. D'[r] # None /\ \A q \in Req \ {r} : D'[q] = D[q]
      BY <3>2, ClaimsAssumption DEF IInv, TypeOK
    <3>5. H[r] # None => D[r] <= now
      <4>1. requirement[r].claim_expires_at \in Nat \cup {None}
        BY DEF IInv, TypeOK, Requirement
      <4>2. requirement[r].claimed_by_agent_id # None =>
                requirement[r].claim_expires_at \in Nat
        BY ClaimedRow DEF IInv
      <4> QED
        BY <4>2, <3>1, BeganTyped DEF LiveAt, Actor
    <3>6. now' = now
      BY <3>1 DEF TakeClaim
    <3> QED
      BY <2>2, <3>3, <3>4, <3>5, <3>6
      DEF LeaseOf!Next, LeaseOf!Acquire, LeaseOf!SetDeadline
  <2>4. CASE \E a \in Agent, r \in Req, l \in Lease : Renew(a, r, l)
    <3>1. PICK a \in Agent, r \in Req, l \in Lease : Renew(a, r, l)
      BY <2>4
    <3>2. began[a] + l \in Nat
      BY <3>1, BeganTyped, ClaimsAssumption DEF Renew, Actor
    <3>3. requirement' = [requirement EXCEPT ![r].claim_expires_at = began[a] + l]
      BY <3>1 DEF Renew
    <3>4. H[r] # None
      BY <3>1, ClaimsAssumption DEF Renew
    <3>5. H' = H
      BY <3>3 DEF IInv, TypeOK, Requirement
    <3>6. D'[r] = began[a] + l /\ \A q \in Req \ {r} : D'[q] = D[q]
      BY <3>3 DEF IInv, TypeOK, Requirement
    <3>7. now' = now
      BY <3>1 DEF Renew
    <3> QED
      BY <2>2, <3>2, <3>4, <3>5, <3>6, <3>7, ClaimsAssumption
      DEF LeaseOf!Next, LeaseOf!Extend, LeaseOf!SetDeadline
  <2>5. CASE \E S \in SUBSET Req, state \in ReleaseState :
             \E back \in [S -> Status] :
                /\ \A r \in S : requirement[r].claim_id # None
                /\ ReleaseClaims(S, state, back)
                /\ now' = now
    <3>1. PICK S \in SUBSET Req, state \in ReleaseState :
             \E back \in [S -> Status] :
                /\ \A r \in S : requirement[r].claim_id # None
                /\ ReleaseClaims(S, state, back)
                /\ now' = now
      BY <2>5
    <3>2. \A r \in S : H[r] # None
      BY <3>1, ClaimedRow DEF IInv
    <3>3. /\ H' = [r \in Req |-> IF r \in S THEN None ELSE H[r]]
          /\ D' = [r \in Req |-> IF r \in S THEN None ELSE D[r]]
      BY <3>1 DEF ReleaseClaims, Unclaimed
    <3> QED
      BY <3>1, <3>2, <3>3 DEF LeaseOf!Next, LeaseOf!Free
  <2>6. CASE /\ \A q \in Req :
                /\ requirement'[q].claimed_by_agent_id = requirement[q].claimed_by_agent_id
                /\ requirement'[q].claim_expires_at = requirement[q].claim_expires_at
             /\ (now' = now \/ Tick)
    <3>1. H' = H /\ D' = D
      BY <2>6
    <3> QED
      BY <2>6, <3>1 DEF Tick, LeaseOf!Next, LeaseOf!Tick, LeaseOf!vars
  <2> QED
    BY <2>3, <2>4, <2>5, <2>6, StepShapes
<1> QED
  BY <1>1, <1>2, Invariance, PTL DEF Spec, ImplementsLease, LeaseOf!Spec
===============================================================================
