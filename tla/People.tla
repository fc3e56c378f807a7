-------------------------------- MODULE People --------------------------------
(***************************************************************************)
(* Who belongs to a space and who to a requirement: space_member and its   *)
(* administrators (internal/handlers/spaces.go), requirement_member, the   *)
(* lead and member_count (db/requirement/requirement_functions.sql).       *)
(*                                                                         *)
(* The functions on a requirement lock its row first, so each is one step; *)
(* they are operators from a requirement to a requirement, or Refused, and *)
(* call one another as the functions do.  The handlers on space members    *)
(* lock no more than the row they write: the write, the look for an        *)
(* administrator and the COMMIT are steps of their own.                    *)
(*                                                                         *)
(* The roles that let a request through are read before its transaction    *)
(* begins and may be gone by then; here any request may run at any time.   *)
(* Watchers, journal and notifications of these functions are left out.    *)
(***************************************************************************)
EXTENDS FiniteSets, Integers

CONSTANTS
    User,
    Agent,
    Space,
    AccountAdmin,  \* active users that administer the account
    Tx,            \* transactions on space members open at a time
    None,
    Refused        \* the function raised: the transaction is rolled back

ASSUME PeopleAssumption ==
    /\ IsFiniteSet(User) /\ IsFiniteSet(Agent)
    /\ AccountAdmin \subseteq User
    /\ User \cap Agent = {}
    /\ None \notin User \cup Agent \cup Space

VARIABLES
    space_member,  \* the roles committed, by space and user
    tx,            \* the open transactions on them
    requirement,   \* one requirement and its requirement_member rows
    expelled       \* ghost: who has lost a role in a space

vars == <<space_member, tx, requirement, expelled>>

Role == {"admin", "contributor"}  \* those between and below behave as the latter

Requirement ==
    [ space        : Space,
      lead_user_id : User \cup {None},
      member_count : 0..Cardinality(User \cup Agent),
      member       : SUBSET (User \cup Agent),   \* requirement_member
      is_lead      : SUBSET (User \cup Agent) ]  \* rows with the flag set

TxState ==
    [ space : Space, user : User, role : Role \cup {None},
      state : {"written", "checked"},
      alone : BOOLEAN ]   \* ghost: nothing committed in the space since the check

\* None is no transaction.
ASSUME NoneAssumption == None \notin TxState

\* At most one row has the flag: idx_requirement_member_lead is unique.
TypeOK ==
    /\ space_member \in [Space -> [User -> Role \cup {None}]]
    /\ tx \in [Tx -> TxState \cup {None}]
    /\ requirement \in Requirement
    /\ requirement.is_lead \subseteq requirement.member
    /\ Cardinality(requirement.is_lead) <= 1
    /\ expelled \in [Space -> SUBSET User]

--------------------------------------------------------------------------------
(* Roles *)

\* space_member_role of a user: account administrators have every space.
HasRole(s, u) == u \in AccountAdmin \/ space_member[s][u] # None

Open == {t \in Tx : tx[t] # None}

\* The row that a transaction has written and not committed is locked.
LockedRows == {<<tx[t].space, tx[t].user>> : t \in Open}

\* AddSpaceMember inserts or changes a role, UpdateSpaceMember changes that of a
\* member (and no row if there is none), RemoveSpaceMember has no role to give.
WriteRole(t, s, u, role) ==
    /\ tx[t] = None
    /\ <<s, u>> \notin LockedRows
    /\ tx' = [tx EXCEPT ![t] = [space |-> s, user |-> u, role |-> role,
                                state |-> "written", alone |-> FALSE]]
    /\ UNCHANGED <<space_member, requirement, expelled>>

\* What the transaction sees: what is committed, and its own row.
Seen(t) == [space_member[tx[t].space] EXCEPT ![tx[t].user] = tx[t].role]

\* Mutant: a role that is given is not checked, as if only a removal could end one.
HasAdmin_OnlyRemovals(t) ==
    tx[t].role = None => \E u \in User : Seen(t)[u] = "admin"

\* ensureSpaceHasAdmin
HasAdmin(t) == \E u \in User : Seen(t)[u] = "admin"

CheckAdmin(t) ==
    /\ t \in Open /\ tx[t].state = "written"
    /\ tx' = IF HasAdmin(t)
             THEN [tx EXCEPT ![t].state = "checked", ![t].alone = TRUE]
             ELSE [tx EXCEPT ![t] = None]
    /\ UNCHANGED <<space_member, requirement, expelled>>

CommitRole(t) ==
    /\ t \in Open /\ tx[t].state = "checked"
    /\ space_member' = [space_member EXCEPT ![tx[t].space] = Seen(t)]
    /\ tx' = [o \in Tx |->
           CASE o = t -> None
             [] o \in Open \ {t} /\ tx[o].space = tx[t].space -> [tx[o] EXCEPT !.alone = FALSE]
             [] OTHER -> tx[o]]
    /\ expelled' = [expelled EXCEPT ![tx[t].space] =
           IF tx[t].role = None THEN @ \cup {tx[t].user} ELSE @ \ {tx[t].user}]
    /\ UNCHANGED requirement

--------------------------------------------------------------------------------
(* The functions on the members of a requirement *)

Users(req) == req.member \cap User

\* member_count counts agents as well, but only these functions write it.
Recount(req) == [req EXCEPT !.member_count = Cardinality(req.member)]

\* requirement_member_add of each of them, in any order.
MemberAdd(req, us) ==
    IF req = Refused \/ \E u \in us : ~HasRole(req.space, u) THEN Refused
    ELSE IF us \subseteq req.member THEN req
    ELSE Recount([req EXCEPT
            !.member = @ \cup us,
            !.is_lead = @ \cup ({req.lead_user_id} \cap (us \ req.member))])

\* Mutant: the lead is not cleared with the member.
MemberRemove_KeepsLead(req, us) ==
    IF us \cap req.member = {} THEN req
    ELSE Recount([req EXCEPT !.member = @ \ us, !.is_lead = @ \ us])

\* requirement_member_remove of each of them.
MemberRemove(req, us) ==
    IF us \cap req.member = {} THEN req
    ELSE Recount([req EXCEPT
            !.member = @ \ us, !.is_lead = @ \ us,
            !.lead_user_id = IF @ \in us THEN None ELSE @])

\* Mutant: the former lead keeps the flag.
NewLead_FlagKept(req, u) ==
    IF req = Refused THEN Refused
    ELSE [req EXCEPT !.lead_user_id = u, !.is_lead = @ \cup ({u} \cap req.member)]

\* requirement_set_lead after it has found the lead to be another.
NewLead(req, u) ==
    IF req = Refused THEN Refused
    ELSE [req EXCEPT !.lead_user_id = u, !.is_lead = {u} \cap req.member]

SetLead(req, u) ==
    IF req = Refused \/ req.lead_user_id = u THEN req
    ELSE NewLead(MemberAdd(req, {u} \ {None}), u)

\* requirement_members_set: removals, additions (those who stay are checked again),
\* the lead.
MembersSet(req, us, lead) ==
    SetLead(MemberAdd(MemberRemove(req, Users(req) \ us), us), lead)

\* Mutant: those without a role in the new space stay.
MoveSpace_AllStay(req, s) ==
    IF req.space = s THEN req ELSE Recount([req EXCEPT !.space = s])

\* requirement_move_space: who has no role in the new space is left behind.
MoveSpace(req, s) ==
    LET staying == (req.member \cap Agent) \cup {u \in Users(req) : HasRole(s, u)} IN
    IF req.space = s THEN req
    ELSE Recount([req EXCEPT
            !.space = s, !.member = staying, !.is_lead = @ \cap staying,
            !.lead_user_id = IF @ \in staying THEN @ ELSE None])

--------------------------------------------------------------------------------
(* Requests on the requirement *)

Commit(req) ==
    /\ requirement' = IF req = Refused THEN requirement ELSE req
    /\ UNCHANGED <<space_member, tx, expelled>>

AddRequirementMember(u, lead) ==
    LET added == MemberAdd(requirement, {u}) IN
    Commit(IF lead THEN SetLead(added, u) ELSE added)

RemoveRequirementMember(u) == Commit(MemberRemove(requirement, {u}))
SetRequirementLead(u) == Commit(SetLead(requirement, u))
SetRequirementMembers(us, lead) == Commit(MembersSet(requirement, us, lead))
MoveRequirementToSpace(s) == Commit(MoveSpace(requirement, s))

\* agent_claim and agent_release write the row and not the count.
AgentJoins(a) == Commit([requirement EXCEPT !.member = @ \cup {a}])
AgentLeaves(a) == Commit([requirement EXCEPT !.member = @ \ {a}])

--------------------------------------------------------------------------------
\* A space is created with its creator as administrator, a requirement with members
\* who have a role in its space, the lead among them.
Init ==
    /\ space_member \in [Space -> [User -> Role \cup {None}]]
    /\ \A s \in Space : \E u \in User : space_member[s][u] = "admin"
    /\ tx = [t \in Tx |-> None]
    /\ expelled = [s \in Space |-> {}]
    /\ \E s \in Space : \E us \in SUBSET {u \in User : HasRole(s, u)} :
           \E lead \in us \cup {None} :
               requirement = [ space |-> s, lead_user_id |-> lead, member |-> us,
                               member_count |-> Cardinality(us), is_lead |-> {lead} \cap us ]

Roles == \E t \in Tx :
    \/ \E s \in Space, u \in User, role \in Role \cup {None} : WriteRole(t, s, u, role)
    \/ CheckAdmin(t) \/ CommitRole(t)

Members ==
    \/ \E u \in User : \/ \E lead \in BOOLEAN : AddRequirementMember(u, lead)
                       \/ RemoveRequirementMember(u)
    \/ \E lead \in User \cup {None} :
           SetRequirementLead(lead) \/ \E us \in SUBSET User : SetRequirementMembers(us, lead)
    \/ \E s \in Space : MoveRequirementToSpace(s)
    \/ \E a \in Agent : AgentJoins(a) \/ AgentLeaves(a)

Next == Roles \/ Members

Spec == Init /\ [][Next]_vars

--------------------------------------------------------------------------------
(* Properties *)

\* "The lead is always also a member", and the flag is on the lead's row and on no
\* other, through every nesting of add, remove, set and move.
LeadIsMember ==
    requirement.is_lead = {requirement.lead_user_id} \ {None}

\* member_count was exact when a person last came or went: since then only agents,
\* whose claims do not count, can have come or gone.
CountCoversUsers ==
    requirement.member_count - Cardinality(Users(requirement)) \in 0..Cardinality(Agent)

\* Every person on a requirement has a role in its space, or had one and lost it
\* since: a move takes nobody along who does not belong there.
MembersWereAdmitted ==
    \A u \in Users(requirement) :
        HasRole(requirement.space, u) \/ u \in expelled[requirement.space]

\* Adding, changing and removing roles leaves a space with an administrator, if
\* nothing else is committed between the check and the COMMIT.
AloneKeepsAdmin ==
    [][\A t \in Tx : t \in Open /\ tx[t].state = "checked" /\ tx[t].alone /\ tx'[t] = None
            => \E u \in User : space_member'[tx[t].space][u] = "admin"]_vars
===============================================================================
