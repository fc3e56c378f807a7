----------------------------- MODULE PeopleProofs -----------------------------
(***************************************************************************)
(* The people of spaces and requirements, for any number of users, agents, *)
(* spaces and transactions.                                                *)
(*                                                                         *)
(* The functions on a requirement nest, so the invariant is one of         *)
(* requirements (Sound), which every function preserves or raises, and of  *)
(* which a change of roles takes nothing away.  Of the transactions on     *)
(* roles it says what the check found as long as nobody else commits.      *)
(***************************************************************************)
EXTENDS People, FiniteSetTheorems, TLAPS

--------------------------------------------------------------------------------
(* What is invariant *)

\* Who may be found on a requirement of a space.
MayBelong(s, u) == HasRole(s, u) \/ u \in expelled[s]

\* A requirement as the functions leave it.
Sound(req) ==
    /\ req \in Requirement
    /\ req.is_lead \subseteq req.member
    /\ req.is_lead = {req.lead_user_id} \ {None}
    /\ req.member_count - Cardinality(Users(req)) \in 0..Cardinality(Agent)
    /\ \A u \in Users(req) : MayBelong(req.space, u)

SoundOrRefused(req) == req = Refused \/ Sound(req)

\* A check that nobody has disturbed holds on.
CheckHolds ==
    \A t \in Tx : tx[t] # None /\ tx[t].state = "checked" /\ tx[t].alone
        => \E u \in User : Seen(t)[u] = "admin"

RolesTyped ==
    /\ space_member \in [Space -> [User -> Role \cup {None}]]
    /\ tx \in [Tx -> TxState \cup {None}]
    /\ expelled \in [Space -> SUBSET User]

IInv ==
    /\ RolesTyped
    /\ Sound(requirement)
    /\ CheckHolds

--------------------------------------------------------------------------------
(* Counting *)

LEMMA FinitePeople ==
    ASSUME NEW S \in SUBSET (User \cup Agent)
    PROVE  /\ IsFiniteSet(S)
           /\ Cardinality(S) \in Nat
           /\ Cardinality(S) \in 0..Cardinality(User \cup Agent)
<1>1. IsFiniteSet(User \cup Agent)
  BY FS_Union, PeopleAssumption DEF PeopleAssumption
<1>2. IsFiniteSet(S) /\ Cardinality(S) <= Cardinality(User \cup Agent)
  BY <1>1, FS_Subset
<1>3. Cardinality(S) \in Nat /\ Cardinality(User \cup Agent) \in Nat
  BY <1>1, <1>2, FS_CardinalityType
<1> QED  BY <1>2, <1>3

\* A count just taken exceeds the number of users by that of the agents.
LEMMA CountTaken ==
    ASSUME NEW S \in SUBSET (User \cup Agent)
    PROVE  Cardinality(S) - Cardinality(S \cap User) \in 0..Cardinality(Agent)
<1> DEFINE U == S \cap User
           A == S \cap Agent
<1>1. /\ IsFiniteSet(U) /\ IsFiniteSet(A) /\ IsFiniteSet(Agent)
      /\ Cardinality(U) \in Nat /\ Cardinality(A) \in Nat /\ Cardinality(Agent) \in Nat
  BY FinitePeople
<1>2. Cardinality(A) <= Cardinality(Agent)
  BY <1>1, FS_Subset
<1>3. U \cap A = {} /\ S = U \cup A
  BY PeopleAssumption DEF PeopleAssumption
<1>4. Cardinality(U \cap A) = 0
  BY <1>3, FS_EmptySet
<1>5. Cardinality(S) = Cardinality(U) + Cardinality(A)
  <2>1. Cardinality(U \cup A) = Cardinality(U) + Cardinality(A) - Cardinality(U \cap A)
    BY <1>1, FS_Union
  <2>2. Cardinality(S) = Cardinality(U \cup A)
    BY <1>3
  <2> HIDE DEF U, A
  <2> QED  BY <1>1, <1>4, <2>1, <2>2
<1>6. Cardinality(S) - Cardinality(U) = Cardinality(A)
  BY <1>1, <1>5
<1>7. Cardinality(A) \in 0..Cardinality(Agent)
  BY <1>1, <1>2
<1> QED  BY <1>6, <1>7

LEMMA RecountSound ==
    ASSUME NEW req \in Requirement,
           req.is_lead \subseteq req.member,
           req.is_lead = {req.lead_user_id} \ {None},
           \A u \in Users(req) : MayBelong(req.space, u)
    PROVE  Sound(Recount(req))
<1> DEFINE new == Recount(req)
<1>1. /\ req.member \in SUBSET (User \cup Agent)
      /\ Cardinality(req.member) \in 0..Cardinality(User \cup Agent)
  BY FinitePeople DEF Requirement
<1>2. /\ new \in Requirement
      /\ new.member_count = Cardinality(req.member)
      /\ new.member = req.member /\ new.space = req.space
      /\ new.is_lead = req.is_lead /\ new.lead_user_id = req.lead_user_id
  BY <1>1 DEF Recount, Requirement
<1>3. Users(new) = req.member \cap User
  BY <1>2 DEF Users
<1>4. new.member_count - Cardinality(Users(new)) \in 0..Cardinality(Agent)
  BY <1>1, <1>2, <1>3, CountTaken
<1> QED  BY <1>2, <1>3, <1>4 DEF Sound, Users

--------------------------------------------------------------------------------
(* The functions *)

\* requirement_member_add refuses those without a role, and adds the others.
LEMMA AddSound ==
    ASSUME NEW req, SoundOrRefused(req), NEW us \in SUBSET User
    PROVE  /\ SoundOrRefused(MemberAdd(req, us))
           /\ MemberAdd(req, us) # Refused => us \subseteq MemberAdd(req, us).member
<1> DEFINE new == [req EXCEPT
               !.member = @ \cup us,
               !.is_lead = @ \cup ({req.lead_user_id} \cap (us \ req.member))]
<1>1. CASE MemberAdd(req, us) = Refused
  BY <1>1 DEF SoundOrRefused
<1>2. CASE req # Refused /\ MemberAdd(req, us) = req /\ us \subseteq req.member
  BY <1>2 DEF SoundOrRefused
<1>3. CASE /\ req # Refused /\ MemberAdd(req, us) = Recount(new)
           /\ \A u \in us : HasRole(req.space, u)
  <2>1. Sound(req)
    BY <1>3 DEF SoundOrRefused
  <2>2. {req.lead_user_id} \cap (us \ req.member) = {}
    BY <2>1, PeopleAssumption DEF Sound, PeopleAssumption
  <2>3. /\ new \in Requirement
        /\ new.member = req.member \cup us /\ new.space = req.space
        /\ new.is_lead = req.is_lead /\ new.lead_user_id = req.lead_user_id
    BY <2>1, <2>2 DEF Sound, Requirement
  <2>4. \A u \in Users(new) : MayBelong(new.space, u)
    BY <1>3, <2>1, <2>3 DEF Sound, Users, MayBelong
  <2>5. Sound(Recount(new))
    BY <2>1, <2>3, <2>4, RecountSound DEF Sound
  <2>6. Recount(new).member = req.member \cup us
    BY <2>3 DEF Recount, Requirement
  <2> QED  BY <1>3, <2>5, <2>6 DEF SoundOrRefused
<1> QED  BY <1>1, <1>2, <1>3 DEF MemberAdd

LEMMA RemoveSound ==
    ASSUME NEW req, Sound(req), NEW us \in SUBSET User
    PROVE  Sound(MemberRemove(req, us))
<1> DEFINE new == [req EXCEPT
               !.member = @ \ us, !.is_lead = @ \ us,
               !.lead_user_id = IF @ \in us THEN None ELSE @]
<1>1. /\ new \in Requirement
      /\ new.member = req.member \ us /\ new.space = req.space
      /\ new.is_lead = req.is_lead \ us
      /\ new.lead_user_id = IF req.lead_user_id \in us THEN None ELSE req.lead_user_id
  BY DEF Sound, Requirement
<1>2. new.is_lead = {new.lead_user_id} \ {None}
  BY <1>1, PeopleAssumption DEF Sound, PeopleAssumption
<1>3. \A u \in Users(new) : MayBelong(new.space, u)
  BY <1>1 DEF Sound, Users
<1>4. Sound(Recount(new))
  BY <1>1, <1>2, <1>3, RecountSound DEF Sound
<1> QED  BY <1>4 DEF MemberRemove

LEMMA LeadSound ==
    ASSUME NEW req, SoundOrRefused(req), NEW u \in User \cup {None}
    PROVE  SoundOrRefused(SetLead(req, u))
<1> DEFINE added == MemberAdd(req, {u} \ {None})
           new == [added EXCEPT !.lead_user_id = u, !.is_lead = {u} \cap added.member]
<1>1. CASE SetLead(req, u) \in {req, Refused}
  BY <1>1 DEF SoundOrRefused
<1>2. CASE added # Refused /\ SetLead(req, u) = new
  <2>1. Sound(added) /\ {u} \ {None} \subseteq added.member
    BY <1>2, AddSound DEF SoundOrRefused
  <2>2. None \notin added.member
    BY <2>1, PeopleAssumption DEF Sound, Requirement, PeopleAssumption
  <2>3. /\ new \in Requirement
        /\ new.member = added.member /\ new.space = added.space
        /\ new.member_count = added.member_count
        /\ new.is_lead = {u} \ {None} /\ new.lead_user_id = u
    BY <2>1, <2>2 DEF Sound, Requirement
  <2> QED  BY <1>2, <2>1, <2>3 DEF SoundOrRefused, Sound, Users
<1>3. SetLead(req, u) \in {req, Refused} \/ (added # Refused /\ SetLead(req, u) = new)
  BY DEF SetLead, NewLead
<1> QED  BY <1>1, <1>2, <1>3

LEMMA SetSound ==
    ASSUME NEW req, Sound(req), NEW us \in SUBSET User, NEW lead \in User \cup {None}
    PROVE  SoundOrRefused(MembersSet(req, us, lead))
<1>1. Sound(MemberRemove(req, Users(req) \ us))
  BY RemoveSound DEF Users
<1>2. SoundOrRefused(MemberAdd(MemberRemove(req, Users(req) \ us), us))
  BY <1>1, AddSound DEF SoundOrRefused
<1> QED  BY <1>2, LeadSound DEF MembersSet

LEMMA MoveSound ==
    ASSUME NEW req, Sound(req), NEW s \in Space
    PROVE  Sound(MoveSpace(req, s))
<1> DEFINE staying == (req.member \cap Agent) \cup {u \in Users(req) : HasRole(s, u)}
           new == [req EXCEPT
               !.space = s, !.member = staying, !.is_lead = @ \cap staying,
               !.lead_user_id = IF @ \in staying THEN @ ELSE None]
<1>1. /\ new \in Requirement
      /\ new.member = staying /\ new.space = s
      /\ new.is_lead = req.is_lead \cap staying
      /\ new.lead_user_id = IF req.lead_user_id \in staying THEN req.lead_user_id ELSE None
  BY DEF Sound, Requirement, Users
<1>2. new.is_lead = {new.lead_user_id} \ {None}
  BY <1>1 DEF Sound
<1>3. \A u \in Users(new) : MayBelong(new.space, u)
  BY <1>1, PeopleAssumption DEF Users, MayBelong, PeopleAssumption
<1>4. Sound(Recount(new))
  BY <1>1, <1>2, <1>3, RecountSound
<1> QED  BY <1>4 DEF MoveSpace

\* A claim or a release of an agent leaves the users alone, and the count.
LEMMA AgentSound ==
    ASSUME NEW req, Sound(req), NEW ms \in SUBSET (User \cup Agent),
           ms \cap User = req.member \cap User
    PROVE  Sound([req EXCEPT !.member = ms])
<1> DEFINE new == [req EXCEPT !.member = ms]
<1>1. /\ new \in Requirement
      /\ new.member = ms /\ new.space = req.space
      /\ new.member_count = req.member_count
      /\ new.is_lead = req.is_lead /\ new.lead_user_id = req.lead_user_id
  BY DEF Sound, Requirement
<1>2. Users(new) = Users(req)
  BY <1>1 DEF Users
<1>3. new.is_lead \subseteq new.member
  BY <1>1 DEF Sound, Requirement
<1> QED  BY <1>1, <1>2, <1>3 DEF Sound

--------------------------------------------------------------------------------
(* The steps *)

LEMMA InitSound ==
    ASSUME Init
    PROVE  IInv
<1>1. PICK s \in Space : \E us \in SUBSET {u \in User : HasRole(s, u)} :
          \E lead \in us \cup {None} :
              requirement = [ space |-> s, lead_user_id |-> lead, member |-> us,
                              member_count |-> Cardinality(us), is_lead |-> {lead} \cap us ]
  BY DEF Init
<1>2. PICK us \in SUBSET {u \in User : HasRole(s, u)} : \E lead \in us \cup {None} :
          requirement = [ space |-> s, lead_user_id |-> lead, member |-> us,
                          member_count |-> Cardinality(us), is_lead |-> {lead} \cap us ]
  BY <1>1
<1>3. PICK lead \in us \cup {None} :
          requirement = [ space |-> s, lead_user_id |-> lead, member |-> us,
                          member_count |-> Cardinality(us), is_lead |-> {lead} \cap us ]
  BY <1>2
<1>4. Cardinality(us) \in 0..Cardinality(User \cup Agent)
  BY FinitePeople
<1>5. requirement \in Requirement
  BY <1>3, <1>4 DEF Requirement
<1>6. requirement.is_lead = {requirement.lead_user_id} \ {None}
  BY <1>3, PeopleAssumption DEF PeopleAssumption
<1>7. \A u \in Users(requirement) : MayBelong(requirement.space, u)
  BY <1>3 DEF Users, MayBelong
<1>8. requirement.member_count - Cardinality(Users(requirement)) \in 0..Cardinality(Agent)
  <2>1. Users(requirement) = us \cap User
    BY <1>3 DEF Users
  <2> QED  BY <1>3, <2>1, CountTaken
<1>9. Sound(requirement)
  BY <1>3, <1>5, <1>6, <1>7, <1>8 DEF Sound
<1>10. RolesTyped /\ CheckHolds
  BY DEF Init, RolesTyped, CheckHolds
<1> QED  BY <1>9, <1>10 DEF IInv

LEMMA CommitSound ==
    ASSUME Sound(requirement), NEW req, SoundOrRefused(req), Commit(req)
    PROVE  Sound(requirement)'
<1>1. Sound(requirement')
  BY DEF Commit, SoundOrRefused
<1> QED  BY <1>1 DEF Commit, Sound, MayBelong, HasRole, Users

\* A request on the requirement commits what a function made of it.
LEMMA MembersStep ==
    ASSUME IInv, Members
    PROVE  Sound(requirement)' /\ UNCHANGED <<space_member, tx, expelled>>
<1> DEFINE Fits(req) == SoundOrRefused(req) /\ Commit(req)
<1>1. Sound(requirement) /\ SoundOrRefused(requirement)
  BY DEF IInv, SoundOrRefused
<1>2. ASSUME NEW u \in User, NEW lead \in BOOLEAN, AddRequirementMember(u, lead)
      PROVE  \E req : Fits(req)
  <2> DEFINE added == MemberAdd(requirement, {u})
  <2>1. SoundOrRefused(added)
    BY <1>1, AddSound
  <2>2. SoundOrRefused(SetLead(added, u))
    BY <2>1, LeadSound
  <2>3. Commit(added) \/ Commit(SetLead(added, u))
    BY <1>2 DEF AddRequirementMember, Commit
  <2> QED  BY <2>1, <2>2, <2>3
<1>3. ASSUME NEW u \in User, RemoveRequirementMember(u)
      PROVE  \E req : Fits(req)
  BY <1>1, <1>3, RemoveSound DEF RemoveRequirementMember, SoundOrRefused
<1>4. ASSUME NEW lead \in User \cup {None}, SetRequirementLead(lead)
      PROVE  \E req : Fits(req)
  BY <1>1, <1>4, LeadSound DEF SetRequirementLead
<1>5. ASSUME NEW lead \in User \cup {None}, NEW us \in SUBSET User,
             SetRequirementMembers(us, lead)
      PROVE  \E req : Fits(req)
  BY <1>1, <1>5, SetSound DEF SetRequirementMembers
<1>6. ASSUME NEW s \in Space, MoveRequirementToSpace(s)
      PROVE  \E req : Fits(req)
  BY <1>1, <1>6, MoveSound DEF MoveRequirementToSpace, SoundOrRefused
<1>7. ASSUME NEW a \in Agent, AgentJoins(a) \/ AgentLeaves(a)
      PROVE  \E req : Fits(req)
  <2>1. PICK ms \in {requirement.member \cup {a}, requirement.member \ {a}} :
            Commit([requirement EXCEPT !.member = ms])
    BY <1>7 DEF AgentJoins, AgentLeaves
  <2>2. ms \in SUBSET (User \cup Agent) /\ ms \cap User = requirement.member \cap User
    BY <1>1, PeopleAssumption DEF Sound, Requirement, PeopleAssumption
  <2> QED  BY <1>1, <2>1, <2>2, AgentSound DEF SoundOrRefused
<1>8. PICK req : Fits(req)
  BY <1>2, <1>3, <1>4, <1>5, <1>6, <1>7 DEF Members
<1> QED  BY <1>1, <1>8, CommitSound DEF Commit

LEMMA WriteStep ==
    ASSUME IInv, NEW t \in Tx, NEW s \in Space, NEW u \in User,
           NEW role \in Role \cup {None}, WriteRole(t, s, u, role)
    PROVE  IInv'
<1> DEFINE new == [ space |-> s, user |-> u, role |-> role,
                    state |-> "written", alone |-> FALSE ]
<1>1. new \in TxState
  BY DEF TxState
<1>2. tx' = [tx EXCEPT ![t] = new] /\ UNCHANGED <<space_member, requirement, expelled>>
  BY DEF WriteRole
<1>3. RolesTyped'
  BY <1>1, <1>2 DEF IInv, RolesTyped
<1>4. Sound(requirement)'
  BY <1>2 DEF IInv, Sound, MayBelong, HasRole, Users
<1>5. CheckHolds'
  BY <1>2 DEF IInv, RolesTyped, CheckHolds, Seen
<1> QED  BY <1>3, <1>4, <1>5 DEF IInv

LEMMA CheckStep ==
    ASSUME IInv, NEW t \in Tx, CheckAdmin(t)
    PROVE  IInv'
<1>1. tx[t] \in TxState
  BY DEF CheckAdmin, Open, IInv, RolesTyped
<1>2. UNCHANGED <<space_member, requirement, expelled>>
  BY DEF CheckAdmin
<1>3. RolesTyped'
  BY <1>1, <1>2 DEF CheckAdmin, IInv, RolesTyped, TxState
<1>4. Sound(requirement)'
  BY <1>2 DEF IInv, Sound, MayBelong, HasRole, Users
<1>5. ASSUME NEW o \in Tx, tx'[o] # None, tx'[o].state = "checked", tx'[o].alone
      PROVE  \E u \in User : Seen(o)'[u] = "admin"
  <2>1. CASE o # t
    BY <1>2, <1>5, <2>1 DEF CheckAdmin, IInv, RolesTyped, CheckHolds, Seen
  <2>2. CASE o = t
    <3>1. HasAdmin(t) /\ tx' = [tx EXCEPT ![t].state = "checked", ![t].alone = TRUE]
      BY <1>5, <2>2 DEF CheckAdmin, IInv, RolesTyped
    <3>2. /\ tx'[t].space = tx[t].space /\ tx'[t].user = tx[t].user
          /\ tx'[t].role = tx[t].role
      BY <1>1, <3>1 DEF IInv, RolesTyped, TxState
    <3> QED  BY <1>2, <2>2, <3>1, <3>2 DEF HasAdmin, Seen
  <2> QED  BY <2>1, <2>2
<1> QED  BY <1>3, <1>4, <1>5 DEF IInv, CheckHolds

\* What a commit does to the other transactions.
LEMMA CommitOthers ==
    ASSUME IInv, NEW t \in Tx, CommitRole(t), NEW o \in Tx
    PROVE  /\ tx'[o] \in TxState \cup {None}
           /\ o = t => tx'[o] = None
           /\ o # t /\ tx[o] # None =>
                 /\ tx'[o] # None
                 /\ tx[o].space = tx[t].space => ~tx'[o].alone
                 /\ tx[o].space # tx[t].space => tx'[o] = tx[o]
           /\ o # t /\ tx[o] = None => tx'[o] = None
<1>1. tx[o] \in TxState \cup {None}
  BY DEF IInv, RolesTyped
<1>2. tx'[o] = CASE o = t -> None
                 [] o \in Open \ {t} /\ tx[o].space = tx[t].space -> [tx[o] EXCEPT !.alone = FALSE]
                 [] OTHER -> tx[o]
  BY DEF CommitRole
<1>3. CASE o = t
  BY <1>2, <1>3 DEF Open
<1>4. CASE o # t /\ tx[o] = None
  BY <1>2, <1>4 DEF Open
<1>5. CASE o # t /\ tx[o] # None /\ tx[o].space = tx[t].space
  <2>1. tx'[o] = [tx[o] EXCEPT !.alone = FALSE]
    BY <1>2, <1>5 DEF Open
  <2> QED  BY <1>1, <1>5, <2>1, NoneAssumption DEF NoneAssumption, TxState
<1>6. CASE o # t /\ tx[o] # None /\ tx[o].space # tx[t].space
  BY <1>1, <1>2, <1>6 DEF Open
<1> QED  BY <1>3, <1>4, <1>5, <1>6

LEMMA CommitStep ==
    ASSUME IInv, NEW t \in Tx, CommitRole(t)
    PROVE  IInv'
<1> DEFINE s == tx[t].space
           w == tx[t].user
           role == tx[t].role
<1>1. tx[t] \in TxState /\ s \in Space /\ w \in User /\ role \in Role \cup {None}
  BY DEF CommitRole, Open, IInv, RolesTyped, TxState
<1>2. Seen(t) = [space_member[s] EXCEPT ![w] = role]
  BY DEF Seen
<1>3. /\ space_member' = [space_member EXCEPT ![s] = Seen(t)]
      /\ expelled' = [expelled EXCEPT ![s] = IF role = None THEN @ \cup {w} ELSE @ \ {w}]
      /\ requirement' = requirement
      /\ DOMAIN tx' = Tx /\ tx' = [o \in Tx |-> tx'[o]]
  BY DEF CommitRole
<1>4. RolesTyped'
  <2>1. space_member' \in [Space -> [User -> Role \cup {None}]]
    BY <1>1, <1>2, <1>3 DEF IInv, RolesTyped
  <2>2. expelled' \in [Space -> SUBSET User]
    BY <1>1, <1>3 DEF IInv, RolesTyped
  <2>3. tx' \in [Tx -> TxState \cup {None}]
    BY <1>3, CommitOthers
  <2> QED  BY <2>1, <2>2, <2>3 DEF RolesTyped
<1>5. ASSUME NEW x \in Space, NEW u \in User, MayBelong(x, u)
      PROVE  MayBelong(x, u)'
  <2>1. CASE x = s /\ u = w
    BY <1>1, <1>2, <1>3, <2>1 DEF IInv, RolesTyped, MayBelong, HasRole
  <2>2. CASE ~(x = s /\ u = w)
    <3>1. /\ space_member'[x][u] = space_member[x][u]
          /\ u \in expelled[x] => u \in expelled'[x]
      BY <1>1, <1>2, <1>3, <2>2 DEF IInv, RolesTyped
    <3> QED  BY <1>5, <3>1 DEF MayBelong, HasRole
  <2> QED  BY <2>1, <2>2
<1>6. Sound(requirement)'
  BY <1>3, <1>5 DEF IInv, Sound, Requirement, Users
<1>7. ASSUME NEW o \in Tx, tx'[o] # None, tx'[o].state = "checked", tx'[o].alone
      PROVE  \E u \in User : Seen(o)'[u] = "admin"
  <2>1. tx[o] \in TxState /\ tx[o].space # s /\ tx'[o] = tx[o] /\ tx[o] # None
    BY <1>7, CommitOthers DEF IInv, RolesTyped
  <2>2. space_member'[tx[o].space] = space_member[tx[o].space]
    BY <1>3, <2>1 DEF IInv, RolesTyped, TxState
  <2>3. Seen(o)' = Seen(o)
    BY <2>1, <2>2 DEF Seen
  <2> QED  BY <1>7, <2>1, <2>3 DEF IInv, CheckHolds
<1> QED  BY <1>4, <1>6, <1>7 DEF IInv, CheckHolds

LEMMA NextInv ==
    ASSUME IInv, [Next]_vars
    PROVE  IInv'
<1>1. CASE Members
  BY <1>1, MembersStep DEF IInv, RolesTyped, CheckHolds, Seen
<1>2. CASE Roles
  BY <1>2, WriteStep, CheckStep, CommitStep DEF Roles
<1>3. CASE UNCHANGED vars
  BY <1>3 DEF vars, IInv, RolesTyped, CheckHolds, Seen, Sound, MayBelong, HasRole, Users
<1> QED  BY <1>1, <1>2, <1>3 DEF Next

--------------------------------------------------------------------------------
(* Theorems *)

THEOREM Invariance == Spec => []IInv
<1>1. Init => IInv
  BY InitSound
<1>2. IInv /\ [Next]_vars => IInv'
  BY NextInv
<1> QED  BY <1>1, <1>2, PTL DEF Spec

\* The lead is a member, the flag is on that row and on no other, and the tables
\* keep their types, the unique index on the flag included.
THEOREM TypeCorrect == Spec => []TypeOK
<1>1. IInv => TypeOK
  <2> SUFFICES ASSUME IInv PROVE TypeOK
    OBVIOUS
  <2>1. requirement.is_lead = {requirement.lead_user_id}
            \/ requirement.is_lead = {}
    BY DEF IInv, Sound
  <2>2. Cardinality(requirement.is_lead) <= 1
    <3>1. CASE requirement.is_lead = {}
      BY <3>1, FS_EmptySet
    <3>2. CASE requirement.is_lead = {requirement.lead_user_id}
      <4>1. Cardinality(requirement.is_lead) = 1
        BY <3>2, FS_Singleton
      <4> QED  BY <4>1
    <3> QED  BY <2>1, <3>1, <3>2
  <2> QED  BY <2>2 DEF IInv, RolesTyped, Sound, TypeOK
<1> QED  BY <1>1, Invariance, PTL

\* Add, remove, set, lead and move, however they nest, leave the lead a member.
THEOREM LeadStaysMember == Spec => []LeadIsMember
<1>1. IInv => LeadIsMember
  BY DEF IInv, Sound, LeadIsMember
<1> QED  BY <1>1, Invariance, PTL

\* member_count differs from the number of people by claims at most.
THEOREM CountStaysRight == Spec => []CountCoversUsers
<1>1. IInv => CountCoversUsers
  BY DEF IInv, Sound, CountCoversUsers
<1> QED  BY <1>1, Invariance, PTL

\* Nobody is on a requirement who never had a role in its space.
THEOREM OnlyAdmitted == Spec => []MembersWereAdmitted
<1>1. IInv => MembersWereAdmitted
  BY DEF IInv, Sound, MembersWereAdmitted, MayBelong
<1> QED  BY <1>1, Invariance, PTL

\* ensureSpaceHasAdmin is right when nothing is committed between it and its COMMIT.
THEOREM UndisturbedCheckHolds == Spec => AloneKeepsAdmin
<1> DEFINE Ends(t) == /\ t \in Open /\ tx[t].state = "checked" /\ tx[t].alone
                      /\ tx'[t] = None
           Kept(t) == \E u \in User : space_member'[tx[t].space][u] = "admin"
<1>1. ASSUME IInv, [Next]_vars, NEW t \in Tx, Ends(t)
      PROVE  Kept(t)
  <2>1. tx[t] \in TxState /\ tx[t] # None /\ tx' # tx
    BY <1>1 DEF Open, IInv, RolesTyped
  <2>2. ASSUME NEW o \in Tx, CommitRole(o)
        PROVE  Kept(t)
    <3>1. o = t
      BY <1>1, <2>1, <2>2, CommitOthers
    <3>2. space_member'[tx[t].space] = Seen(t)
      BY <1>1, <2>1, <2>2, <3>1 DEF CommitRole, IInv, RolesTyped, TxState
    <3> QED  BY <1>1, <2>1, <3>2 DEF IInv, CheckHolds
  <2>3. ASSUME NEW o \in Tx, CheckAdmin(o)
        PROVE  FALSE
    BY <1>1, <2>1, <2>3 DEF CheckAdmin, IInv, RolesTyped
  <2>4. ASSUME NEW o \in Tx, NEW s \in Space, NEW u \in User, NEW role \in Role \cup {None},
               WriteRole(o, s, u, role)
        PROVE  FALSE
    BY <1>1, <2>1, <2>4 DEF WriteRole, IInv, RolesTyped
  <2>5. ~Members
    BY <1>1, <2>1, MembersStep
  <2> QED  BY <1>1, <2>1, <2>2, <2>3, <2>4, <2>5 DEF Next, Roles, vars
<1>2. IInv /\ [Next]_vars =>
          [\A t \in Tx : t \in Open /\ tx[t].state = "checked" /\ tx[t].alone /\ tx'[t] = None
               => \E u \in User : space_member'[tx[t].space][u] = "admin"]_vars
  BY <1>1
<1> QED  BY <1>2, Invariance, PTL DEF Spec, AloneKeepsAdmin
===============================================================================
