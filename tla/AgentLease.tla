------------------------------ MODULE AgentLease -------------------------------
(***************************************************************************)
(* What the claim functions promise, with none of their tables: every      *)
(* requirement is a lock with a deadline.  A holder loses it to another    *)
(* only past the deadline, deadlines move only under the same holder, and  *)
(* a lapsed lock does not stay taken.  AgentClaims implements this.        *)
(***************************************************************************)
EXTENDS Integers

CONSTANTS Req, Agent, None, MaxNow

VARIABLES now, holder, deadline

vars == <<now, holder, deadline>>

Init ==
    /\ now = 0
    /\ holder = [r \in Req |-> None]
    /\ deadline = [r \in Req |-> None]

Tick ==
    /\ now < MaxNow
    /\ now' = now + 1
    /\ UNCHANGED <<holder, deadline>>

\* r gets a deadline, any; the others keep theirs.
SetDeadline(r) ==
    /\ deadline' \in [Req -> Nat \cup {None}]
    /\ deadline'[r] # None
    /\ \A q \in Req \ {r} : deadline'[q] = deadline[q]

\* r is given to a, being free or past its deadline.
Acquire(r, a) ==
    /\ holder[r] # None => deadline[r] <= now
    /\ holder' = [holder EXCEPT ![r] = a]
    /\ SetDeadline(r)
    /\ UNCHANGED now

\* The holder of r gets a new deadline, sooner or later than the old one.
Extend(r) ==
    /\ holder[r] # None
    /\ SetDeadline(r)
    /\ UNCHANGED <<now, holder>>

\* One or more holders give up, or are released by a user or the worker.
Free(S) ==
    /\ \A r \in S : holder[r] # None
    /\ holder' = [r \in Req |-> IF r \in S THEN None ELSE holder[r]]
    /\ deadline' = [r \in Req |-> IF r \in S THEN None ELSE deadline[r]]
    /\ UNCHANGED now

Next ==
    \/ Tick
    \/ \E r \in Req, a \in Agent : Acquire(r, a)
    \/ \E r \in Req : Extend(r)
    \/ \E S \in SUBSET Req : Free(S)

Spec == Init /\ [][Next]_vars

Lapsed(r) == deadline[r] # None /\ deadline[r] < now

\* Some lapsed lock that stays lapsed is freed.
FairSpec ==
    Spec /\ \A r \in Req : WF_vars(Lapsed(r) /\ \E S \in SUBSET Req : r \in S /\ Free(S))
===============================================================================
