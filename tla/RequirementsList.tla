--------------------------- MODULE RequirementsList ---------------------------
(***************************************************************************)
(* The list of requirements of a space and its bulk changes:               *)
(* web/src/pages/RequirementsList.tsx with the bulk handler of             *)
(* internal/handlers/requirements.go.                                      *)
(*                                                                         *)
(* The page shows one page of the rows that match the filter.  Marks are   *)
(* kept in the order they were made, across pages and filters.  A bulk     *)
(* change sends the marked rows; the handler changes them one by one, in   *)
(* that order, in one transaction that keeps the lock of each row until it *)
(* ends.  Other bulk changes (of other pages) and changes of single rows   *)
(* take the same locks.                                                    *)
(***************************************************************************)
EXTENDS Naturals, FiniteSets, Functions, Sequences

CONSTANTS
    Req,
    PageSize,
    Mine,      \* the bulk change of this page
    Other,     \* those of other pages
    None

ASSUME ListAssumption ==
    IsFiniteSet(Req) /\ PageSize \in Nat \ {0} /\ Mine \notin Other

Bulk == {Mine} \cup Other

VARIABLES
    order,     \* the rows of the space, last updated first; a row may leave
    closed,    \* those of them whose status is closed
    tx,        \* the bulk changes
    openOnly,  \* the filter: only open rows (the default), or all
    offset,
    listed,    \* what the page last loaded
    selected   \* the marked rows, in the order they were marked

listVars == <<order, closed, tx, openOnly, offset, listed, selected>>

Sets(seq) == {seq[i] : i \in DOMAIN seq}
Lists == { seq \in UNION { [1..n -> Req] : n \in 0..Cardinality(Req) } : IsInjective(seq) }

\* The rows of seq that are in S, in their order: a set of one list.
Only(seq, S) ==
    { sub \in Lists :
        /\ Sets(sub) = Sets(seq) \cap S
        /\ \A i, j \in DOMAIN sub : i < j =>
            \E k, l \in DOMAIN seq : k < l /\ seq[k] = sub[i] /\ seq[l] = sub[j] }

BulkState ==
    [ ids   : Lists \ {<<>>},
      at    : 1..(Cardinality(Req) + 1),    \* the next of ids
      wrote : SUBSET Req,                   \* changed so far, and locked
      phase : {"sent", "running", "committed", "refused"} ]

ASSUME NoneAssumption == None \notin BulkState

ListTypeOK ==
    /\ order \in Lists
    /\ closed \subseteq Req
    /\ tx \in [Bulk -> BulkState \cup {None}]
    /\ openOnly \in BOOLEAN
    /\ offset \in Nat
    /\ listed \in [items : Lists, total : Nat]
    /\ selected \in Lists

--------------------------------------------------------------------------------
(* The query *)

Matching == { r \in Req : openOnly => r \notin closed }

\* LIMIT PageSize OFFSET offset, and the total
ListRequirements ==
    { [ items |-> SubSeq(all, offset + 1,
                         IF offset + PageSize < Len(all) THEN offset + PageSize
                         ELSE Len(all)),
        total |-> Len(all) ] : all \in Only(order, Matching) }

ListInit ==
    /\ order \in { seq \in Lists : Sets(seq) = Req }
    /\ closed \in SUBSET Req
    /\ tx = [b \in Bulk |-> None]
    /\ openOnly = TRUE
    /\ offset = 0
    /\ selected = <<>>
    /\ listed \in ListRequirements

\* The page loads: on a change of the parameters, and whenever the query is invalidated.
\* Until then the rows before stay on the screen (placeholderData).
Load ==
    /\ listed' \in ListRequirements
    /\ UNCHANGED <<order, closed, tx, openOnly, offset, selected>>

--------------------------------------------------------------------------------
(* The address of the page *)

SetParams(filter, at) ==
    /\ openOnly' = filter
    /\ offset' = at
    /\ UNCHANGED <<order, closed, tx, listed, selected>>

\* A filter, a saved view (a filter with a name), "Limpiar": back to the first page.
SetFilter == \E filter \in BOOLEAN : filter # openOnly /\ SetParams(filter, 0)

\* The pager is there when there is more than a page.
NextPage ==
    /\ listed.total > PageSize
    /\ offset + PageSize < listed.total
    /\ SetParams(openOnly, offset + PageSize)

PreviousPage ==
    /\ listed.total > PageSize
    /\ offset # 0
    /\ SetParams(openOnly, IF offset < PageSize THEN 0 ELSE offset - PageSize)

--------------------------------------------------------------------------------
(* Marks *)

Mark(marks) ==
    /\ selected' = marks
    /\ UNCHANGED <<order, closed, tx, openOnly, offset, listed>>

Toggle ==
    \E r \in Sets(listed.items) :
        \E marks \in IF r \in Sets(selected) THEN Only(selected, Req \ {r})
                     ELSE {Append(selected, r)} : Mark(marks)

\* "Seleccionar todos" forgets the marks on other pages.
SelectAll ==
    /\ listed.items # <<>>
    /\ Mark(IF Sets(listed.items) \subseteq Sets(selected) THEN <<>> ELSE listed.items)

CancelMarks == selected # <<>> /\ Mark(<<>>)

--------------------------------------------------------------------------------
(* Bulk changes.  A change closes the rows, as one of status does, or leaves them open. *)

SendBulk(b, ids) ==
    /\ tx[b] = None
    /\ tx' = [tx EXCEPT ![b] = [ids |-> ids, at |-> 1, wrote |-> {}, phase |-> "sent"]]
    /\ UNCHANGED <<order, closed, openOnly, offset, listed, selected>>

RunBulk == selected # <<>> /\ SendBulk(Mine, selected)

\* Other pages mark rows in any order.
OthersBulk(b) == \E ids \in Lists \ {<<>>} : Len(ids) > 1 /\ SendBulk(b, ids)

Running(b) == tx[b] # None /\ tx[b].phase = "running"

Locked(b) == IF Running(b) THEN tx[b].wrote ELSE {}

LockedByOthers(b) == UNION { Locked(other) : other \in Bulk \ {b} }

Unfinished(b) == Running(b) /\ tx[b].at \in DOMAIN tx[b].ids

NextRow(b) == tx[b].ids[tx[b].at]

\* SELECT count(*): all of them are of this space, or it is a 404.
BeginBulk(b) ==
    /\ tx[b] # None
    /\ tx[b].phase = "sent"
    /\ tx' = [tx EXCEPT ![b].phase =
                    IF Sets(tx[b].ids) \subseteq Sets(order) THEN "running" ELSE "refused"]
    /\ UNCHANGED <<order, closed, openOnly, offset, listed, selected>>

\* Mutant: a row that cannot be changed is passed over.
AfterFailure_GoOn(b) == [tx[b] EXCEPT !.at = @ + 1]

\* Mutant: the transaction is left open.
AfterFailure_Open(b) == tx[b]

\* The first error ends the transaction, and its locks.
AfterFailure(b) == [tx[b] EXCEPT !.wrote = {}, !.phase = "refused"]

\* requirement_patch, requirement_transition, ... of the next row, once its lock is free
ChangeNext(b) ==
    /\ Unfinished(b)
    /\ NextRow(b) \notin LockedByOthers(b)
    /\ tx' = [tx EXCEPT ![b].wrote = @ \cup {NextRow(b)}, ![b].at = @ + 1]
    /\ UNCHANGED <<order, closed, openOnly, offset, listed, selected>>

\* ... which may raise: a transition that is not allowed, a row that left.
ChangeFails(b) ==
    /\ Unfinished(b)
    /\ NextRow(b) \notin LockedByOthers(b)
    /\ tx' = [tx EXCEPT ![b] = AfterFailure(b)]
    /\ UNCHANGED <<order, closed, openOnly, offset, listed, selected>>

\* b waits for a row that another holds.
WaitsFor(b) == { other \in Bulk \ {b} : Unfinished(b) /\ NextRow(b) \in Locked(other) }

\* PostgreSQL finds the cycle and raises in one of the transactions.
Deadlock(b) ==
    /\ \E other \in WaitsFor(b) : b \in WaitsFor(other)
    /\ tx' = [tx EXCEPT ![b] = AfterFailure(b)]
    /\ UNCHANGED <<order, closed, openOnly, offset, listed, selected>>

\* COMMIT: the rows are updated, and so come first in the list.
CommitBulk(b) ==
    /\ Running(b)
    /\ ~Unfinished(b)
    /\ closed' \in {closed, closed \cup (tx[b].wrote \cap Sets(order))}
    /\ \E written \in Only(tx[b].ids, tx[b].wrote \cap Sets(order)),
          others \in Only(order, Req \ tx[b].wrote) : order' = written \o others
    /\ tx' = [tx EXCEPT ![b].phase = "committed"]
    /\ UNCHANGED <<openOnly, offset, listed, selected>>

\* The answer: success clears the marks, also those made since.
BulkAnswered(b) ==
    /\ tx[b] # None
    /\ tx[b].phase \in {"committed", "refused"}
    /\ tx' = [tx EXCEPT ![b] = None]
    /\ selected' = IF b = Mine /\ tx[b].phase = "committed" THEN <<>> ELSE selected
    /\ UNCHANGED <<order, closed, openOnly, offset, listed>>

\* Someone reopens a row, archives it or moves it to another space.
OthersChange(r) ==
    /\ r \in Sets(order)
    /\ \A b \in Bulk : r \notin Locked(b)
    /\ closed' = closed \ {r}
    /\ \E others \in Only(order, Req \ {r}) : order' \in {<<r>> \o others, others}
    /\ UNCHANGED <<tx, openOnly, offset, listed, selected>>

--------------------------------------------------------------------------------

Server(b) ==
    \/ BeginBulk(b) \/ ChangeNext(b) \/ ChangeFails(b) \/ Deadlock(b)
    \/ CommitBulk(b) \/ BulkAnswered(b)

ListNext ==
    \/ Load \/ SetFilter \/ NextPage \/ PreviousPage
    \/ Toggle \/ SelectAll \/ CancelMarks \/ RunBulk
    \/ \E b \in Bulk : Server(b)
    \/ \E b \in Other : OthersBulk(b)
    \/ \E r \in Req : OthersChange(r)

ListSpec == ListInit /\ [][ListNext]_listVars

\* The server works on the requests it has and the database on its deadlocks; who waits for
\* a row stands in its queue, and so gets it although others ask for it again and again.
FairListSpec ==
    /\ ListSpec
    /\ SF_listVars(Server(Mine))
    /\ \A b \in Other : WF_listVars(Server(b))

--------------------------------------------------------------------------------
(* Properties *)

\* "aplicado a N requerimientos": a bulk change that succeeded changed every row it was
\* sent for, in whatever order the rows were locked and whoever else held them; one that
\* failed changed none.
BulkIsAllOrNothing ==
    \A b \in Bulk :
        tx[b] # None =>
            CASE tx[b].phase = "committed" -> tx[b].wrote = Sets(tx[b].ids)
              [] tx[b].phase = "refused"   -> tx[b].wrote = {}
              [] OTHER                     -> TRUE

\* The bulk change of the page is answered: the rows another one holds are released, or
\* the two wait for each other and one of them fails.
BulkEnds == tx[Mine] # None ~> tx[Mine] = None
================================================================================
