--------------------------- MODULE RequirementBoard ---------------------------
(***************************************************************************)
(* The board: moving a card between its neighbours, in its column or into  *)
(* another (web/src/pages/Board.tsx, requirement_move, requirement_reorder *)
(* and requirement_transition).                                            *)
(*                                                                         *)
(* A request is computed from the column the user sees and served later in *)
(* a transaction of several statements.  READ COMMITTED lets each of them  *)
(* see what others have committed; only the card moved is locked from the  *)
(* start, its neighbours never are, and a rebalance locks the cards of the *)
(* column one by one after it has ranked them.  So reads, ranking, writes  *)
(* and commit are separate steps, and writes stay private until commit.    *)
(*                                                                         *)
(* Positions are numerics with ten decimals; here an integer counts units  *)
(* of 10^-10, Step is 1000 and MinGap 10^-6.                               *)
(***************************************************************************)
EXTENDS Integers, FiniteSets, Workflow

CONSTANTS
    Req,          \* requirements of one space
    CreatedAt,    \* their creation times
    Session,      \* concurrent requests
    Step,         \* distance of a card from the one it is put above or below
    MinGap,       \* neighbours closer than this have the column renumbered
    InitPosition, \* the positions the cards start from
    MaxDrops,     \* bound on the requests of a behaviour
    None          \* SQL NULL

ASSUME BoardAssumption ==
    /\ CreatedAt \in [Req -> Nat]
    /\ \A q, r \in Req : CreatedAt[q] = CreatedAt[r] => q = r
    /\ IsFiniteSet(Req)
    /\ MinGap \in Nat /\ MinGap >= 2
    /\ Step \in Nat /\ Step >= MinGap
    /\ InitPosition \in [Req -> Int]
    /\ MaxDrops \in Nat
    /\ None \notin Req \cup Session \cup Status \cup Int

VARIABLES
    requirement,  \* the committed rows
    row_lock,     \* the transaction that holds each row, or None
    tx,           \* the request each session is serving
    drops         \* requests sent so far

vars == <<requirement, row_lock, tx, drops>>

Row == [ status_id : Status \cup {None}, board_position : Int, closed_at : BOOLEAN ]

ASSUME NoneAssumption == None \notin Row

\* Not yet created, and created last of all that exist.
Exists(r) == requirement[r].status_id # None

Idle == [ pc |-> "idle" ]

\* `above` and `alone` record, for the properties only, the cards the user put
\* this one under, and that nothing has been committed since.
Tx == [ pc : {"sent", "before", "after", "place", "renumber", "commit"},
        req : Req, to : Status \cup {None},
        before : Req \cup {None}, after : Req \cup {None},
        pass : {1, 2}, before_pos : Int \cup {None}, after_pos : Int \cup {None},
        ranked : [Req -> Nat \cup {None}],   \* numbers still to be written
        writes : [Req -> Row \cup {None}],   \* rows written, not yet committed
        above : SUBSET Req, alone : BOOLEAN ]

TypeOK ==
    /\ requirement \in [Req -> Row]
    /\ row_lock \in [Req -> Session \cup {None}]
    /\ tx \in [Session -> Tx \cup {Idle}]
    /\ drops \in 0..MaxDrops

--------------------------------------------------------------------------------
(* What a transaction sees, and the order of a column *)

\* A row as the transaction of s sees it: its own writes, else what is committed.
Seen(s, r) ==
    IF tx[s].writes[r] # None THEN tx[s].writes[r] ELSE requirement[r]

\* ORDER BY board_position, created_at
Above(rows, q, r) ==
    \/ rows[q].board_position < rows[r].board_position
    \/ rows[q].board_position = rows[r].board_position /\ CreatedAt[q] < CreatedAt[r]

Column(rows, status) == { r \in Req : rows[r].status_id = status }

\* row_number() OVER (ORDER BY board_position, created_at)
RowNumber(rows, status, r) ==
    Cardinality({ q \in Column(rows, status) : Above(rows, q, r) }) + 1

\* Mutant: the missing maximum of an empty column is not replaced.
BottomPosition_Null(rows, status, exclude) ==
    LET others == Column(rows, status) \ {exclude} IN
    IF others = {} THEN None
    ELSE (CHOOSE p \in { rows[q].board_position : q \in others } :
            \A q \in others : rows[q].board_position <= p) + Step

\* requirement_bottom_position: below every card of the column but the moved one.
BottomPosition(rows, status, exclude) ==
    LET others == Column(rows, status) \ {exclude} IN
    IF others = {} THEN Step
    ELSE (CHOOSE p \in { rows[q].board_position : q \in others } :
            \A q \in others : rows[q].board_position <= p) + Step

\* round((a + b) / 2, 10): half a unit is rounded away from zero.
Midpoint(a, b) ==
    IF a + b >= 0 THEN (a + b + 1) \div 2 ELSE -((1 - a - b) \div 2)

--------------------------------------------------------------------------------
(* The browser *)

\* neighbours(): the card above and the card below the place of the moved one;
\* `above` are the cards of the column shown over it.
Neighbours(rows, others, above) ==
    [ before |-> IF above = {} THEN None
                 ELSE CHOOSE b \in above : \A q \in above \ {b} : Above(rows, q, b),
      after  |-> IF others = above THEN None
                 ELSE CHOOSE a \in others \ above :
                        \A q \in (others \ above) \ {a} : Above(rows, a, q) ]

Nothing == [r \in Req |-> None]

Request(s, r, to, before, after, above) ==
    tx' = [tx EXCEPT ![s] =
        [ pc |-> "sent", req |-> r, to |-> to, before |-> before, after |-> after,
          pass |-> 1, before_pos |-> None, after_pos |-> None,
          ranked |-> Nothing, writes |-> Nothing, above |-> above, alone |-> TRUE ]]

\* onDragEnd: the user drops r in column `to` under the cards `above`.  Nothing is
\* sent when the card is dropped where it was.
Drop(s, r, to, above) ==
    LET others == Column(requirement, to) \ {r}
        n == Neighbours(requirement, others, above)
    IN  /\ tx[s] = Idle
        /\ drops < MaxDrops
        /\ Exists(r)
        /\ above \subseteq others
        /\ \A q \in above, t \in others \ above : Above(requirement, q, t)
        /\ requirement[r].status_id = to =>
                above # { q \in others : Above(requirement, q, r) }
        /\ Request(s, r, IF requirement[r].status_id = to THEN None ELSE to,
                   n.before, n.after, above)
        /\ drops' = drops + 1
        /\ UNCHANGED <<requirement, row_lock>>

\* A status change without a place: from the status menu, or
\* requirement by requirement in bulk.
ChangeStatus(s, r, to) ==
    /\ tx[s] = Idle
    /\ drops < MaxDrops
    /\ Exists(r)
    /\ requirement[r].status_id # to
    /\ Request(s, r, to, None, None, Column(requirement, to) \ {r})
    /\ drops' = drops + 1
    /\ UNCHANGED <<requirement, row_lock>>

--------------------------------------------------------------------------------
(* The transaction of requirement_move *)

\* The status changes some user may, and some may not, make.
Allowed == [from \in Status |-> TransitionTargets(from, "user")]
Forbidden == [from \in Status |-> RefusedTargets(from, "user")]

\* The rows as the transaction of s sees them.
View(s) == [r \in Req |-> Seen(s, r)]

\* Mutant: a reopened card keeps its closing time.
ClosedAt_Kept(row, to) == row.closed_at \/ to \in Closed

\* closed_at is set when the card enters a closed status, kept while it moves
\* among closed ones, and cleared when it leaves them.
ClosedAt(row, to) == to \in Closed

\* SELECT ... FOR UPDATE, then requirement_transition when a status is given: the
\* card goes to the bottom of its new column.
Begin(s) ==
    LET r == tx[s].req
        to == tx[s].to
        from == requirement[r].status_id
        moved == [ status_id |-> to,
                   board_position |-> BottomPosition(requirement, to, r),
                   closed_at |-> ClosedAt(requirement[r], to) ]
    IN  /\ tx[s].pc = "sent"
        /\ row_lock[r] = None
        /\ to \in {None, from} \cup Allowed[from]
        /\ row_lock' = [row_lock EXCEPT ![r] = s]
        /\ tx' = [tx EXCEPT ![s].pc = "before",
                            ![s].writes = IF to \in {None, from} THEN @ ELSE [@ EXCEPT ![r] = moved]]
        /\ UNCHANGED <<requirement, drops>>

\* The position of a neighbour, if it is (still) in the card's column.
NeighbourPosition(s, n) ==
    IF n # None /\ Seen(s, n).status_id = Seen(s, tx[s].req).status_id
    THEN Seen(s, n).board_position
    ELSE None

ReadBefore(s) ==
    /\ tx[s].pc = "before"
    /\ tx' = [tx EXCEPT ![s].pc = "after",
                        ![s].before_pos = NeighbourPosition(s, tx[s].before)]
    /\ UNCHANGED <<requirement, row_lock, drops>>

ReadAfter(s) ==
    /\ tx[s].pc = "after"
    /\ tx' = [tx EXCEPT ![s].pc = "place",
                        ![s].after_pos = NeighbourPosition(s, tx[s].after)]
    /\ UNCHANGED <<requirement, row_lock, drops>>

\* Mutant: the column is renumbered as often as the neighbours are too close.
TooClose_EveryPass(t) ==
    /\ t.before_pos # None /\ t.after_pos # None
    /\ t.after_pos - t.before_pos < MinGap

\* The neighbours leave no room, or are inverted: renumber, once.
TooClose(t) ==
    /\ t.before_pos # None /\ t.after_pos # None
    /\ t.after_pos - t.before_pos < MinGap
    /\ t.pass = 1

\* Between the two neighbours, or a step from the only one there is.
NewPosition(t) ==
    CASE t.before_pos = None -> t.after_pos - Step
      [] t.after_pos = None -> t.before_pos + Step
      [] OTHER -> Midpoint(t.before_pos, t.after_pos)

\* The last UPDATE of requirement_reorder.
Place(s) ==
    LET t == tx[s] IN
    /\ t.pc = "place"
    /\ ~TooClose(t)
    /\ tx' = [tx EXCEPT ![s].pc = "commit",
            ![s].writes =
                IF t.before_pos = None /\ t.after_pos = None
                THEN @
                ELSE [@ EXCEPT ![t.req] = [Seen(s, t.req) EXCEPT !.board_position = NewPosition(t)]]]
    /\ UNCHANGED <<requirement, row_lock, drops>>

\* Mutant: the ranking ignores the ties' second key.
Ranking_NoTies(s) ==
    LET column == Column(View(s), Seen(s, tx[s].req).status_id) IN
    [r \in Req |-> IF r \in column
        THEN Cardinality({ q \in column :
                Seen(s, q).board_position < Seen(s, r).board_position }) + 1
        ELSE None]

\* The subquery of the rebalance: a number for every card of the column.
Ranking(s) ==
    LET status == Seen(s, tx[s].req).status_id IN
    [r \in Req |-> IF r \in Column(View(s), status)
                   THEN RowNumber(View(s), status, r)
                   ELSE None]

\* The UPDATE of the rebalance takes its snapshot and ranks the column.
Rebalance(s) ==
    /\ tx[s].pc = "place"
    /\ TooClose(tx[s])
    /\ tx' = [tx EXCEPT ![s].pc = "renumber", ![s].ranked = Ranking(s)]
    /\ UNCHANGED <<requirement, row_lock, drops>>

\* It then locks and writes its rows one by one.  A row that another transaction
\* has changed since is written in its newest version; the join condition, on the
\* id alone, still holds, so the old number is applied to it.
Renumber(s, r) ==
    /\ tx[s].pc = "renumber"
    /\ tx[s].ranked[r] # None
    /\ row_lock[r] \in {None, s}
    /\ row_lock' = [row_lock EXCEPT ![r] = s]
    /\ tx' = [tx EXCEPT
            ![s].writes[r] = [Seen(s, r) EXCEPT !.board_position = tx[s].ranked[r] * Step],
            ![s].ranked[r] = None]
    /\ UNCHANGED <<requirement, drops>>

\* CONTINUE: the second pass reads the neighbours again.
SecondPass(s) ==
    /\ tx[s].pc = "renumber"
    /\ tx[s].ranked = Nothing
    /\ tx' = [tx EXCEPT ![s].pc = "before", ![s].pass = 2]
    /\ UNCHANGED <<requirement, row_lock, drops>>

Unlocked(s) == [r \in Req |-> IF row_lock[r] = s THEN None ELSE row_lock[r]]

\* Every other request in flight has now been overtaken by a change.
Disturb(s) ==
    [t \in Session |->
        IF t = s THEN Idle
        ELSE IF tx[t] = Idle THEN Idle
        ELSE [tx[t] EXCEPT !.alone = FALSE]]

Commit(s) ==
    /\ tx[s].pc = "commit"
    /\ requirement' = View(s)
    /\ row_lock' = Unlocked(s)
    /\ tx' = Disturb(s)
    /\ UNCHANGED drops

\* Rolled back: the workflow refuses the transition, or the connection is lost.
Abort(s) ==
    /\ tx[s] # Idle
    /\ row_lock' = Unlocked(s)
    /\ tx' = [tx EXCEPT ![s] = Idle]
    /\ UNCHANGED <<requirement, drops>>

\* The sessions that hold a row s has still to lock.
WaitsFor(s) ==
    LET wanted == CASE tx[s].pc = "sent" -> {tx[s].req}
                    [] tx[s].pc = "renumber" -> { r \in Req : tx[s].ranked[r] # None }
                    [] OTHER -> {}
    IN  { row_lock[r] : r \in wanted } \ {None, s}

\* PostgreSQL rolls back one of a set of transactions that wait for each other.
Deadlocked(s) ==
    \E S \in SUBSET Session : s \in S /\ \A t \in S : WaitsFor(t) \cap S # {}

BreakDeadlock(s) == Deadlocked(s) /\ Abort(s)

\* A transition the workflow refuses raises an exception.
Refused(s) ==
    /\ tx[s].pc = "sent"
    /\ tx[s].to \in Forbidden[requirement[tx[s].req].status_id]
    /\ Abort(s)

--------------------------------------------------------------------------------
\* requirement_create_full puts the newest card at the bottom of its column.
Create(r, status) ==
    /\ ~Exists(r)
    /\ \A q \in Req : CreatedAt[q] < CreatedAt[r] => Exists(q)
    /\ requirement' = [requirement EXCEPT ![r] =
            [ status_id |-> status,
              board_position |-> BottomPosition(requirement, status, r),
              closed_at |-> status \in Closed ]]
    /\ tx' = Disturb(None)
    /\ UNCHANGED <<row_lock, drops>>

Init ==
    /\ \E R \in SUBSET Req :
        /\ \A q \in R, r \in Req \ R : CreatedAt[q] < CreatedAt[r]
        /\ \E status \in [R -> Status] :
            requirement = [r \in Req |->
                [ status_id |-> IF r \in R THEN status[r] ELSE None,
                  board_position |-> InitPosition[r],
                  closed_at |-> r \in R /\ status[r] \in Closed ]]
    /\ row_lock = [r \in Req |-> None]
    /\ tx = [s \in Session |-> Idle]
    /\ drops = 0

ServerStep(s) ==
    \/ Begin(s) \/ Refused(s)
    \/ ReadBefore(s) \/ ReadAfter(s) \/ Place(s)
    \/ Rebalance(s) \/ (\E r \in Req : Renumber(s, r)) \/ SecondPass(s)
    \/ Commit(s) \/ BreakDeadlock(s)

Next ==
    \/ \E s \in Session, r \in Req, to \in Status, above \in SUBSET Req : Drop(s, r, to, above)
    \/ \E s \in Session, r \in Req, to \in Status : ChangeStatus(s, r, to)
    \/ \E s \in Session : ServerStep(s)
    \/ \E s \in Session : Abort(s)
    \/ \E r \in Req, status \in Status : Create(r, status)

Spec == Init /\ [][Next]_vars

\* The server and the database keep working on a request they have received.
\* Nothing is assumed of users.
FairSpec == Spec /\ \A s \in Session : WF_vars(ServerStep(s))

--------------------------------------------------------------------------------
(* Properties *)

\* A card has a closing time exactly when it is in a closed status, however it
\* got there and whatever was committed while its transaction ran.
ClosedAtAgrees ==
    \A r \in Req : Exists(r) =>
        (requirement[r].closed_at <=> requirement[r].status_id \in Closed)

Commits(s) == tx[s].pc = "commit" /\ tx'[s] = Idle /\ requirement' = View(s)

\* A move that nothing else interferes with puts the card exactly where the user
\* dropped it, and leaves the other cards of the column in their order: also
\* between cards with equal positions, at either end, in another column, and
\* when the column has to be renumbered on the way.
DropLandsWhereSeen ==
    [][\A s \in Session : Commits(s) /\ tx[s].alone =>
        LET r == tx[s].req
            others == Column(requirement', requirement'[r].status_id) \ {r}
        IN  /\ { q \in others : Above(requirement', q, r) } = tx[s].above
            /\ \A q, t \in others :
                    Above(requirement', q, t) <=> Above(requirement, q, t)]_vars

\* Every request ends, committed or rolled back: concurrent moves may wait for each
\* other's cards but never for ever, and renumbering is not repeated for ever.
MovesEnd == \A s \in Session : tx[s] # Idle ~> tx[s] = Idle
===============================================================================
