------------------------- MODULE RequirementBoardProofs -------------------------
(***************************************************************************)
(* The board, for any number of cards, columns and concurrent requests.    *)
(*                                                                         *)
(* A request writes rows that it has locked, so nothing that others commit *)
(* gets lost when it commits (Held).  A request that nothing has disturbed *)
(* since its drop is followed through its passes (Undisturbed): the cards  *)
(* other than the moved one keep the order that the user saw, by their     *)
(* positions or by the numbers they are given, so a place between the two  *)
(* neighbours is a place between all above and all below.                  *)
(***************************************************************************)
EXTENDS RequirementBoard, TLAPS, FiniteSetTheorems, WellFoundedInduction

--------------------------------------------------------------------------------
(* What is invariant *)

\* A row as a transaction t sees it; Seen says the same of a session.
See(t, r) == IF t.writes[r] # None THEN t.writes[r] ELSE requirement[r]

\* All rows as t sees them.
Rows(t) == [r \in Req |-> See(t, r)]

\* The column that the card of t is to be in, and the other cards of it.
Target(t) == IF t.to = None THEN requirement[t.req].status_id ELSE t.to

Others(t) == Column(requirement, Target(t)) \ {t.req}

\* closed_at says what the status says.
Fits(row) == row.status_id # None /\ (row.closed_at <=> row.status_id \in Closed)

\* A transaction holds its card, and the rows it has written.
Locked(s, t) ==
    /\ \A r \in Req : t.writes[r] # None => row_lock[r] = s
    /\ t.pc # "sent" => row_lock[t.req] = s

\* It writes rows of cards that exist, and changes the status of its own card only.
Written(t) ==
    /\ Exists(t.req)
    /\ \A r \in Req : t.ranked[r] # None => Exists(r)
    /\ \A r \in Req : t.writes[r] # None =>
        /\ Exists(r)
        /\ Fits(t.writes[r])
        /\ r # t.req => t.writes[r].status_id = requirement[r].status_id
    /\ IF t.pc = "sent" THEN t.writes = Nothing /\ t.pass = 1
                        ELSE See(t, t.req).status_id = Target(t)
    /\ t.pc # "renumber" => t.ranked = Nothing

Held(s, t) == Locked(s, t) /\ Written(t)

\* The neighbours are those of the place the user chose; without any the card goes to the
\* bottom of another column.
Aligned(t) ==
    LET below == Others(t) \ t.above IN
    /\ t.above \subseteq Others(t)
    /\ \A q \in t.above, u \in below : Above(requirement, q, u)
    /\ IF t.before # None
       THEN t.before \in t.above /\ \A q \in t.above \ {t.before} : Above(requirement, q, t.before)
       ELSE t.after # None => t.above = {}
    /\ IF t.after # None
       THEN t.after \in below /\ \A q \in below \ {t.after} : Above(requirement, t.after, q)
       ELSE below = {}
    /\ t.before = None /\ t.after = None => t.to # None
    /\ t.to # None => t.to # requirement[t.req].status_id

\* Before a rebalance the other cards are where they were, and a card that changes its
\* column is at the bottom.
FirstPass(t) ==
    /\ \A q \in Req \ {t.req} : t.writes[q] = None
    /\ t.to # None => \A q \in Others(t) :
            requirement[q].board_position < See(t, t.req).board_position

\* The rebalance numbers the other cards in their order; those whose number is still to be
\* written have it in ranked.
Renumbered(t) ==
    \E rank \in [Req -> Nat] :
        /\ \A q, u \in Others(t) : Above(requirement, q, u) <=> rank[q] < rank[u]
        /\ \A q \in Others(t) :
            IF t.ranked[q] = None THEN See(t, q).board_position = rank[q] * Step
                                  ELSE t.ranked[q] = rank[q]

PositionOf(t, n) == IF n = None THEN None ELSE See(t, n).board_position

\* The card is where the user put it, and the others are in their order.
Landed(t) ==
    /\ \A q \in Others(t) : Above(Rows(t), q, t.req) <=> q \in t.above
    /\ \A q, u \in Others(t) : Above(Rows(t), q, u) <=> Above(requirement, q, u)

Undisturbed(t) ==
    /\ Aligned(t)
    /\ t.pc = "renumber" \/ t.pass = 2 => t.before # None /\ t.after # None
    /\ t.pc \in {"before", "after", "place"} /\ t.pass = 1 => FirstPass(t)
    /\ t.pc = "renumber" \/ (t.pc \in {"before", "after", "place"} /\ t.pass = 2) => Renumbered(t)
    /\ t.pc \in {"after", "place"} => t.before_pos = PositionOf(t, t.before)
    /\ t.pc = "place" => t.after_pos = PositionOf(t, t.after)
    /\ t.pc = "commit" => Landed(t)

\* What is known of transaction t of session s.
TxOK(s, t) == t # Idle => Held(s, t) /\ (t.alone => Undisturbed(t))

\* The rows are sound, and each open transaction is.
IInv ==
    /\ TypeOK
    /\ ClosedAtAgrees
    /\ \A s \in Session : \A t \in {tx[s]} : TxOK(s, t)

--------------------------------------------------------------------------------
(* The order of a column *)

\* ORDER BY board_position, created_at orders any rows strictly and totally.
LEMMA AboveIsOrder ==
    ASSUME NEW rows \in [Req -> Row], NEW q \in Req, NEW r \in Req, NEW u \in Req
    PROVE  /\ ~ Above(rows, q, q)
           /\ Above(rows, q, r) => ~ Above(rows, r, q)
           /\ q # r => Above(rows, q, r) \/ Above(rows, r, q)
           /\ Above(rows, q, r) /\ Above(rows, r, u) => Above(rows, q, u)
  <1>1. /\ rows[q].board_position \in Int
        /\ rows[r].board_position \in Int
        /\ rows[u].board_position \in Int
    BY DEF Row
  <1>2. /\ CreatedAt[q] \in Nat /\ CreatedAt[r] \in Nat /\ CreatedAt[u] \in Nat
        /\ CreatedAt[q] = CreatedAt[r] => q = r
    BY BoardAssumption
  <1> QED
    BY <1>1, <1>2 DEF Above

\* Cards that exist have a lowest one among them, and a highest one.
LEMMA LowestExists ==
    ASSUME NEW rows \in [Req -> Row], NEW S \in SUBSET Req, S # {}
    PROVE  \E m \in S : \A q \in S \ {m} : Above(rows, q, m)
  <1> DEFINE Below(m) == { q \in S : Above(rows, m, q) }
  <1> DEFINE T == { Below(m) : m \in S }
  <1> DEFINE R == StrictSubsetOrdering(S)
  <1>1. IsFiniteSet(S)
    BY FS_Subset, BoardAssumption
  <1>2. IsWellFoundedOn(R, SUBSET S)
    BY <1>1, FS_StrictSubsetOrderingWellFounded, FS_FiniteSubsetsOfFinite
  <1>3. T \subseteq SUBSET S /\ T # {}
    OBVIOUS
  <1>4. \E x \in T : \A y \in T : ~ (<<y, x>> \in R)
    <2> HIDE DEF T, R
    <2> QED BY <1>2, <1>3, WFMin
  <1>5. PICK m \in S : \A y \in T : ~ (<<y, Below(m)>> \in R)
    <2> HIDE DEF R
    <2> QED BY <1>4
  <1>6. ASSUME NEW q \in S \ {m}, ~ Above(rows, q, m)
        PROVE  FALSE
    <2>1. Above(rows, m, q)
      BY <1>6, AboveIsOrder
    <2>2. Below(q) \subseteq Below(m)
      BY <2>1, AboveIsOrder
    <2>3. q \in Below(m) /\ q \notin Below(q)
      BY <2>1, AboveIsOrder
    <2>4. <<Below(q), Below(m)>> \in R
      <3>1. Below(q) \in SUBSET S /\ Below(m) \in SUBSET S
        OBVIOUS
      <3>2. Below(q) # Below(m)
        BY <2>3
      <3> HIDE DEF Below
      <3> QED BY <2>2, <3>1, <3>2 DEF StrictSubsetOrdering
    <2>5. Below(q) \in T
      OBVIOUS
    <2> HIDE DEF T, R, Below
    <2> QED BY <2>4, <2>5, <1>5
  <1> QED
    BY <1>6

LEMMA HighestExists ==
    ASSUME NEW rows \in [Req -> Row], NEW S \in SUBSET Req, S # {}
    PROVE  \E m \in S : \A q \in S \ {m} : Above(rows, m, q)
  <1> DEFINE Over(m) == { q \in S : Above(rows, q, m) }
  <1> DEFINE T == { Over(m) : m \in S }
  <1> DEFINE R == StrictSubsetOrdering(S)
  <1>1. IsFiniteSet(S)
    BY FS_Subset, BoardAssumption
  <1>2. IsWellFoundedOn(R, SUBSET S)
    BY <1>1, FS_StrictSubsetOrderingWellFounded, FS_FiniteSubsetsOfFinite
  <1>3. T \subseteq SUBSET S /\ T # {}
    OBVIOUS
  <1>4. \E x \in T : \A y \in T : ~ (<<y, x>> \in R)
    <2> HIDE DEF T, R
    <2> QED BY <1>2, <1>3, WFMin
  <1>5. PICK m \in S : \A y \in T : ~ (<<y, Over(m)>> \in R)
    <2> HIDE DEF R
    <2> QED BY <1>4
  <1>6. ASSUME NEW q \in S \ {m}, ~ Above(rows, m, q)
        PROVE  FALSE
    <2>1. Above(rows, q, m)
      BY <1>6, AboveIsOrder
    <2>2. Over(q) \subseteq Over(m)
      BY <2>1, AboveIsOrder
    <2>3. q \in Over(m) /\ q \notin Over(q)
      BY <2>1, AboveIsOrder
    <2>4. <<Over(q), Over(m)>> \in R
      <3>1. Over(q) \in SUBSET S /\ Over(m) \in SUBSET S
        OBVIOUS
      <3>2. Over(q) # Over(m)
        BY <2>3
      <3> HIDE DEF Over
      <3> QED BY <2>2, <3>1, <3>2 DEF StrictSubsetOrdering
    <2>5. Over(q) \in T
      OBVIOUS
    <2> HIDE DEF T, R, Over
    <2> QED BY <2>4, <2>5, <1>5
  <1> QED
    BY <1>6

\* The bottom of a column is a position below those of all its cards.
LEMMA BottomIsBelow ==
    ASSUME NEW rows \in [Req -> Row], NEW status, NEW r
    PROVE  /\ BottomPosition(rows, status, r) \in Int
           /\ \A q \in Column(rows, status) \ {r} :
                rows[q].board_position < BottomPosition(rows, status, r)
  <1> DEFINE others == Column(rows, status) \ {r}
  <1> DEFINE positions == { rows[q].board_position : q \in others }
  <1> DEFINE Deepest(p) == \A q \in others : rows[q].board_position <= p
  <1>1. Step \in Nat /\ Step > 0
    BY BoardAssumption
  <1>2. CASE others = {}
    BY <1>1, <1>2 DEF BottomPosition
  <1>3. CASE others # {}
    <2>1. others \in SUBSET Req
      BY DEF Column
    <2>2. PICK m \in others : \A q \in others \ {m} : Above(rows, q, m)
      <3> HIDE DEF others
      <3> QED BY <1>3, <2>1, LowestExists
    <2>3. \A q \in others : rows[q].board_position \in Int
      BY <2>1 DEF Row
    <2>4. Deepest(rows[m].board_position) /\ rows[m].board_position \in positions
      BY <2>2, <2>3 DEF Above
    <2> DEFINE p == CHOOSE p \in positions : Deepest(p)
    <2>5. p \in positions /\ Deepest(p)
      <3> HIDE DEF positions, Deepest
      <3> QED BY <2>4
    <2>6. BottomPosition(rows, status, r) = p + Step
      BY <1>3 DEF BottomPosition
    <2>7. p \in Int
      BY <2>5, <2>3
    <2> HIDE DEF p
    <2> QED BY <1>1, <2>3, <2>5, <2>6, <2>7
  <1> QED
    BY <1>2, <1>3

\* row_number() numbers the cards of a column in their order.
LEMMA RowNumberIsOrder ==
    ASSUME NEW rows \in [Req -> Row], NEW status,
           NEW q \in Column(rows, status), NEW u \in Column(rows, status)
    PROVE  /\ RowNumber(rows, status, q) \in Nat
           /\ Above(rows, q, u) <=> RowNumber(rows, status, q) < RowNumber(rows, status, u)
  <1> DEFINE Over(r) == { v \in Column(rows, status) : Above(rows, v, r) }
  <1>1. q \in Req /\ u \in Req /\ \A r : Over(r) \in SUBSET Req
    BY DEF Column
  <1>2. \A r : IsFiniteSet(Over(r)) /\ Cardinality(Over(r)) \in Nat
    BY <1>1, FS_Subset, FS_CardinalityType, BoardAssumption
  <1>3. ASSUME NEW a \in Column(rows, status), NEW b \in Column(rows, status), Above(rows, a, b)
        PROVE  Cardinality(Over(a)) < Cardinality(Over(b))
    <2>1. a \in Req /\ b \in Req
      BY DEF Column
    <2>2. Over(a) \in SUBSET Over(b)
      BY <1>1, <1>3, <2>1, AboveIsOrder DEF Column
    <2>3. a \in Over(b) /\ a \notin Over(a)
      BY <1>3, <2>1, AboveIsOrder
    <2>4. Over(a) # Over(b)
      BY <2>3
    <2>5. /\ Cardinality(Over(a)) <= Cardinality(Over(b))
          /\ Cardinality(Over(a)) # Cardinality(Over(b))
      <3> HIDE DEF Over
      <3> QED BY <1>2, <2>2, <2>4, FS_Subset
    <2> HIDE DEF Over
    <2> QED BY <1>2, <2>5
  <1>4. q = u \/ Above(rows, q, u) \/ Above(rows, u, q)
    BY <1>1, AboveIsOrder
  <1>5. ~ Above(rows, q, q) /\ (Above(rows, q, u) => ~ Above(rows, u, q))
    BY <1>1, AboveIsOrder
  <1>6. /\ RowNumber(rows, status, q) = Cardinality(Over(q)) + 1
        /\ RowNumber(rows, status, u) = Cardinality(Over(u)) + 1
    BY DEF RowNumber
  <1> HIDE DEF Over
  <1> QED
    BY <1>2, <1>3, <1>4, <1>5, <1>6

\* Rounding does not move the middle of two positions onto either of them, when they are not
\* too close.
LEMMA MidpointIsBetween ==
    ASSUME NEW a \in Int, NEW b \in Int, b - a >= MinGap
    PROVE  Midpoint(a, b) \in Int /\ a < Midpoint(a, b) /\ Midpoint(a, b) < b
  <1>1. b - a >= 2
    BY BoardAssumption
  <1>2. CASE a + b >= 0
    BY <1>1, <1>2 DEF Midpoint
  <1>3. CASE ~ (a + b >= 0)
    BY <1>1, <1>3 DEF Midpoint
  <1> QED
    BY <1>2, <1>3

\* Cards with different numbers are a step apart.
LEMMA RanksApart ==
    ASSUME NEW i \in Nat, NEW j \in Nat, i < j
    PROVE  i * Step \in Int /\ j * Step \in Int /\ j * Step - i * Step >= MinGap
  <1>1. Step \in Nat /\ MinGap \in Nat /\ Step >= MinGap
    BY BoardAssumption
  <1>2. PICK k \in Nat : j = i + 1 + k
    <2>1. j - i - 1 \in Nat /\ j = i + 1 + (j - i - 1)
      OBVIOUS
    <2> QED BY <2>1
  <1>3. j * Step = i * Step + Step + k * Step
    BY <1>1, <1>2
  <1>4. k * Step >= 0 /\ k * Step \in Int /\ i * Step \in Int
    BY <1>1
  <1> QED
    BY <1>1, <1>3, <1>4

--------------------------------------------------------------------------------
(* What a transaction sees *)

LEMMA SeeTyped ==
    ASSUME requirement \in [Req -> Row], NEW t \in Tx
    PROVE  /\ \A r \in Req : See(t, r) \in Row
           /\ \A r \in Req : t.writes[r] # None => t.writes[r] \in Row
           /\ Rows(t) \in [Req -> Row]
  <1>1. t.writes \in [Req -> Row \cup {None}]
    BY DEF Tx
  <1>2. \A r \in Req : See(t, r) \in Row
    BY <1>1 DEF See
  <1> QED
    BY <1>1, <1>2 DEF Rows

\* A session that serves a request serves one of the type.
LEMMA Serving ==
    ASSUME TypeOK, NEW s \in Session, tx[s].pc # "idle"
    PROVE  tx[s] \in Tx /\ tx[s] # Idle
  BY DEF TypeOK, Idle

\* Statuses, as a transaction sees them: its card is in the column it is to be in, and every
\* other card in the column it is committed in.
LEMMA StatusesSeen ==
    ASSUME TypeOK, NEW s \in Session, NEW t \in Tx, Held(s, t), t.pc # "sent"
    PROVE  /\ See(t, t.req).status_id = Target(t)
           /\ Target(t) \in Status
           /\ \A r \in Req \ {t.req} : See(t, r).status_id = requirement[r].status_id
           /\ \A r \in Req : See(t, r).status_id # None <=> Exists(r)
           /\ Others(t) \in SUBSET (Req \ {t.req})
           /\ Column(Rows(t), Target(t)) = Others(t) \cup {t.req}
  <1>1. /\ t.req \in Req /\ t.to \in Status \cup {None}
        /\ requirement \in [Req -> Row]
        /\ \A r \in Req : requirement[r].status_id \in Status \cup {None}
    BY DEF Tx, TypeOK, Row
  <1>2. See(t, t.req).status_id = Target(t)
    BY DEF Held, Locked, Written
  <1>3. Target(t) \in Status
    BY <1>1 DEF Target, Held, Locked, Written, Exists
  <1>4. \A r \in Req \ {t.req} : See(t, r).status_id = requirement[r].status_id
    BY DEF Held, Locked, Written, See
  <1>5. Target(t) # None /\ Exists(t.req)
    BY <1>3, BoardAssumption DEF Held, Locked, Written
  <1>6. Others(t) \in SUBSET (Req \ {t.req})
    BY DEF Others, Column
  <1>7. Column(Rows(t), Target(t)) = Others(t) \cup {t.req}
    BY <1>1, <1>2, <1>4 DEF Others, Column, Rows
  <1> QED
    BY <1>2, <1>3, <1>4, <1>5, <1>6, <1>7 DEF Exists

\* Every row that a transaction sees says of its closing what its status says.
LEMMA SeenFits ==
    ASSUME ClosedAtAgrees, NEW s \in Session, NEW t, Held(s, t), NEW r \in Req, Exists(r)
    PROVE  Fits(See(t, r))
  BY DEF ClosedAtAgrees, Held, Locked, Written, See, Fits, Exists

\* A place below the lowest of some cards is below them all, one above the highest above all.
LEMMA BelowTheLowest ==
    ASSUME NEW rows \in [Req -> Row], NEW r \in Req, NEW S \in SUBSET Req, NEW m \in S,
           \A q \in S \ {m} : Above(rows, q, m),
           rows[m].board_position < rows[r].board_position
    PROVE  \A q \in S : Above(rows, q, r)
  <1>1. \A q \in Req : rows[q].board_position \in Int
    BY DEF Row
  <1> QED
    BY <1>1 DEF Above

LEMMA AboveTheHighest ==
    ASSUME NEW rows \in [Req -> Row], NEW r \in Req, NEW S \in SUBSET Req, NEW m \in S,
           \A q \in S \ {m} : Above(rows, m, q),
           rows[r].board_position < rows[m].board_position
    PROVE  \A q \in S : ~ Above(rows, q, r)
  <1>1. \A q \in Req : rows[q].board_position \in Int
    BY DEF Row
  <1> QED
    BY <1>1 DEF Above

\* In both passes the transaction sees the other cards in the order they are committed in.
LEMMA OthersInOrder ==
    ASSUME TypeOK, NEW t \in Tx, FirstPass(t) \/ (Renumbered(t) /\ t.ranked = Nothing)
    PROVE  \A q, u \in Others(t) : Above(Rows(t), q, u) <=> Above(requirement, q, u)
  <1>1. Others(t) \subseteq Req \ {t.req}
    BY DEF Others, Column
  <1>2. CASE FirstPass(t)
    <2>1. \A q \in Others(t) : Rows(t)[q] = requirement[q]
      BY <1>1, <1>2 DEF FirstPass, Rows, See
    <2> QED
      BY <2>1 DEF Above
  <1>3. CASE Renumbered(t) /\ t.ranked = Nothing
    <2>1. PICK rank \in [Req -> Nat] :
            /\ \A q, u \in Others(t) : Above(requirement, q, u) <=> rank[q] < rank[u]
            /\ \A q \in Others(t) :
                IF t.ranked[q] = None THEN See(t, q).board_position = rank[q] * Step
                                      ELSE t.ranked[q] = rank[q]
      BY <1>3 DEF Renumbered
    <2>2. \A q \in Others(t) : Rows(t)[q].board_position = rank[q] * Step
      BY <1>1, <1>3, <2>1 DEF Nothing, Rows
    <2>3. SUFFICES ASSUME NEW q \in Others(t), NEW u \in Others(t)
                   PROVE  Above(Rows(t), q, u) <=> Above(requirement, q, u)
      OBVIOUS
    <2>4. /\ q \in Req /\ u \in Req /\ rank[q] \in Nat /\ rank[u] \in Nat
          /\ requirement \in [Req -> Row]
      BY <1>1 DEF TypeOK
    <2>5. MinGap \in Nat /\ MinGap >= 2
      BY BoardAssumption
    <2>6. CASE rank[q] < rank[u]
      <3>1. Above(requirement, q, u)
        BY <2>1, <2>6
      <3>2. rank[q] * Step < rank[u] * Step
        BY <2>4, <2>5, <2>6, RanksApart
      <3> QED BY <3>1, <3>2, <2>2 DEF Above
    <2>7. CASE rank[u] < rank[q]
      <3>1. ~ Above(requirement, q, u)
        BY <2>1, <2>4, <2>7
      <3>2. rank[u] * Step < rank[q] * Step /\ rank[u] * Step \in Int /\ rank[q] * Step \in Int
        BY <2>4, <2>5, <2>7, RanksApart
      <3> QED BY <3>1, <3>2, <2>2 DEF Above
    <2>8. CASE rank[u] = rank[q]
      <3>1. ~ Above(requirement, q, u) /\ ~ Above(requirement, u, q)
        BY <2>1, <2>4, <2>8
      <3>2. q = u
        BY <3>1, <2>4, AboveIsOrder
      <3>3. Rows(t) \in [Req -> Row]
        BY SeeTyped DEF TypeOK
      <3> QED BY <3>1, <3>2, <3>3, <2>4, AboveIsOrder
    <2> QED BY <2>4, <2>6, <2>7, <2>8
  <1> QED
    BY <1>2, <1>3

\* When the neighbours leave room, or have been numbered a step apart, the new position is
\* between theirs.
LEMMA RoomForTheCard ==
    ASSUME TypeOK, NEW s \in Session, NEW t \in Tx, Held(s, t), Undisturbed(t),
           t.pc = "place", ~ TooClose(t), t.before # None \/ t.after # None
    PROVE  /\ NewPosition(t) \in Int
           /\ t.before # None => See(t, t.before).board_position < NewPosition(t)
           /\ t.after # None => NewPosition(t) < See(t, t.after).board_position
  <1>1. /\ t.before_pos = PositionOf(t, t.before)
        /\ t.after_pos = PositionOf(t, t.after)
        /\ Aligned(t)
    BY DEF Undisturbed
  <1>2. /\ t.before \in Req \cup {None} /\ t.after \in Req \cup {None} /\ t.pass \in {1, 2}
        /\ \A r \in Req : See(t, r).board_position \in Int
        /\ None \notin Int
    BY SeeTyped, BoardAssumption DEF Tx, Row, TypeOK
  <1>3. /\ MinGap \in Nat /\ MinGap >= 2 /\ Step \in Nat /\ Step >= MinGap
    BY BoardAssumption
  <1>4. CASE t.before = None
    BY <1>1, <1>2, <1>3, <1>4 DEF NewPosition, PositionOf
  <1>5. CASE t.before # None /\ t.after = None
    BY <1>1, <1>2, <1>3, <1>5 DEF NewPosition, PositionOf
  <1>6. CASE t.before # None /\ t.after # None
    <2>1. PICK a \in Int, b \in Int : a = t.before_pos /\ b = t.after_pos
      BY <1>1, <1>2, <1>6 DEF PositionOf
    <2>2. b - a >= MinGap
      <3>1. CASE t.pass = 1
        BY <2>1, <3>1, <1>2, <1>3 DEF TooClose
      <3>2. CASE t.pass = 2
        <4>1. Renumbered(t) /\ t.ranked = Nothing
          BY <3>2 DEF Undisturbed, Held, Locked, Written
        <4>2. PICK rank \in [Req -> Nat] :
                /\ \A q, u \in Others(t) : Above(requirement, q, u) <=> rank[q] < rank[u]
                /\ \A q \in Others(t) :
                    IF t.ranked[q] = None THEN See(t, q).board_position = rank[q] * Step
                                          ELSE t.ranked[q] = rank[q]
          BY <4>1 DEF Renumbered
        <4>3. /\ t.before \in Others(t) /\ t.after \in Others(t)
              /\ Above(requirement, t.before, t.after)
          BY <1>1, <1>6 DEF Aligned
        <4>4. t.before \in Req /\ t.after \in Req
          BY <1>2, <1>6
        <4>5. a = rank[t.before] * Step /\ b = rank[t.after] * Step
          BY <1>1, <1>6, <2>1, <4>1, <4>2, <4>3, <4>4 DEF PositionOf, Nothing
        <4>6. rank[t.before] < rank[t.after] /\ rank[t.before] \in Nat /\ rank[t.after] \in Nat
          BY <4>2, <4>3, <4>4
        <4> QED BY <4>5, <4>6, RanksApart
      <3> QED BY <1>2, <3>1, <3>2
    <2>3. NewPosition(t) = Midpoint(a, b)
      BY <2>1, <1>2 DEF NewPosition
    <2>4. Midpoint(a, b) \in Int /\ a < Midpoint(a, b) /\ Midpoint(a, b) < b
      BY <2>2, MidpointIsBetween
    <2> QED BY <1>1, <1>6, <2>1, <2>3, <2>4 DEF PositionOf
  <1> QED
    BY <1>4, <1>5, <1>6

--------------------------------------------------------------------------------
(* Steps of one request *)

\* A step that commits nothing and takes no row from another session concerns its own
\* session only.
LEMMA OwnStep ==
    ASSUME IInv, NEW s \in Session, NEW t \in Tx \cup {Idle},
           tx' = [tx EXCEPT ![s] = t], requirement' = requirement,
           row_lock' \in [Req -> Session \cup {None}], drops' \in 0..MaxDrops,
           \A r \in Req, u \in Session \ {s} : row_lock[r] = u => row_lock'[r] = u,
           TxOK(s, t)'
    PROVE  IInv'
  <1>1. TypeOK'
    BY DEF IInv, TypeOK
  <1>2. ClosedAtAgrees'
    BY DEF IInv, ClosedAtAgrees, Exists
  <1>3. ASSUME NEW u \in Session, NEW v \in {tx'[u]}
        PROVE  TxOK(u, v)'
    <2>1. CASE u = s
      <3>1. v = t
        BY <2>1 DEF IInv, TypeOK
      <3> QED BY <2>1, <3>1
    <2>2. CASE u # s
      <3>1. v \in Tx \cup {Idle} /\ v = tx[u]
        BY <2>2 DEF IInv, TypeOK
      <3>2. TxOK(u, v)
        BY <3>1 DEF IInv
      <3>3. v \in Tx /\ Held(u, v) => Held(u, v)'
        <4>1. v \in Tx => v.req \in Req
          BY DEF Tx
        <4> QED BY <2>2, <4>1 DEF Held, Locked, Written, See, Target, Exists, Fits
      <3>4. Undisturbed(v) => Undisturbed(v)'
        BY DEF Undisturbed, Aligned, FirstPass, Renumbered, PositionOf, Landed, Rows, See,
               Target, Others, Column, Above
      <3> QED BY <3>1, <3>2, <3>3, <3>4 DEF TxOK
    <2> QED BY <2>1, <2>2
  <1> QED
    BY <1>1, <1>2, <1>3 DEF IInv

\* The browser finds the lowest of the cards above the place, and the highest of those below.
LEMMA NeighbourAbove ==
    ASSUME NEW rows \in [Req -> Row], NEW others, NEW above \in SUBSET Req,
           NEW n, n = Neighbours(rows, others, above)
    PROVE  /\ above = {} => n.before = None
           /\ above # {} => /\ n.before \in above
                           /\ \A q \in above \ {n.before} : Above(rows, q, n.before)
  <1> DEFINE Last(b) == \A q \in above \ {b} : Above(rows, q, b)
  <1>1. n.before = IF above = {} THEN None ELSE CHOOSE b \in above : Last(b)
    BY DEF Neighbours
  <1>2. ASSUME above # {}
        PROVE  n.before \in above /\ Last(n.before)
    <2>1. \E b \in above : Last(b)
      BY <1>2, LowestExists
    <2> HIDE DEF Last
    <2> QED BY <1>1, <1>2, <2>1
  <1> QED
    BY <1>1, <1>2

LEMMA NeighbourBelow ==
    ASSUME NEW rows \in [Req -> Row], NEW others \in SUBSET Req, NEW above \in SUBSET others,
           NEW below, below = others \ above, NEW n, n = Neighbours(rows, others, above)
    PROVE  /\ below = {} => n.after = None
           /\ below # {} => /\ n.after \in below
                           /\ \A q \in below \ {n.after} : Above(rows, n.after, q)
  <1> DEFINE First(a) == \A q \in below \ {a} : Above(rows, a, q)
  <1>1. n.after = IF below = {} THEN None ELSE CHOOSE a \in below : First(a)
    BY DEF Neighbours
  <1>2. ASSUME below # {}
        PROVE  n.after \in below /\ First(n.after)
    <2>1. \E a \in below : First(a)
      BY <1>2, HighestExists
    <2> HIDE DEF First
    <2> QED BY <1>1, <1>2, <2>1
  <1> QED
    BY <1>1, <1>2

\* A request as it is sent has written nothing.
LEMMA RequestStep ==
    ASSUME IInv, NEW s \in Session, NEW t \in Tx, Exists(t.req), drops < MaxDrops,
           t.pc = "sent", t.pass = 1, t.ranked = Nothing, t.writes = Nothing, Aligned(t),
           tx' = [tx EXCEPT ![s] = t], drops' = drops + 1, UNCHANGED <<requirement, row_lock>>
    PROVE  IInv'
  <1>1. Held(s, t)'
    <2>1. t.req \in Req
      BY DEF Tx
    <2> QED BY <2>1 DEF Held, Locked, Written, Nothing, Exists
  <1>2. Aligned(t)'
    BY DEF Aligned, Others, Target, Column, Above
  <1>3. Undisturbed(t)'
    BY <1>2 DEF Undisturbed
  <1>4. TxOK(s, t)'
    BY <1>1, <1>3 DEF TxOK
  <1>5. drops' \in 0..MaxDrops /\ row_lock' \in [Req -> Session \cup {None}]
    BY BoardAssumption DEF IInv, TypeOK
  <1>6. \A r \in Req, u \in Session \ {s} : row_lock[r] = u => row_lock'[r] = u
    OBVIOUS
  <1>7. requirement' = requirement
    OBVIOUS
  <1> QED
    BY <1>4, <1>5, <1>6, <1>7, OwnStep

LEMMA DropStep ==
    ASSUME IInv, NEW s \in Session, NEW r \in Req, NEW to \in Status, NEW above \in SUBSET Req,
           Drop(s, r, to, above)
    PROVE  IInv'
  <1>1. PICK others, below, n, given :
            /\ others = Column(requirement, to) \ {r}
            /\ below = others \ above
            /\ n = Neighbours(requirement, others, above)
            /\ given = IF requirement[r].status_id = to THEN None ELSE to
    OBVIOUS
  <1>2. others \in SUBSET Req /\ above \in SUBSET others /\ requirement \in [Req -> Row]
    BY <1>1 DEF Drop, Column, IInv, TypeOK
  <1>3. /\ above = {} => n.before = None
        /\ above # {} => /\ n.before \in above
                        /\ \A q \in above \ {n.before} : Above(requirement, q, n.before)
        /\ below = {} => n.after = None
        /\ below # {} => /\ n.after \in below
                        /\ \A q \in below \ {n.after} : Above(requirement, n.after, q)
    <2>1. /\ above = {} => n.before = None
          /\ above # {} => /\ n.before \in above
                          /\ \A q \in above \ {n.before} : Above(requirement, q, n.before)
      BY <1>1, <1>2, NeighbourAbove
    <2>2. /\ below = {} => n.after = None
          /\ below # {} => /\ n.after \in below
                          /\ \A q \in below \ {n.after} : Above(requirement, n.after, q)
      BY <1>1, <1>2, NeighbourBelow
    <2> QED BY <2>1, <2>2
  <1>4. /\ None \notin Req /\ to # None
        /\ given \in Status \cup {None}
        /\ given # None => given # requirement[r].status_id
        /\ to = IF given = None THEN requirement[r].status_id ELSE given
    BY <1>1, BoardAssumption
  <1>5. /\ Exists(r) /\ drops < MaxDrops /\ drops' = drops + 1
        /\ UNCHANGED <<requirement, row_lock>>
        /\ Request(s, r, given, n.before, n.after, above)
        /\ \A q \in above, u \in below : Above(requirement, q, u)
        /\ requirement[r].status_id = to => above # { q \in others : Above(requirement, q, r) }
    BY <1>1 DEF Drop
  <1>6. n.before \in Req \cup {None} /\ n.after \in Req \cup {None}
    BY <1>1, <1>2, <1>3
  <1>7. n.before = None /\ n.after = None => given # None
    <2>1. ASSUME n.before = None, n.after = None
          PROVE  others = {} /\ above = {}
      BY <2>1, <1>1, <1>2, <1>3, <1>4
    <2> QED BY <2>1, <1>1, <1>4, <1>5
  <1>8. PICK t \in Tx : t = [ pc |-> "sent", req |-> r, to |-> given, before |-> n.before,
          after |-> n.after, pass |-> 1, before_pos |-> None, after_pos |-> None,
          ranked |-> Nothing, writes |-> Nothing, above |-> above, alone |-> TRUE ]
    BY <1>4, <1>6 DEF Tx, Nothing
  <1>9. /\ t.pc = "sent" /\ t.req = r /\ t.to = given /\ t.before = n.before /\ t.after = n.after
        /\ t.pass = 1 /\ t.ranked = Nothing /\ t.writes = Nothing /\ t.above = above
    BY <1>8
  <1>10. tx' = [tx EXCEPT ![s] = t]
    BY <1>5, <1>8 DEF Request
  <1>11. Others(t) = others
    BY <1>1, <1>4, <1>9 DEF Others, Target
  <1>12. Aligned(t)
    BY <1>1, <1>2, <1>3, <1>4, <1>5, <1>7, <1>9, <1>11 DEF Aligned
  <1> QED
    BY <1>5, <1>9, <1>10, <1>12, RequestStep

LEMMA ChangeStatusStep ==
    ASSUME IInv, NEW s \in Session, NEW r \in Req, NEW to \in Status, ChangeStatus(s, r, to)
    PROVE  IInv'
  <1>1. PICK others : others = Column(requirement, to) \ {r}
    OBVIOUS
  <1>2. to # None /\ others \in SUBSET Req
    BY <1>1, BoardAssumption DEF Column
  <1>3. /\ Exists(r) /\ drops < MaxDrops /\ drops' = drops + 1
        /\ requirement[r].status_id # to
        /\ UNCHANGED <<requirement, row_lock>>
        /\ Request(s, r, to, None, None, others)
    BY <1>1 DEF ChangeStatus
  <1>4. PICK t \in Tx : t = [ pc |-> "sent", req |-> r, to |-> to, before |-> None,
          after |-> None, pass |-> 1, before_pos |-> None, after_pos |-> None,
          ranked |-> Nothing, writes |-> Nothing, above |-> others, alone |-> TRUE ]
    BY <1>2 DEF Tx, Nothing
  <1>5. /\ t.pc = "sent" /\ t.req = r /\ t.to = to /\ t.before = None /\ t.after = None
        /\ t.pass = 1 /\ t.ranked = Nothing /\ t.writes = Nothing /\ t.above = others
    BY <1>4
  <1>6. tx' = [tx EXCEPT ![s] = t]
    BY <1>3, <1>4 DEF Request
  <1>7. Others(t) = others
    BY <1>1, <1>2, <1>5 DEF Others, Target
  <1>8. Aligned(t)
    BY <1>2, <1>3, <1>5, <1>7 DEF Aligned
  <1> QED
    BY <1>3, <1>5, <1>6, <1>8, RequestStep

\* A step of a request in its transaction, which only takes rows that are free.
LEMMA ServeStep ==
    ASSUME IInv, NEW s \in Session, NEW t \in Tx,
           tx' = [tx EXCEPT ![s] = t], UNCHANGED <<requirement, drops>>,
           row_lock' \in [Req -> Session \cup {None}],
           \A r \in Req, u \in Session \ {s} : row_lock[r] = u => row_lock'[r] = u,
           Locked(s, t)', Written(t), t.alone => Undisturbed(t)
    PROVE  IInv'
  <1>1. Written(t)'
    BY DEF Written, See, Target, Exists, Fits
  <1>2. Undisturbed(t) => Undisturbed(t)'
    BY DEF Undisturbed, Aligned, FirstPass, Renumbered, PositionOf, Landed, Rows, See,
           Target, Others, Column, Above
  <1>3. TxOK(s, t)'
    BY <1>1, <1>2 DEF TxOK, Held
  <1>4. drops' \in 0..MaxDrops /\ requirement' = requirement
    BY DEF IInv, TypeOK
  <1> QED
    BY <1>3, <1>4, OwnStep

LEMMA ServingOK ==
    ASSUME IInv, NEW s \in Session, NEW t, t = tx[s], t.pc # "idle"
    PROVE  /\ TypeOK /\ ClosedAtAgrees
           /\ t \in Tx
           /\ Held(s, t)
           /\ t.alone => Undisturbed(t)
  <1>1. t \in Tx /\ t # Idle
    BY Serving DEF IInv
  <1> QED
    BY <1>1 DEF IInv, TxOK

LEMMA BeginStep ==
    ASSUME IInv, NEW s \in Session, Begin(s)
    PROVE  IInv'
  <1>1. PICK t, r, to, from, moved :
            /\ t = tx[s] /\ r = t.req /\ to = t.to /\ from = requirement[r].status_id
            /\ moved = [ status_id |-> to, board_position |-> BottomPosition(requirement, to, r),
                         closed_at |-> ClosedAt(requirement[r], to) ]
    OBVIOUS
  <1>2. /\ t.pc = "sent" /\ row_lock[r] = None
        /\ row_lock' = [row_lock EXCEPT ![r] = s]
        /\ UNCHANGED <<requirement, drops>>
    BY <1>1 DEF Begin
  <1>3. /\ TypeOK /\ ClosedAtAgrees
        /\ t \in Tx /\ Held(s, t) /\ (t.alone => Undisturbed(t))
    BY <1>1, <1>2, ServingOK
  <1>4. PICK w : w = IF to \in {None, from} THEN t.writes ELSE [t.writes EXCEPT ![r] = moved]
    OBVIOUS
  <1>5. PICK u : u = [t EXCEPT !.pc = "before", !.writes = w]
    OBVIOUS
  <1>6. tx' = [tx EXCEPT ![s] = u]
    BY <1>1, <1>3, <1>4, <1>5 DEF Begin, TypeOK, Tx
  <1>7. /\ r \in Req /\ to \in Status \cup {None} /\ requirement \in [Req -> Row]
        /\ row_lock \in [Req -> Session \cup {None}] /\ None \notin Status \cup Session
        /\ t.writes = Nothing /\ t.ranked = Nothing /\ t.pass = 1 /\ Exists(r)
    BY <1>1, <1>2, <1>3, BoardAssumption DEF TypeOK, Tx, Held, Written
  <1>8. /\ moved \in Row /\ moved # None
        /\ moved.status_id = to
        /\ moved.board_position = BottomPosition(requirement, to, r)
        /\ moved.closed_at <=> to \in Closed
    <2>1. PICK p : p = BottomPosition(requirement, to, r)
      OBVIOUS
    <2>2. PICK c \in BOOLEAN : c <=> to \in Closed
      OBVIOUS
    <2>3. requirement \in [Req -> Row]
      BY <1>7
    <2>4. p \in Int
      BY <2>1, <2>3, BottomIsBelow
    <2>5. moved = [ status_id |-> to, board_position |-> p, closed_at |-> c ]
      BY <2>1, <2>2, <1>1 DEF ClosedAt
    <2>6. moved \in Row
      BY <2>4, <2>5, <1>7 DEF Row
    <2>7. moved.status_id = to /\ moved.board_position = p /\ moved.closed_at = c
      BY <2>5
    <2> QED BY <2>1, <2>2, <2>6, <2>7, NoneAssumption
  <1>9. w \in [Req -> Row \cup {None}]
    BY <1>4, <1>7, <1>8 DEF Nothing
  <1>10. /\ u \in Tx
         /\ u.pc = "before" /\ u.req = r /\ u.to = to /\ u.before = t.before /\ u.after = t.after
         /\ u.pass = 1 /\ u.ranked = Nothing /\ u.writes = w /\ u.above = t.above
         /\ u.alone = t.alone
    BY <1>1, <1>3, <1>5, <1>7, <1>9 DEF Tx
  <1>11. \A q \in Req : w[q] # None =>
            q = r /\ to \notin {None, from} /\ w = [t.writes EXCEPT ![r] = moved] /\ w[r] = moved
    BY <1>4, <1>7 DEF Nothing
  <1>12. to \in {None, from} => w = Nothing
    BY <1>4, <1>7
  <1>13. to \notin {None, from} => w[r] = moved
    BY <1>4, <1>7 DEF Nothing
  <1>14. Locked(s, u)'
    BY <1>2, <1>7, <1>10, <1>11 DEF Locked
  <1>15. See(u, r).status_id = Target(u)
    <2>1. CASE to \in {None, from}
      BY <2>1, <1>1, <1>7, <1>10, <1>12 DEF See, Target, Nothing
    <2>2. CASE to \notin {None, from}
      BY <2>2, <1>8, <1>10, <1>13 DEF See, Target
    <2> QED BY <2>1, <2>2
  <1>16. Written(u)
    BY <1>7, <1>8, <1>10, <1>11, <1>15 DEF Written, Fits, Nothing
  <1>17. ASSUME u.alone
         PROVE  Undisturbed(u)
    <2>1. Aligned(t)
      BY <1>3, <1>10, <1>17 DEF Undisturbed
    <2>2. Others(u) = Others(t)
      BY <1>1, <1>10 DEF Others, Target
    <2>3. Aligned(u)
      BY <2>1, <2>2, <1>1, <1>10 DEF Aligned
    <2>4. FirstPass(u)
      <3>1. \A q \in Req \ {u.req} : u.writes[q] = None
        BY <1>10, <1>11
      <3>2. ASSUME to # None, NEW q \in Others(u)
            PROVE  requirement[q].board_position < See(u, u.req).board_position
        <4>1. to \notin {None, from}
          BY <2>1, <3>2, <1>1 DEF Aligned
        <4>2. See(u, u.req) = moved
          BY <4>1, <1>8, <1>10, <1>13 DEF See
        <4>3. q \in Column(requirement, to) \ {r}
          BY <3>2, <1>10 DEF Others, Target
        <4> QED BY <4>2, <4>3, <1>7, <1>8, BottomIsBelow
      <3> QED BY <3>1, <3>2, <1>10 DEF FirstPass
    <2> QED BY <2>3, <2>4, <1>10 DEF Undisturbed
  <1>18. /\ row_lock' \in [Req -> Session \cup {None}]
         /\ \A q \in Req, v \in Session \ {s} : row_lock[q] = v => row_lock'[q] = v
    BY <1>2, <1>7
  <1> QED
    BY <1>2, <1>6, <1>10, <1>14, <1>16, <1>17, <1>18, ServeStep

\* The position a transaction reads of a neighbour that nobody has moved is the one it sees.
LEMMA NeighbourRead ==
    ASSUME TypeOK, NEW s \in Session, NEW t \in Tx, t = tx[s], Held(s, t), t.pc # "sent",
           NEW n \in Req \cup {None}
    PROVE  /\ NeighbourPosition(s, n) \in Int \cup {None}
           /\ n \in Others(t) \cup {None} => NeighbourPosition(s, n) = PositionOf(t, n)
  <1>1. \A r : Seen(s, r) = See(t, r)
    BY DEF Seen, See
  <1>2. \A r \in Req : See(t, r).board_position \in Int
    BY SeeTyped DEF TypeOK, Row
  <1>3. n # None => NeighbourPosition(s, n) \in Int \cup {None}
    BY <1>1, <1>2 DEF NeighbourPosition
  <1>4. n \in Others(t) => See(t, n).status_id = See(t, t.req).status_id /\ n # None
    <2>1. ASSUME n \in Others(t)
          PROVE  n \in Req \ {t.req} /\ requirement[n].status_id = Target(t) /\ None \notin Req
      BY <2>1, BoardAssumption DEF Others, Column
    <2> QED BY <2>1, StatusesSeen
  <1> QED
    BY <1>1, <1>3, <1>4 DEF NeighbourPosition, PositionOf

\* Reading a neighbour changes nothing else.
LEMMA ReadStep ==
    ASSUME IInv, NEW s \in Session, NEW t, t = tx[s],
           NEW u \in Tx, tx' = [tx EXCEPT ![s] = u], UNCHANGED <<requirement, row_lock, drops>>,
           t.pc \in {"before", "after"}, u.pc \in {"after", "place"},
           u.req = t.req, u.to = t.to, u.before = t.before, u.after = t.after, u.pass = t.pass,
           u.ranked = t.ranked, u.writes = t.writes, u.above = t.above, u.alone => t.alone,
           u.alone => /\ u.before_pos = PositionOf(t, t.before)
                      /\ u.pc = "place" => u.after_pos = PositionOf(t, t.after)
    PROVE  IInv'
  <1>1. TypeOK /\ Held(s, t) /\ (t.alone => Undisturbed(t))
    BY ServingOK
  <1>2. /\ \A r : See(u, r) = See(t, r)
        /\ Target(u) = Target(t) /\ Others(u) = Others(t)
    BY DEF See, Target, Others
  <1>3. Locked(s, u)'
    BY <1>1 DEF Held, Locked
  <1>4. Written(u)
    BY <1>1, <1>2 DEF Held, Written
  <1>5. ASSUME u.alone
        PROVE  Undisturbed(u)
    <2>1. Undisturbed(t)
      BY <1>1, <1>5
    <2>2. Aligned(u)
      BY <2>1, <1>2 DEF Undisturbed, Aligned
    <2>3. u.pass = 1 => FirstPass(u)
      BY <2>1, <1>2 DEF Undisturbed, FirstPass
    <2>4. u.pass = 2 => Renumbered(u)
      BY <2>1, <1>2 DEF Undisturbed, Renumbered
    <2>5. \A n : PositionOf(u, n) = PositionOf(t, n)
      BY <1>2 DEF PositionOf
    <2> QED BY <2>1, <2>2, <2>3, <2>4, <2>5, <1>5 DEF Undisturbed
  <1>6. /\ row_lock' \in [Req -> Session \cup {None}]
        /\ \A q \in Req, v \in Session \ {s} : row_lock[q] = v => row_lock'[q] = v
    BY <1>1 DEF TypeOK
  <1>7. UNCHANGED <<requirement, drops>>
    OBVIOUS
  <1> QED
    BY <1>3, <1>4, <1>5, <1>6, <1>7, ServeStep

LEMMA ReadBeforeStep ==
    ASSUME IInv, NEW s \in Session, ReadBefore(s)
    PROVE  IInv'
  <1>1. PICK t, p, u : /\ t = tx[s] /\ p = NeighbourPosition(s, t.before)
                       /\ u = [t EXCEPT !.pc = "after", !.before_pos = p]
    OBVIOUS
  <1>2. t.pc = "before" /\ UNCHANGED <<requirement, row_lock, drops>>
    BY <1>1 DEF ReadBefore
  <1>3. TypeOK /\ t \in Tx /\ Held(s, t) /\ (t.alone => Undisturbed(t))
    BY <1>1, <1>2, ServingOK
  <1>4. tx' = [tx EXCEPT ![s] = u]
    BY <1>1, <1>3 DEF ReadBefore, TypeOK, Tx
  <1>5. /\ p \in Int \cup {None}
        /\ t.before \in Others(t) \cup {None} => p = PositionOf(t, t.before)
    <2>1. t.before \in Req \cup {None}
      BY <1>3 DEF Tx
    <2> QED BY <2>1, <1>1, <1>2, <1>3, NeighbourRead
  <1>6. /\ u \in Tx
        /\ u.pc = "after" /\ u.before_pos = p
        /\ u.req = t.req /\ u.to = t.to /\ u.before = t.before /\ u.after = t.after
        /\ u.pass = t.pass /\ u.ranked = t.ranked /\ u.writes = t.writes /\ u.above = t.above
        /\ u.alone = t.alone
    BY <1>1, <1>3, <1>5 DEF Tx
  <1>7. t.alone => t.before \in Others(t) \cup {None}
    BY <1>3 DEF Undisturbed, Aligned
  <1>8. /\ t.pc \in {"before", "after"} /\ u.pc \in {"after", "place"}
        /\ u \in Tx /\ u.req = t.req /\ u.to = t.to /\ u.before = t.before /\ u.after = t.after
        /\ u.pass = t.pass /\ u.ranked = t.ranked /\ u.writes = t.writes /\ u.above = t.above
        /\ u.alone => t.alone
        /\ u.alone => /\ u.before_pos = PositionOf(t, t.before)
                      /\ u.pc = "place" => u.after_pos = PositionOf(t, t.after)
    BY <1>2, <1>5, <1>6, <1>7
  <1>9. t = tx[s]
    BY <1>1
  <1> QED
    BY <1>2, <1>4, <1>8, <1>9, ReadStep

LEMMA ReadAfterStep ==
    ASSUME IInv, NEW s \in Session, ReadAfter(s)
    PROVE  IInv'
  <1>1. PICK t, p, u : /\ t = tx[s] /\ p = NeighbourPosition(s, t.after)
                       /\ u = [t EXCEPT !.pc = "place", !.after_pos = p]
    OBVIOUS
  <1>2. t.pc = "after" /\ UNCHANGED <<requirement, row_lock, drops>>
    BY <1>1 DEF ReadAfter
  <1>3. TypeOK /\ t \in Tx /\ Held(s, t) /\ (t.alone => Undisturbed(t))
    BY <1>1, <1>2, ServingOK
  <1>4. tx' = [tx EXCEPT ![s] = u]
    BY <1>1, <1>3 DEF ReadAfter, TypeOK, Tx
  <1>5. /\ p \in Int \cup {None}
        /\ t.after \in Others(t) \cup {None} => p = PositionOf(t, t.after)
    <2>1. t.after \in Req \cup {None}
      BY <1>3 DEF Tx
    <2> QED BY <2>1, <1>1, <1>2, <1>3, NeighbourRead
  <1>6. /\ u \in Tx
        /\ u.pc = "place" /\ u.after_pos = p /\ u.before_pos = t.before_pos
        /\ u.req = t.req /\ u.to = t.to /\ u.before = t.before /\ u.after = t.after
        /\ u.pass = t.pass /\ u.ranked = t.ranked /\ u.writes = t.writes /\ u.above = t.above
        /\ u.alone = t.alone
    BY <1>1, <1>3, <1>5 DEF Tx
  <1>7. t.alone => /\ t.after \in Others(t) \cup {None}
                   /\ t.before_pos = PositionOf(t, t.before)
    BY <1>2, <1>3 DEF Undisturbed, Aligned
  <1>8. /\ t.pc \in {"before", "after"} /\ u.pc \in {"after", "place"}
        /\ u \in Tx /\ u.req = t.req /\ u.to = t.to /\ u.before = t.before /\ u.after = t.after
        /\ u.pass = t.pass /\ u.ranked = t.ranked /\ u.writes = t.writes /\ u.above = t.above
        /\ u.alone => t.alone
        /\ u.alone => /\ u.before_pos = PositionOf(t, t.before)
                      /\ u.pc = "place" => u.after_pos = PositionOf(t, t.after)
    BY <1>2, <1>5, <1>6, <1>7
  <1>9. t = tx[s]
    BY <1>1
  <1> QED
    BY <1>2, <1>4, <1>8, <1>9, ReadStep

LEMMA NewPositionTyped ==
    ASSUME NEW t \in Tx, t.before_pos # None \/ t.after_pos # None
    PROVE  NewPosition(t) \in Int
  <1>1. PICK a, b : a = t.before_pos /\ b = t.after_pos
    OBVIOUS
  <1>2. /\ a \in Int \cup {None} /\ b \in Int \cup {None} /\ None \notin Int
        /\ Step \in Nat
    BY <1>1, BoardAssumption DEF Tx
  <1>3. CASE a = None
    BY <1>1, <1>2, <1>3 DEF NewPosition
  <1>4. CASE a # None /\ b = None
    BY <1>1, <1>2, <1>4 DEF NewPosition
  <1>5. CASE a # None /\ b # None
    <2>1. NewPosition(t) = Midpoint(a, b)
      BY <1>1, <1>5 DEF NewPosition
    <2>2. Midpoint(a, b) \in Int
      BY <1>2, <1>5 DEF Midpoint
    <2> QED BY <2>1, <2>2
  <1> QED
    BY <1>3, <1>4, <1>5

\* The card of an undisturbed request that is placed has landed.
LEMMA PlacedHasLanded ==
    ASSUME TypeOK, NEW s \in Session, NEW t \in Tx, Held(s, t), Undisturbed(t),
           t.pc = "place", ~ TooClose(t),
           NEW u \in Tx, u.req = t.req, u.to = t.to, u.above = t.above,
           \A q \in Req \ {t.req} : See(u, q) = See(t, q),
           See(u, t.req).board_position = IF t.before = None /\ t.after = None
                                          THEN See(t, t.req).board_position ELSE NewPosition(t)
    PROVE  Landed(u)
  <1>1. PICK r, others, above, old, new :
            /\ r = t.req /\ others = Others(t) /\ above = t.above
            /\ old = Rows(t) /\ new = Rows(u)
    OBVIOUS
  <1>2. /\ r \in Req /\ others \in SUBSET (Req \ {r}) /\ above \in SUBSET others
        /\ old \in [Req -> Row] /\ new \in [Req -> Row]
        /\ \A q \in others : new[q] = old[q]
        /\ \A q \in Req : old[q] = See(t, q) /\ new[q] = See(u, q)
    <2>1. r \in Req /\ others \in SUBSET (Req \ {r})
      BY <1>1 DEF Tx, Others, Column
    <2>2. above \in SUBSET others
      BY <1>1 DEF Undisturbed, Aligned
    <2>3. old \in [Req -> Row] /\ new \in [Req -> Row]
      BY <1>1, SeeTyped DEF TypeOK
    <2>4. \A q \in Req : old[q] = See(t, q) /\ new[q] = See(u, q)
      BY <1>1 DEF Rows
    <2> QED BY <2>1, <2>2, <2>3, <2>4, <1>1
  <1>3. Others(u) = others
    BY <1>1 DEF Others, Target
  <1>4. \A q, v \in others : Above(old, q, v) <=> Above(requirement, q, v)
    <2>1. FirstPass(t) \/ (Renumbered(t) /\ t.ranked = Nothing)
      <3>1. t.pass \in {1, 2} /\ t.ranked = Nothing
        BY DEF Tx, Held, Written
      <3> QED BY <3>1 DEF Undisturbed
    <2> QED BY <2>1, <1>1, OthersInOrder
  <1>5. \A q, v \in others : Above(new, q, v) <=> Above(requirement, q, v)
    BY <1>2, <1>4 DEF Above
  <1>6. \A q \in others : Above(new, q, r) <=> q \in above
    <2>1. CASE t.before # None \/ t.after # None
      <3>1. /\ new[r].board_position = NewPosition(t)
            /\ t.before # None => old[t.before].board_position < NewPosition(t)
            /\ t.after # None => NewPosition(t) < old[t.after].board_position
        <4>1. t.before \in Req \cup {None} /\ t.after \in Req \cup {None}
          BY DEF Tx
        <4> QED BY <2>1, <4>1, <1>1, <1>2, RoomForTheCard
      <3>2. PICK before, after, below :
                before = t.before /\ after = t.after /\ below = others \ above
        OBVIOUS
      <3>3. IF before = None THEN above = {}
            ELSE /\ before \in above
                 /\ \A q \in above \ {before} : Above(new, q, before)
                 /\ new[before].board_position < new[r].board_position
        BY <2>1, <3>1, <3>2, <1>1, <1>2, <1>5 DEF Undisturbed, Aligned
      <3>4. IF after = None THEN below = {}
            ELSE /\ after \in below
                 /\ \A q \in below \ {after} : Above(new, after, q)
                 /\ new[r].board_position < new[after].board_position
        BY <2>1, <3>1, <3>2, <1>1, <1>2, <1>5 DEF Undisturbed, Aligned
      <3>5. above \in SUBSET Req /\ below \in SUBSET Req
        BY <3>2, <1>2
      <3>6. \A q \in above : Above(new, q, r)
        BY <3>3, <3>5, <1>2, BelowTheLowest
      <3>7. \A q \in below : ~ Above(new, q, r)
        BY <3>4, <3>5, <1>2, AboveTheHighest
      <3> QED BY <3>2, <3>6, <3>7
    <2>2. CASE t.before = None /\ t.after = None
      <3>1. t.to # None /\ above = others
        BY <2>2, <1>1, <1>2 DEF Undisturbed, Aligned
      <3>2. FirstPass(t)
        <4>1. t.pass \in {1, 2}
          BY DEF Tx
        <4> QED BY <4>1, <2>2 DEF Undisturbed
      <3>3. \A q \in others : old[q] = requirement[q]
        BY <3>2, <1>1, <1>2 DEF FirstPass, See
      <3>4. \A q \in others : new[q].board_position < new[r].board_position
        BY <2>2, <3>1, <3>2, <3>3, <1>1, <1>2 DEF FirstPass
      <3> QED BY <3>1, <3>4 DEF Above
    <2> QED BY <2>1, <2>2
  <1> QED
    BY <1>1, <1>3, <1>5, <1>6 DEF Landed

LEMMA PlaceStep ==
    ASSUME IInv, NEW s \in Session, Place(s)
    PROVE  IInv'
  <1>1. PICK t, r, row, w, u :
            /\ t = tx[s] /\ r = t.req
            /\ row = [See(t, r) EXCEPT !.board_position = NewPosition(t)]
            /\ w = IF t.before_pos = None /\ t.after_pos = None
                   THEN t.writes ELSE [t.writes EXCEPT ![r] = row]
            /\ u = [t EXCEPT !.pc = "commit", !.writes = w]
    OBVIOUS
  <1>2. t.pc = "place" /\ ~ TooClose(t) /\ UNCHANGED <<requirement, row_lock, drops>>
    BY <1>1 DEF Place
  <1>3. /\ TypeOK /\ ClosedAtAgrees
        /\ t \in Tx /\ Held(s, t) /\ (t.alone => Undisturbed(t))
    BY <1>1, <1>2, ServingOK
  <1>4. tx' = [tx EXCEPT ![s] = u]
    <2>1. Seen(s, t.req) = See(t, t.req)
      BY <1>1 DEF Seen, See
    <2> QED BY <2>1, <1>1, <1>3 DEF Place, TypeOK, Tx
  <1>5. /\ r \in Req /\ requirement \in [Req -> Row] /\ Exists(r)
        /\ t.writes \in [Req -> Row \cup {None}]
        /\ See(t, r) \in Row /\ Fits(See(t, r)) /\ See(t, r).status_id = Target(t)
        /\ row_lock[r] = s
    <2>1. r \in Req /\ requirement \in [Req -> Row] /\ t.writes \in [Req -> Row \cup {None}]
      BY <1>1, <1>3 DEF TypeOK, Tx
    <2>2. Exists(r) /\ row_lock[r] = s
      BY <1>1, <1>2, <1>3 DEF Held, Written, Locked
    <2>3. See(t, r) \in Row
      BY <2>1, <1>3, SeeTyped
    <2>4. Fits(See(t, r))
      BY <2>1, <2>2, <1>3, SeenFits
    <2>5. See(t, r).status_id = Target(t)
      BY <1>1, <1>2, <1>3, StatusesSeen
    <2> QED BY <2>1, <2>2, <2>3, <2>4, <2>5
  <1>6. t.before_pos # None \/ t.after_pos # None =>
            /\ row \in Row /\ row # None /\ Fits(row)
            /\ row.status_id = Target(t) /\ row.board_position = NewPosition(t)
    <2>1. SUFFICES ASSUME t.before_pos # None \/ t.after_pos # None
                   PROVE  /\ row \in Row /\ row # None /\ Fits(row)
                          /\ row.status_id = Target(t) /\ row.board_position = NewPosition(t)
      OBVIOUS
    <2>2. PICK p \in Int : p = NewPosition(t)
      BY <2>1, <1>3, NewPositionTyped
    <2>3. PICK old \in Row : old = See(t, r)
      BY <1>5
    <2>4. row = [old EXCEPT !.board_position = p]
      BY <1>1, <2>2, <2>3
    <2>5. /\ row \in Row /\ row.status_id = old.status_id /\ row.board_position = p
          /\ row.closed_at = old.closed_at
      BY <2>4 DEF Row
    <2>6. Fits(row)
      BY <2>3, <2>5, <1>5 DEF Fits
    <2> QED BY <2>2, <2>3, <2>5, <2>6, <1>5, NoneAssumption
  <1>7. w \in [Req -> Row \cup {None}] /\ \A q \in Req \ {r} : w[q] = t.writes[q]
    BY <1>1, <1>5, <1>6
  <1>8. /\ u \in Tx
        /\ u.pc = "commit" /\ u.writes = w
        /\ u.req = r /\ u.to = t.to /\ u.before = t.before /\ u.after = t.after
        /\ u.pass = t.pass /\ u.ranked = t.ranked /\ u.above = t.above
        /\ u.alone => t.alone
    <2>1. u = [t EXCEPT !.pc = "commit", !.writes = w] /\ r = t.req /\ t \in Tx
      BY <1>1, <1>3
    <2> QED BY <2>1, <1>7 DEF Tx
  <1>9. /\ \A q \in Req \ {r} : See(u, q) = See(t, q)
        /\ t.before_pos = None /\ t.after_pos = None => See(u, r) = See(t, r)
        /\ t.before_pos # None \/ t.after_pos # None => See(u, r) = row /\ w[r] = row
    <2>1. \A q \in Req \ {r} : See(u, q) = See(t, q)
      BY <1>7, <1>8 DEF See
    <2>2. ASSUME t.before_pos = None /\ t.after_pos = None
          PROVE  w = t.writes
      BY <1>1, <2>2
    <2>3. ASSUME t.before_pos # None \/ t.after_pos # None
          PROVE  w[r] = row
      <3>1. w = [t.writes EXCEPT ![r] = row]
        BY <1>1, <2>3
      <3> QED BY <3>1, <1>5
    <2> QED BY <2>1, <2>2, <2>3, <1>6, <1>8 DEF See
  <1>10. Target(u) = Target(t)
    BY <1>1, <1>8 DEF Target
  <1>11. Locked(s, u)'
    BY <1>1, <1>2, <1>3, <1>5, <1>7, <1>8 DEF Locked, Held
  <1>12. Written(u)
    <2>1. See(u, u.req).status_id = Target(u)
      BY <1>5, <1>6, <1>8, <1>9, <1>10
    <2>2. /\ \A q \in Req : t.ranked[q] # None => Exists(q)
          /\ t.ranked = Nothing
          /\ \A q \in Req : t.writes[q] # None =>
                /\ Exists(q) /\ Fits(t.writes[q])
                /\ q # r => t.writes[q].status_id = requirement[q].status_id
      BY <1>1, <1>2, <1>3 DEF Held, Written
    <2>3. w[r] # None => Fits(w[r])
      BY <2>2, <1>1, <1>5, <1>6, <1>9
    <2> QED BY <2>1, <2>2, <2>3, <1>5, <1>7, <1>8 DEF Written
  <1>13. ASSUME u.alone
         PROVE  Undisturbed(u)
    <2>1. Undisturbed(t)
      BY <1>3, <1>8, <1>13
    <2>2. Aligned(u)
      <3>1. Others(u) = Others(t)
        BY <1>1, <1>8, <1>10 DEF Others
      <3> QED BY <2>1, <3>1, <1>1, <1>8 DEF Undisturbed, Aligned
    <2>3. /\ t.before_pos = None <=> t.before = None
          /\ t.after_pos = None <=> t.after = None
      <3>1. t.before \in Req \cup {None} /\ t.after \in Req \cup {None}
        BY <1>3 DEF Tx
      <3>2. \A q \in Req : See(t, q).board_position # None
        BY <1>3, SeeTyped, BoardAssumption DEF TypeOK, Row
      <3> QED BY <3>1, <3>2, <2>1, <1>2 DEF Undisturbed, PositionOf
    <2>4. See(u, t.req).board_position = IF t.before = None /\ t.after = None
                                         THEN See(t, t.req).board_position ELSE NewPosition(t)
      BY <2>3, <1>1, <1>6, <1>9
    <2>5. Landed(u)
      <3>1. /\ u \in Tx /\ u.req = t.req /\ u.to = t.to /\ u.above = t.above
            /\ \A q \in Req \ {t.req} : See(u, q) = See(t, q)
        BY <1>1, <1>8, <1>9
      <3> QED BY <2>1, <2>4, <3>1, <1>2, <1>3, PlacedHasLanded
    <2> QED BY <2>1, <2>2, <2>5, <1>8 DEF Undisturbed
  <1>14. /\ row_lock' \in [Req -> Session \cup {None}]
         /\ \A q \in Req, v \in Session \ {s} : row_lock[q] = v => row_lock'[q] = v
         /\ UNCHANGED <<requirement, drops>>
    BY <1>2, <1>3 DEF TypeOK
  <1> QED
    BY <1>4, <1>8, <1>11, <1>12, <1>13, <1>14, ServeStep

LEMMA RebalanceStep ==
    ASSUME IInv, NEW s \in Session, Rebalance(s)
    PROVE  IInv'
  <1>1. PICK t, rk, u, rows, status :
            /\ t = tx[s] /\ rk = Ranking(s) /\ u = [t EXCEPT !.pc = "renumber", !.ranked = rk]
            /\ rows = Rows(t) /\ status = Target(t)
    OBVIOUS
  <1>2. t.pc = "place" /\ TooClose(t) /\ UNCHANGED <<requirement, row_lock, drops>>
    BY <1>1 DEF Rebalance
  <1>3. /\ TypeOK
        /\ t \in Tx /\ Held(s, t) /\ (t.alone => Undisturbed(t))
    BY <1>1, <1>2, ServingOK
  <1>4. tx' = [tx EXCEPT ![s] = u]
    BY <1>1, <1>3 DEF Rebalance, TypeOK, Tx
  <1>5. /\ rows \in [Req -> Row] /\ status # None
        /\ Column(rows, status) = Others(t) \cup {t.req}
        /\ \A r \in Column(rows, status) : r \in Req /\ Exists(r)
    <2>1. rows \in [Req -> Row]
      BY <1>1, <1>3, SeeTyped DEF TypeOK
    <2>2. /\ status # None /\ Column(rows, status) = Others(t) \cup {t.req}
          /\ \A r \in Req : See(t, r).status_id # None <=> Exists(r)
      BY <1>1, <1>2, <1>3, StatusesSeen, BoardAssumption
    <2> QED BY <2>1, <2>2, <1>1 DEF Column, Rows
  <1>6. rk = [r \in Req |-> IF r \in Column(rows, status) THEN RowNumber(rows, status, r) ELSE None]
    <2>1. \A r : Seen(s, r) = See(t, r)
      BY <1>1 DEF Seen, See
    <2>2. View(s) = rows
      BY <2>1, <1>1 DEF View, Rows
    <2>3. Seen(s, tx[s].req).status_id = status
      BY <2>1, <1>1, <1>2, <1>3, StatusesSeen
    <2> QED BY <2>2, <2>3, <1>1 DEF Ranking
  <1>7. \A r \in Column(rows, status) : RowNumber(rows, status, r) \in Nat
    BY <1>5, RowNumberIsOrder
  <1>8. rk \in [Req -> Nat \cup {None}] /\ \A r \in Req : rk[r] # None => Exists(r)
    BY <1>5, <1>6, <1>7
  <1>9. /\ u \in Tx
        /\ u.pc = "renumber" /\ u.ranked = rk
        /\ u.req = t.req /\ u.to = t.to /\ u.before = t.before /\ u.after = t.after
        /\ u.pass = t.pass /\ u.writes = t.writes /\ u.above = t.above
        /\ u.alone => t.alone
    <2>1. u = [t EXCEPT !.pc = "renumber", !.ranked = rk] /\ t \in Tx
      BY <1>1, <1>3
    <2> QED BY <2>1, <1>8 DEF Tx
  <1>10. /\ \A r : See(u, r) = See(t, r)
         /\ Target(u) = Target(t) /\ Others(u) = Others(t)
    BY <1>9 DEF See, Target, Others
  <1>11. Locked(s, u)'
    BY <1>2, <1>3, <1>9 DEF Held, Locked
  <1>12. Written(u)
    BY <1>2, <1>3, <1>8, <1>9, <1>10 DEF Held, Written
  <1>13. ASSUME u.alone
         PROVE  Undisturbed(u)
    <2>1. Undisturbed(t)
      BY <1>3, <1>9, <1>13
    <2>2. Aligned(u)
      BY <2>1, <1>9, <1>10 DEF Undisturbed, Aligned
    <2>3. u.before # None /\ u.after # None
      BY <2>1, <1>2, <1>9 DEF Undisturbed, TooClose, PositionOf
    <2>4. Renumbered(u)
      <3>1. \A q, v \in Others(t) : Above(rows, q, v) <=> Above(requirement, q, v)
        <4>1. FirstPass(t)
          BY <2>1, <1>2 DEF Undisturbed, TooClose
        <4> QED BY <4>1, <1>1, <1>3, OthersInOrder
      <3>2. PICK rank \in [Req -> Nat] :
                \A r \in Column(rows, status) : rank[r] = RowNumber(rows, status, r)
        <4> DEFINE rank == [ r \in Req |-> IF r \in Column(rows, status)
                                          THEN RowNumber(rows, status, r) ELSE 0 ]
        <4>1. rank \in [Req -> Nat]
          BY <1>7
        <4>2. \A r \in Column(rows, status) : rank[r] = RowNumber(rows, status, r)
          BY <1>5
        <4> HIDE DEF rank
        <4> QED BY <4>1, <4>2
      <3>3. \A q, v \in Others(t) : Above(requirement, q, v) <=> rank[q] < rank[v]
        <4>1. SUFFICES ASSUME NEW q \in Others(t), NEW v \in Others(t)
                       PROVE  Above(requirement, q, v) <=> rank[q] < rank[v]
          OBVIOUS
        <4>2. q \in Column(rows, status) /\ v \in Column(rows, status)
          BY <1>5
        <4>3. Above(rows, q, v) <=> RowNumber(rows, status, q) < RowNumber(rows, status, v)
          BY <4>2, <1>5, RowNumberIsOrder
        <4> QED BY <4>2, <4>3, <3>1, <3>2
      <3>4. \A q \in Others(t) : u.ranked[q] # None /\ u.ranked[q] = rank[q]
        <4>1. SUFFICES ASSUME NEW q \in Others(t)
                       PROVE  u.ranked[q] # None /\ u.ranked[q] = rank[q]
          OBVIOUS
        <4>2. q \in Column(rows, status) /\ q \in Req
          BY <1>5
        <4>3. /\ rk[q] = RowNumber(rows, status, q) /\ RowNumber(rows, status, q) \in Nat
              /\ None \notin Nat
          BY <4>2, <1>6, <1>7, BoardAssumption
        <4> QED BY <4>2, <4>3, <3>2, <1>9
      <3> QED BY <3>3, <3>4, <1>10 DEF Renumbered
    <2> QED BY <2>1, <2>2, <2>3, <2>4, <1>9 DEF Undisturbed
  <1>14. /\ row_lock' \in [Req -> Session \cup {None}]
         /\ \A q \in Req, v \in Session \ {s} : row_lock[q] = v => row_lock'[q] = v
         /\ UNCHANGED <<requirement, drops>>
    BY <1>2, <1>3 DEF TypeOK
  <1> QED
    BY <1>4, <1>9, <1>11, <1>12, <1>13, <1>14, ServeStep

LEMMA RenumberStep ==
    ASSUME IInv, NEW s \in Session, NEW r \in Req, Renumber(s, r)
    PROVE  IInv'
  <1>1. PICK t, row, w, rk, u :
            /\ t = tx[s]
            /\ row = [See(t, r) EXCEPT !.board_position = t.ranked[r] * Step]
            /\ w = [t.writes EXCEPT ![r] = row] /\ rk = [t.ranked EXCEPT ![r] = None]
            /\ u = [t EXCEPT !.writes = w, !.ranked = rk]
    OBVIOUS
  <1>2. /\ t.pc = "renumber" /\ t.ranked[r] # None /\ row_lock[r] \in {None, s}
        /\ row_lock' = [row_lock EXCEPT ![r] = s] /\ UNCHANGED <<requirement, drops>>
    BY <1>1 DEF Renumber
  <1>3. /\ TypeOK /\ ClosedAtAgrees
        /\ t \in Tx /\ Held(s, t) /\ (t.alone => Undisturbed(t))
    BY <1>1, <1>2, ServingOK
  <1>4. tx' = [tx EXCEPT ![s] = u]
    <2>1. Seen(s, r) = See(t, r)
      BY <1>1 DEF Seen, See
    <2>2. tx' = [tx EXCEPT ![s].writes[r] = row, ![s].ranked[r] = None]
      BY <2>1, <1>1 DEF Renumber
    <2> QED BY <2>2, <1>1, <1>3 DEF TypeOK, Tx
  <1>5. /\ t.writes \in [Req -> Row \cup {None}] /\ t.ranked \in [Req -> Nat \cup {None}]
        /\ row_lock \in [Req -> Session \cup {None}] /\ None \notin Session
        /\ Exists(t.req) /\ Exists(r) /\ t.req \in Req /\ Step \in Nat
    BY <1>2, <1>3, BoardAssumption DEF TypeOK, Tx, Held, Written
  <1>6. /\ row \in Row /\ row # None /\ Fits(row)
        /\ row.status_id = See(t, r).status_id /\ row.board_position = t.ranked[r] * Step
    <2>1. PICK old \in Row : old = See(t, r) /\ Fits(old)
      BY <1>3, <1>5, SeeTyped, SeenFits DEF TypeOK
    <2>2. PICK p \in Int : p = t.ranked[r] * Step
      BY <1>2, <1>5
    <2>3. row = [old EXCEPT !.board_position = p]
      BY <2>1, <2>2, <1>1
    <2>4. /\ row \in Row /\ row.status_id = old.status_id /\ row.closed_at = old.closed_at
          /\ row.board_position = p
      BY <2>3 DEF Row
    <2>5. Fits(row)
      BY <2>1, <2>4 DEF Fits
    <2> QED BY <2>1, <2>2, <2>4, <2>5, NoneAssumption
  <1>7. /\ w \in [Req -> Row \cup {None}] /\ w[r] = row
        /\ \A q \in Req \ {r} : w[q] = t.writes[q]
        /\ rk \in [Req -> Nat \cup {None}] /\ rk[r] = None
        /\ \A q \in Req \ {r} : rk[q] = t.ranked[q]
    BY <1>1, <1>5, <1>6
  <1>8. /\ u \in Tx
        /\ u.pc = "renumber" /\ u.ranked = rk /\ u.writes = w
        /\ u.req = t.req /\ u.to = t.to /\ u.before = t.before /\ u.after = t.after
        /\ u.pass = t.pass /\ u.above = t.above
        /\ u.alone => t.alone
    <2>1. u = [t EXCEPT !.writes = w, !.ranked = rk] /\ t \in Tx
      BY <1>1, <1>3
    <2> QED BY <2>1, <1>2, <1>7 DEF Tx
  <1>9. /\ See(u, r) = row /\ \A q \in Req \ {r} : See(u, q) = See(t, q)
        /\ \A q \in Req : See(u, q).status_id = See(t, q).status_id
    <2>1. See(u, r) = row
      BY <1>6, <1>7, <1>8 DEF See
    <2>2. \A q \in Req \ {r} : See(u, q) = See(t, q)
      BY <1>7, <1>8 DEF See
    <2> QED BY <2>1, <2>2, <1>6
  <1>10. Target(u) = Target(t) /\ Others(u) = Others(t)
    BY <1>8 DEF Target, Others
  <1>11. Locked(s, u)'
    BY <1>2, <1>3, <1>5, <1>7, <1>8 DEF Held, Locked
  <1>12. Written(u)
    <2>1. r # t.req => row.status_id = requirement[r].status_id
      BY <1>2, <1>3, <1>6, StatusesSeen
    <2>2. See(u, u.req).status_id = Target(u)
      BY <1>2, <1>3, <1>5, <1>8, <1>9, <1>10, StatusesSeen
    <2>3. \A q \in Req : rk[q] # None => Exists(q)
      BY <1>3, <1>7 DEF Held, Written
    <2>4. \A q \in Req : w[q] # None =>
            /\ Exists(q) /\ Fits(w[q])
            /\ q # t.req => w[q].status_id = requirement[q].status_id
      BY <2>1, <1>3, <1>5, <1>6, <1>7 DEF Held, Written
    <2> QED BY <2>2, <2>3, <2>4, <1>5, <1>8 DEF Written
  <1>13. ASSUME u.alone
         PROVE  Undisturbed(u)
    <2>1. Undisturbed(t)
      BY <1>3, <1>8, <1>13
    <2>2. Aligned(u)
      BY <2>1, <1>8, <1>10 DEF Undisturbed, Aligned
    <2>3. PICK rank \in [Req -> Nat] :
            /\ \A q, v \in Others(t) : Above(requirement, q, v) <=> rank[q] < rank[v]
            /\ \A q \in Others(t) :
                IF t.ranked[q] = None THEN See(t, q).board_position = rank[q] * Step
                                      ELSE t.ranked[q] = rank[q]
      BY <2>1, <1>2 DEF Undisturbed, Renumbered
    <2>4. \A q \in Others(u) : IF u.ranked[q] = None THEN See(u, q).board_position = rank[q] * Step
                                                     ELSE u.ranked[q] = rank[q]
      <3>1. SUFFICES ASSUME NEW q \in Others(t)
                     PROVE  IF rk[q] = None THEN See(u, q).board_position = rank[q] * Step
                                            ELSE rk[q] = rank[q]
        BY <1>8, <1>10
      <3>2. q \in Req
        BY DEF Others, Column
      <3>3. CASE q = r
        BY <3>3, <2>3, <1>2, <1>6, <1>7, <1>9
      <3>4. CASE q # r
        BY <3>2, <3>4, <2>3, <1>7, <1>9
      <3> QED BY <3>3, <3>4
    <2>5. Renumbered(u)
      BY <2>3, <2>4, <1>10 DEF Renumbered
    <2> QED BY <2>1, <2>2, <2>5, <1>2, <1>8 DEF Undisturbed
  <1>14. /\ row_lock' \in [Req -> Session \cup {None}]
         /\ \A q \in Req, v \in Session \ {s} : row_lock[q] = v => row_lock'[q] = v
    BY <1>2, <1>5
  <1> QED
    BY <1>2, <1>4, <1>8, <1>11, <1>12, <1>13, <1>14, ServeStep

LEMMA SecondPassStep ==
    ASSUME IInv, NEW s \in Session, SecondPass(s)
    PROVE  IInv'
  <1>1. PICK t, u : t = tx[s] /\ u = [t EXCEPT !.pc = "before", !.pass = 2]
    OBVIOUS
  <1>2. t.pc = "renumber" /\ t.ranked = Nothing /\ UNCHANGED <<requirement, row_lock, drops>>
    BY <1>1 DEF SecondPass
  <1>3. /\ TypeOK
        /\ t \in Tx /\ Held(s, t) /\ (t.alone => Undisturbed(t))
    BY <1>1, <1>2, ServingOK
  <1>4. tx' = [tx EXCEPT ![s] = u]
    BY <1>1, <1>3 DEF SecondPass, TypeOK, Tx
  <1>5. /\ u \in Tx
        /\ u.pc = "before" /\ u.pass = 2
        /\ u.req = t.req /\ u.to = t.to /\ u.before = t.before /\ u.after = t.after
        /\ u.ranked = t.ranked /\ u.writes = t.writes /\ u.above = t.above
        /\ u.alone => t.alone
    BY <1>1, <1>3 DEF Tx
  <1>6. /\ \A r : See(u, r) = See(t, r)
        /\ Target(u) = Target(t) /\ Others(u) = Others(t)
    BY <1>5 DEF See, Target, Others
  <1>7. Locked(s, u)'
    BY <1>2, <1>3, <1>5 DEF Held, Locked
  <1>8. Written(u)
    BY <1>2, <1>3, <1>5, <1>6 DEF Held, Written
  <1>9. ASSUME u.alone
        PROVE  Undisturbed(u)
    <2>1. Undisturbed(t)
      BY <1>3, <1>5, <1>9
    <2>2. Aligned(u)
      BY <2>1, <1>5, <1>6 DEF Undisturbed, Aligned
    <2>3. Renumbered(u)
      BY <2>1, <1>2, <1>5, <1>6 DEF Undisturbed, Renumbered
    <2> QED BY <2>1, <2>2, <2>3, <1>2, <1>5 DEF Undisturbed
  <1>10. /\ row_lock' \in [Req -> Session \cup {None}]
         /\ \A q \in Req, v \in Session \ {s} : row_lock[q] = v => row_lock'[q] = v
         /\ UNCHANGED <<requirement, drops>>
    BY <1>2, <1>3 DEF TypeOK
  <1> QED
    BY <1>4, <1>5, <1>7, <1>8, <1>9, <1>10, ServeStep

LEMMA AbortStep ==
    ASSUME IInv, NEW s \in Session, Abort(s)
    PROVE  IInv'
  <1>1. PICK t \in Tx \cup {Idle} : t = Idle
    OBVIOUS
  <1>2. /\ tx' = [tx EXCEPT ![s] = t] /\ row_lock' = Unlocked(s)
        /\ requirement' = requirement /\ drops' = drops
    BY <1>1 DEF Abort
  <1>3. /\ row_lock' \in [Req -> Session \cup {None}]
        /\ \A q \in Req, v \in Session \ {s} : row_lock[q] = v => row_lock'[q] = v
    BY <1>2 DEF IInv, TypeOK, Unlocked
  <1>4. TxOK(s, t)'
    BY <1>1 DEF TxOK, Idle
  <1>5. drops' \in 0..MaxDrops
    BY <1>2 DEF IInv, TypeOK
  <1> QED
    BY <1>2, <1>3, <1>4, <1>5, OwnStep

--------------------------------------------------------------------------------
(* Steps that commit *)

\* A request that has been overtaken still holds what it has written: a step that commits
\* creates cards and changes rows that it does not hold.
LEMMA Overtaken ==
    ASSUME IInv, NEW v \in Session, NEW x, x = tx[v], x # Idle,
           NEW y, y = [x EXCEPT !.alone = FALSE],
           \A r \in Req : Exists(r) => requirement'[r].status_id # None,
           \A r \in Req : row_lock[r] = v =>
                row_lock'[r] = v /\ (Exists(r) => requirement'[r] = requirement[r])
    PROVE  y \in Tx /\ TxOK(v, y)'
  <1>1. x \in Tx /\ Held(v, x)
    BY DEF IInv, TypeOK, TxOK
  <1>2. /\ y \in Tx
        /\ y.pc = x.pc /\ y.req = x.req /\ y.to = x.to /\ y.pass = x.pass
        /\ y.ranked = x.ranked /\ y.writes = x.writes
        /\ ~ y.alone
    BY <1>1 DEF Tx
  <1>3. /\ x.req \in Req /\ Exists(x.req)
        /\ \A r \in Req : x.ranked[r] # None => Exists(r)
        /\ \A r \in Req : x.writes[r] # None => Exists(r) /\ row_lock[r] = v
        /\ x.pc # "sent" => row_lock[x.req] = v
    BY <1>1 DEF Held, Locked, Written, Tx
  <1>4. Locked(v, y)'
    BY <1>2, <1>3 DEF Locked
  <1>5. /\ Exists(x.req)'
        /\ \A r \in Req : x.ranked[r] # None => Exists(r)'
        /\ \A r \in Req : x.writes[r] # None =>
                Exists(r)' /\ requirement'[r] = requirement[r]
        /\ x.pc # "sent" => requirement'[x.req] = requirement[x.req]
    BY <1>3 DEF Exists
  <1>6. x.pc # "sent" => See(x, x.req)' = See(x, x.req) /\ Target(x)' = Target(x)
    BY <1>5 DEF See, Target
  <1>7. Written(y)'
    <2>1. /\ \A r \in Req : x.writes[r] # None =>
                /\ Fits(x.writes[r])
                /\ r # x.req => x.writes[r].status_id = requirement[r].status_id
          /\ IF x.pc = "sent" THEN x.writes = Nothing /\ x.pass = 1
                              ELSE See(x, x.req).status_id = Target(x)
          /\ x.pc # "renumber" => x.ranked = Nothing
      BY <1>1 DEF Held, Written
    <2>2. See(y, y.req)' = See(x, x.req)' /\ Target(y)' = Target(x)'
      BY <1>2 DEF See, Target
    <2> QED BY <2>1, <2>2, <1>2, <1>5, <1>6 DEF Written, Fits
  <1> QED
    BY <1>2, <1>4, <1>7 DEF TxOK, Held

LEMMA CommitStep ==
    ASSUME IInv, NEW s \in Session, Commit(s)
    PROVE  IInv'
  <1>1. PICK t : t = tx[s]
    OBVIOUS
  <1>2. /\ t.pc = "commit" /\ row_lock' = Unlocked(s) /\ tx' = Disturb(s) /\ drops' = drops
        /\ requirement' = View(s)
    BY <1>1 DEF Commit
  <1>3. TypeOK /\ ClosedAtAgrees /\ t \in Tx /\ Held(s, t)
    BY <1>1, <1>2, ServingOK
  <1>4. requirement' = Rows(t)
    BY <1>1, <1>2 DEF View, Seen, Rows, See
  <1>5. /\ requirement' \in [Req -> Row]
        /\ \A r \in Req : requirement'[r] = See(t, r)
        /\ \A r \in Req : Exists(r)' <=> Exists(r)
    <2>1. requirement' \in [Req -> Row]
      BY <1>3, <1>4, SeeTyped DEF TypeOK
    <2>2. \A r \in Req : requirement'[r] = See(t, r)
      BY <1>4 DEF Rows
    <2>3. \A r \in Req : See(t, r).status_id # None <=> Exists(r)
      BY <1>2, <1>3, StatusesSeen
    <2> QED BY <2>1, <2>2, <2>3 DEF Exists
  <1>6. ClosedAtAgrees'
    <2>1. SUFFICES ASSUME NEW r \in Req, Exists(r)
                   PROVE  requirement'[r].closed_at <=> requirement'[r].status_id \in Closed
      BY <1>5 DEF ClosedAtAgrees
    <2>2. Fits(See(t, r))
      BY <2>1, <1>3, SeenFits
    <2> QED BY <2>2, <1>5 DEF Fits
  <1>7. ASSUME NEW v \in Session, v # s, tx[v] # Idle
        PROVE  [tx[v] EXCEPT !.alone = FALSE] \in Tx /\ \A y \in {tx'[v]} : TxOK(v, y)'
    <2>1. PICK x, y : x = tx[v] /\ y = [x EXCEPT !.alone = FALSE]
      OBVIOUS
    <2>2. tx'[v] = y
      BY <2>1, <1>2, <1>7 DEF Disturb
    <2>3. ASSUME NEW r \in Req, row_lock[r] = v
          PROVE  row_lock'[r] = v /\ requirement'[r] = requirement[r]
      <3>1. t.writes[r] = None
        BY <2>3, <1>3, <1>7 DEF Held, Locked
      <3> QED BY <2>3, <3>1, <1>2, <1>5, <1>7 DEF Unlocked, See
    <2>4. \A r \in Req : Exists(r) => requirement'[r].status_id # None
      BY <1>5 DEF Exists
    <2>5. y \in Tx /\ TxOK(v, y)'
      BY <2>1, <2>3, <2>4, <1>7, Overtaken
    <2> QED BY <2>1, <2>2, <2>5
  <1>8. ASSUME NEW v \in Session
        PROVE  tx'[v] \in Tx \cup {Idle} /\ \A y \in {tx'[v]} : TxOK(v, y)'
    <2>1. CASE v = s \/ tx[v] = Idle
      <3>1. tx'[v] = Idle
        BY <2>1, <1>2 DEF Disturb
      <3>2. PICK y : y = Idle
        OBVIOUS
      <3> QED BY <3>1, <3>2 DEF TxOK, Idle
    <2>2. CASE v # s /\ tx[v] # Idle
      <3>1. tx'[v] = [tx[v] EXCEPT !.alone = FALSE]
        BY <2>2, <1>2 DEF Disturb
      <3> QED BY <2>2, <3>1, <1>7
    <2> QED BY <2>1, <2>2
  <1>9. TypeOK'
    <2>1. tx' \in [Session -> Tx \cup {Idle}]
      BY <1>2, <1>8 DEF Disturb
    <2>2. row_lock' \in [Req -> Session \cup {None}] /\ drops' \in 0..MaxDrops
      BY <1>2, <1>3 DEF TypeOK, Unlocked
    <2> QED BY <2>1, <2>2, <1>5 DEF TypeOK
  <1> QED
    BY <1>6, <1>8, <1>9 DEF IInv

LEMMA CreateStep ==
    ASSUME IInv, NEW r \in Req, NEW status \in Status, Create(r, status)
    PROVE  IInv'
  <1>1. PICK p \in Int : p = BottomPosition(requirement, status, r)
    BY BottomIsBelow DEF IInv, TypeOK
  <1>2. PICK c \in BOOLEAN : c <=> status \in Closed
    OBVIOUS
  <1>3. PICK row : row = [ status_id |-> status, board_position |-> p, closed_at |-> c ]
    OBVIOUS
  <1>4. row \in Row /\ row.status_id = status /\ (row.closed_at <=> status \in Closed)
    BY <1>2, <1>3 DEF Row
  <1>5. /\ requirement' = [requirement EXCEPT ![r] = row] /\ ~ Exists(r)
        /\ tx' = Disturb(None) /\ UNCHANGED <<row_lock, drops>>
    BY <1>1, <1>2, <1>3 DEF Create
  <1>6. /\ TypeOK /\ ClosedAtAgrees /\ None \notin Status /\ None \notin Session
        /\ requirement \in [Req -> Row] /\ requirement' \in [Req -> Row]
        /\ requirement'[r] = row /\ \A q \in Req \ {r} : requirement'[q] = requirement[q]
    BY <1>4, <1>5, BoardAssumption DEF IInv, TypeOK
  <1>7. ClosedAtAgrees'
    BY <1>4, <1>6 DEF ClosedAtAgrees, Exists
  <1>8. \A q \in Req : Exists(q) => /\ requirement'[q] = requirement[q]
                                    /\ requirement'[q].status_id # None
    BY <1>5, <1>6 DEF Exists
  <1>9. ASSUME NEW v \in Session
        PROVE  tx'[v] \in Tx \cup {Idle} /\ \A y \in {tx'[v]} : TxOK(v, y)'
    <2>1. CASE tx[v] = Idle
      <3>1. tx'[v] = Idle
        BY <2>1, <1>5 DEF Disturb
      <3>2. PICK y : y = Idle
        OBVIOUS
      <3> QED BY <3>1, <3>2 DEF TxOK, Idle
    <2>2. CASE tx[v] # Idle
      <3>1. PICK x, y : x = tx[v] /\ y = [x EXCEPT !.alone = FALSE]
        OBVIOUS
      <3>2. tx'[v] = y
        BY <2>2, <3>1, <1>5, <1>6 DEF Disturb
      <3>3. \A q \in Req : row_lock[q] = v =>
                row_lock'[q] = v /\ (Exists(q) => requirement'[q] = requirement[q])
        BY <1>5, <1>8
      <3>4. y \in Tx /\ TxOK(v, y)'
        BY <2>2, <3>1, <3>3, <1>8, Overtaken
      <3> QED BY <3>1, <3>2, <3>4
    <2> QED BY <2>1, <2>2
  <1>10. TypeOK'
    <2>1. tx' \in [Session -> Tx \cup {Idle}]
      BY <1>5, <1>9 DEF Disturb
    <2> QED BY <2>1, <1>5, <1>6 DEF TypeOK
  <1> QED
    BY <1>7, <1>9, <1>10 DEF IInv

--------------------------------------------------------------------------------
(* The theorems *)

LEMMA InitOK == Init => IInv
  <1> SUFFICES ASSUME Init
               PROVE  IInv
    OBVIOUS
  <1>0. PICK R \in SUBSET Req : \E status \in [R -> Status] :
            requirement = [r \in Req |->
                [ status_id |-> IF r \in R THEN status[r] ELSE None,
                  board_position |-> InitPosition[r],
                  closed_at |-> r \in R /\ status[r] \in Closed ]]
    BY DEF Init
  <1>1. PICK status \in [R -> Status] :
            requirement = [r \in Req |->
                [ status_id |-> IF r \in R THEN status[r] ELSE None,
                  board_position |-> InitPosition[r],
                  closed_at |-> r \in R /\ status[r] \in Closed ]]
    BY <1>0
  <1>2. ASSUME NEW r \in Req
        PROVE  /\ requirement[r] \in Row
               /\ Exists(r) => (requirement[r].closed_at <=> requirement[r].status_id \in Closed)
    <2>1. PICK st \in Status \cup {None} : st = IF r \in R THEN status[r] ELSE None
      OBVIOUS
    <2>2. PICK c \in BOOLEAN : c <=> r \in R /\ status[r] \in Closed
      OBVIOUS
    <2>3. InitPosition[r] \in Int /\ None \notin Status
      BY BoardAssumption
    <2>4. requirement[r] = [ status_id |-> st, board_position |-> InitPosition[r], closed_at |-> c ]
      BY <1>1, <2>1, <2>2
    <2>5. st # None => (c <=> st \in Closed)
      BY <2>1, <2>2
    <2> QED BY <2>3, <2>4, <2>5 DEF Row, Exists
  <1>3. TypeOK
    <2>1. requirement \in [Req -> Row]
      BY <1>1, <1>2
    <2> QED BY <2>1, BoardAssumption DEF Init, TypeOK
  <1>4. ClosedAtAgrees
    BY <1>2 DEF ClosedAtAgrees
  <1>5. \A s \in Session : \A t \in {tx[s]} : TxOK(s, t)
    BY DEF Init, TxOK
  <1> QED
    BY <1>3, <1>4, <1>5 DEF IInv

LEMMA StutterStep ==
    ASSUME IInv, UNCHANGED vars
    PROVE  IInv'
  <1>1. TypeOK' /\ ClosedAtAgrees'
    BY DEF IInv, vars, TypeOK, ClosedAtAgrees, Exists
  <1>2. ASSUME NEW s \in Session, NEW t \in {tx'[s]}
        PROVE  TxOK(s, t)'
    <2>1. TxOK(s, t)
      BY <1>2 DEF IInv, vars
    <2>2. Held(s, t) => Held(s, t)'
      BY DEF vars, Held, Locked, Written, See, Target, Exists, Fits
    <2>3. Undisturbed(t) => Undisturbed(t)'
      BY DEF vars, Undisturbed, Aligned, FirstPass, Renumbered, PositionOf, Landed, Rows, See,
             Target, Others, Column, Above
    <2> QED BY <2>1, <2>2, <2>3 DEF TxOK
  <1> QED
    BY <1>1, <1>2 DEF IInv

LEMMA NextOK == IInv /\ [Next]_vars => IInv'
  <1> SUFFICES ASSUME IInv, [Next]_vars
               PROVE  IInv'
    OBVIOUS
  <1>1. ASSUME NEW s \in Session, NEW r \in Req, NEW to \in Status, NEW above \in SUBSET Req,
               Drop(s, r, to, above)
        PROVE  IInv'
    BY <1>1, DropStep
  <1>2. ASSUME NEW s \in Session, NEW r \in Req, NEW to \in Status, ChangeStatus(s, r, to)
        PROVE  IInv'
    BY <1>2, ChangeStatusStep
  <1>3. ASSUME NEW s \in Session, ServerStep(s)
        PROVE  IInv'
    <2>1. CASE Begin(s)
      BY <2>1, BeginStep
    <2>2. CASE Refused(s) \/ BreakDeadlock(s)
      BY <2>2, AbortStep DEF Refused, BreakDeadlock
    <2>3. CASE ReadBefore(s)
      BY <2>3, ReadBeforeStep
    <2>4. CASE ReadAfter(s)
      BY <2>4, ReadAfterStep
    <2>5. CASE Place(s)
      BY <2>5, PlaceStep
    <2>6. CASE Rebalance(s)
      BY <2>6, RebalanceStep
    <2>7. ASSUME NEW r \in Req, Renumber(s, r)
          PROVE  IInv'
      BY <2>7, RenumberStep
    <2>8. CASE SecondPass(s)
      BY <2>8, SecondPassStep
    <2>9. CASE Commit(s)
      BY <2>9, CommitStep
    <2> QED BY <1>3, <2>1, <2>2, <2>3, <2>4, <2>5, <2>6, <2>7, <2>8, <2>9 DEF ServerStep
  <1>4. ASSUME NEW s \in Session, Abort(s)
        PROVE  IInv'
    BY <1>4, AbortStep
  <1>5. ASSUME NEW r \in Req, NEW status \in Status, Create(r, status)
        PROVE  IInv'
    BY <1>5, CreateStep
  <1>6. CASE UNCHANGED vars
    BY <1>6, StutterStep
  <1> QED
    BY <1>1, <1>2, <1>3, <1>4, <1>5, <1>6 DEF Next

\* The invariant above holds in every state.
THEOREM Invariance == Spec => []IInv
  BY InitOK, NextOK, PTL DEF Spec

\* The rows, the locks and the requests in flight are of their types in every state.
THEOREM TypeCorrect == Spec => []TypeOK
  <1>1. IInv => TypeOK
    BY DEF IInv
  <1> QED
    BY <1>1, Invariance, PTL

\* A card has a closing time exactly when its status is a closed one (requirement_transition,
\* requirement_create_full), whatever moves run at the same time.
THEOREM ClosedAtFollowsStatus == Spec => []ClosedAtAgrees
  <1>1. IInv => ClosedAtAgrees
    BY DEF IInv
  <1> QED
    BY <1>1, Invariance, PTL

\* What a transaction that is about to commit has done to the columns.
LEMMA CommittedColumns ==
    ASSUME IInv, NEW s \in Session, Commits(s), NEW t, t = tx[s]
    PROVE  /\ TypeOK /\ t \in Tx /\ t.pc = "commit" /\ Held(s, t)
           /\ t.alone => Landed(t)
           /\ requirement' = Rows(t)
           /\ requirement'[t.req].status_id = Target(t)
           /\ \A r \in Req \ {t.req} : requirement'[r].status_id = requirement[r].status_id
           /\ Column(requirement', Target(t)) \ {t.req} = Others(t)
  <1>1. t.pc = "commit"
    BY DEF Commits
  <1>2. TypeOK /\ t \in Tx /\ Held(s, t) /\ (t.alone => Undisturbed(t))
    BY <1>1, ServingOK
  <1>3. requirement' = Rows(t)
    BY DEF Commits, View, Seen, Rows, See
  <1>4. /\ See(t, t.req).status_id = Target(t)
        /\ \A r \in Req \ {t.req} : See(t, r).status_id = requirement[r].status_id
        /\ Column(Rows(t), Target(t)) = Others(t) \cup {t.req}
        /\ Others(t) \in SUBSET (Req \ {t.req}) /\ t.req \in Req
    BY <1>1, <1>2, StatusesSeen DEF Tx
  <1>5. \A r \in Req : requirement'[r] = See(t, r)
    BY <1>3 DEF Rows
  <1>6. t.alone => Landed(t)
    BY <1>1, <1>2 DEF Undisturbed
  <1>7. Column(requirement', Target(t)) \ {t.req} = Others(t)
    BY <1>3, <1>4
  <1> QED
    BY <1>1, <1>2, <1>3, <1>4, <1>5, <1>6, <1>7

\* A move that nothing else interferes with ends with the card where the user dropped it and
\* the others in their order, however close together or equal the positions are: the midpoint
\* is between its neighbours, or else the column has been renumbered (requirement_reorder).
THEOREM CardsLandWhereDropped == Spec => DropLandsWhereSeen
  <1>1. ASSUME IInv, NEW s \in Session, Commits(s), tx[s].alone
        PROVE  LET r == tx[s].req
                   others == Column(requirement', requirement'[r].status_id) \ {r}
               IN  /\ { q \in others : Above(requirement', q, r) } = tx[s].above
                   /\ \A q, t \in others : Above(requirement', q, t) <=> Above(requirement, q, t)
    <2>1. PICK t, others, rows : t = tx[s] /\ others = Others(t) /\ rows = requirement'
      OBVIOUS
    <2>2. /\ t \in Tx /\ Landed(t) /\ rows = Rows(t)
          /\ rows[t.req].status_id = Target(t)
          /\ Column(rows, Target(t)) \ {t.req} = others
      BY <2>1, <1>1, CommittedColumns
    <2>3. t.above \subseteq others
      BY <1>1, <2>1, ServingOK DEF Undisturbed, Aligned, Commits
    <2>4. /\ { q \in others : Above(rows, q, t.req) } = t.above
          /\ \A q, u \in others : Above(rows, q, u) <=> Above(requirement, q, u)
      BY <2>1, <2>2, <2>3 DEF Landed
    <2> QED BY <2>1, <2>2, <2>4
  <1>2. IInv /\ [Next]_vars =>
            [\A s \in Session : Commits(s) /\ tx[s].alone =>
                LET r == tx[s].req
                    others == Column(requirement', requirement'[r].status_id) \ {r}
                IN  /\ { q \in others : Above(requirement', q, r) } = tx[s].above
                    /\ \A q, t \in others :
                            Above(requirement', q, t) <=> Above(requirement, q, t)]_vars
    BY <1>1
  <1> QED
    BY <1>2, Invariance, PTL DEF Spec, DropLandsWhereSeen

\* Committing a move changes the status of its card, to the one asked for, and of no other
\* card: what was committed while its transaction ran is never undone.
NoStatusIsLost ==
    [][\A s \in Session : Commits(s) => \A r \in Req :
            requirement'[r].status_id =
                IF r = tx[s].req /\ tx[s].to # None THEN tx[s].to
                ELSE requirement[r].status_id]_vars

\* It holds of every commit, disturbed or not, because the statements of a transaction change
\* rows that it has locked.
THEOREM StatusesAreKept == Spec => NoStatusIsLost
  <1>1. ASSUME IInv, NEW s \in Session, Commits(s), NEW r \in Req
        PROVE  requirement'[r].status_id =
                IF r = tx[s].req /\ tx[s].to # None THEN tx[s].to
                ELSE requirement[r].status_id
    <2>1. PICK t : t = tx[s]
      OBVIOUS
    <2>2. /\ requirement'[t.req].status_id = Target(t)
          /\ \A q \in Req \ {t.req} : requirement'[q].status_id = requirement[q].status_id
      BY <2>1, <1>1, CommittedColumns
    <2> QED BY <2>1, <2>2 DEF Target
  <1>2. IInv /\ [Next]_vars =>
            [\A s \in Session : Commits(s) => \A r \in Req :
                requirement'[r].status_id =
                    IF r = tx[s].req /\ tx[s].to # None THEN tx[s].to
                    ELSE requirement[r].status_id]_vars
    BY <1>1
  <1> QED
    BY <1>2, Invariance, PTL DEF Spec, NoStatusIsLost
================================================================================
