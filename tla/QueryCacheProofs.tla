--------------------------- MODULE QueryCacheProofs ---------------------------
(***************************************************************************)
(* The query cache for any queries, mutations and tables: what is outdated *)
(* and not lost is on its way to be read again, provided that the events   *)
(* that are to be heard are announced, and that the hook of a mutation     *)
(* refetches or sets what it promises.                                     *)
(***************************************************************************)
EXTENDS QueryCache, TLAPS

\* What k shows, or is about to, is right, or will be, or is given up.
Sound(k) == "outdated" \in {cache[k].data, cache[k].fetch} => Covered(k) \/ k \in lost

--------------------------------------------------------------------------------
(* Types *)

LEMMA InitTyped == Init => TypeOK
BY CacheAssumption DEF Init, TypeOK, CacheAssumption, Empty, Entry, Retries

LEMMA EntriesTyped ==
    ASSUME NEW e \in Entry, NEW k
    PROVE  /\ Started(e) \in Entry
           /\ Invalidate(k, e) \in Entry
           /\ \A data \in {"none", "current", "outdated"} :
                [e EXCEPT !.data = data, !.invalid = FALSE] \in Entry
<1>1. /\ Started(e) \in Entry
      /\ [Started(e) EXCEPT !.invalid = TRUE] \in Entry
      /\ [e EXCEPT !.invalid = TRUE] \in Entry
  <2>1. PICK sent \in Entry : sent = [e EXCEPT !.fetch = "sent"]
    BY DEF Entry
  <2>2. [sent EXCEPT !.tries = 0] \in Entry
    BY DEF Entry, Retries
  <2>3. Started(e) = [sent EXCEPT !.tries = 0]
    BY <2>1 DEF Started
  <2> QED  BY <2>2, <2>3 DEF Entry
<1>2. Invalidate(k, e) \in Entry
  BY <1>1 DEF Invalidate
<1>3. \A data \in {"none", "current", "outdated"} :
        [e EXCEPT !.data = data, !.invalid = FALSE] \in Entry
  BY DEF Entry
<1> QED  BY <1>1, <1>2, <1>3

LEMMA OutdatedTyped ==
    ASSUME TypeOK, NEW S
    PROVE  Outdate(S) \in [page -> Entry]
<1>1. ASSUME NEW e \in Entry
      PROVE  [e EXCEPT !.data  = IF @ = "current" THEN "outdated" ELSE @,
                       !.fetch = IF @ = "current" THEN "outdated" ELSE @] \in Entry
  BY DEF Entry
<1>2. \A k \in page : cache[k] \in Entry
  BY DEF TypeOK
<1> QED  BY <1>1, <1>2 DEF Outdate

LEMMA StepTyped == TypeOK /\ [Next]_vars => TypeOK'
<1> SUFFICES ASSUME TypeOK, [Next]_vars PROVE TypeOK'
  OBVIOUS
<1>1. ASSUME NEW k \in page,
             Mount(k) \/ Unmount(k) \/ Forget(k) \/ Refocus(k) \/ ServerReads(k)
      PROVE  TypeOK'
  <2>1. cache[k] \in Entry /\ Started(cache[k]) \in Entry
    BY EntriesTyped DEF TypeOK
  <2>2. Empty \in Entry /\ [cache[k] EXCEPT !.fetch = "current"] \in Entry
    BY <2>1 DEF Empty, Entry, Retries
  <2>3. cache' \in [page -> Entry]
    BY <1>1, <2>1, <2>2 DEF TypeOK, Mount, Unmount, Forget, Refocus, ServerReads
  <2> QED  BY <1>1, <2>3 DEF TypeOK, Mount, Unmount, Forget, Refocus, ServerReads
<1>2. ASSUME NEW k \in page, Answered(k) \/ FetchFails(k) \/ EventArrives(k)
      PROVE  TypeOK'
  BY <1>2 DEF TypeOK, Answered, FetchFails, EventArrives, RetryAgain, Entry, Retries
<1>3. ASSUME NEW m \in Mutation, NEW promised, Commit(m, promised), own' \in Own \cup {None}
      PROVE  TypeOK'
  BY <1>3, OutdatedTyped, CacheAssumption DEF TypeOK, Commit, CacheAssumption
<1>4. ASSUME NEW m \in Mutation, OthersChange(m)
      PROVE  TypeOK'
  <2>1. own' \in Own \cup {None}
    BY <1>4 DEF OthersChange, TypeOK, Own
  <2> QED  BY <1>3, <1>4, <2>1 DEF OthersChange
<1>5. ASSUME NEW m \in OwnMutation, Mutate(m)
      PROVE  TypeOK'
  BY <1>5 DEF TypeOK, Mutate, Own
<1>6. CASE OwnCommits
  <2>1. own.mutation \in Mutation /\ own' \in Own
    BY <1>6, CacheAssumption DEF OwnCommits, TypeOK, Own, CacheAssumption
  <2> QED  BY <1>3, <1>6, <2>1 DEF OwnCommits
<1>7. CASE OwnRead
  BY <1>7 DEF OwnRead, TypeOK, Own
<1>8. CASE OwnAnswered
  <2>1. own.state \in {"none", "current", "outdated"}
    BY <1>8 DEF OwnAnswered
  <2>2. cache' \in [page -> Entry] /\ lost' \subseteq page
    BY <1>8, <2>1, EntriesTyped DEF OwnAnswered, TypeOK, Overtaken
  <2> QED  BY <1>8, <2>2 DEF OwnAnswered, TypeOK
<1>9. CASE OwnFails
  BY <1>9 DEF OwnFails, TypeOK
<1>10. CASE Flush
  BY <1>10, EntriesTyped DEF Flush, FlushedTo, TypeOK, Overtaken
<1>11. CASE StreamDown \/ Reconnect
  BY <1>11 DEF StreamDown, Reconnect, TypeOK
<1>12. CASE UNCHANGED vars
  BY <1>12 DEF vars, TypeOK
<1> QED
  BY <1>1, <1>2, <1>4, <1>5, <1>6, <1>7, <1>8, <1>9, <1>10, <1>11, <1>12 DEF Next

\* The state of a tab is one of those the module says.
THEOREM CacheTyped == Spec => []TypeOK
<1> QED  BY InitTyped, StepTyped, PTL DEF Spec

--------------------------------------------------------------------------------
(* Single queries *)

\* What becomes of an entry that is invalidated.
LEMMA InvalidatedEntry ==
    ASSUME TypeOK, NEW k \in page, NEW e \in Entry, e.fetch = cache[k].fetch
    PROVE  LET after == Invalidate(k, e)
           IN  \/ after.fetch \in {"sent", "current"}
               \/ after.fetch = "idle" /\ k \notin mounted /\ after.invalid
               \/ after.fetch = "idle" /\ after.data = "none"
               \/ after.fetch = "outdated" /\ cache[k].fetch = "outdated" /\ ~Restarts(k, e)
BY DEF Invalidate, Restarts, Started, Entry

LEMMA FetchesSound ==
    ASSUME TypeOK, NEW k \in page, Sound(k), NEW l \in page,
           Mount(l) \/ Unmount(l) \/ Forget(l) \/ Refocus(l) \/ ServerReads(l)
    PROVE  Sound(k)'
<1>1. cache[k] \in Entry /\ cache[l] \in Entry
  BY DEF TypeOK
<1> USE DEF Sound, Covered, Named, AwaitsOwn, Entry
<1>2. CASE Mount(l)
  <2>1. CASE cache' = [cache EXCEPT ![l] = Started(@)]
    BY <1>1, <1>2, <2>1 DEF Mount, Started, TypeOK
  <2>2. CASE /\ cache[l].fetch # "idle" \/ (cache[l].data # "none" /\ ~cache[l].invalid)
             /\ UNCHANGED <<cache, lost>>
    BY <1>1, <1>2, <2>2 DEF Mount
  <2> QED  BY <1>2, <2>1, <2>2 DEF Mount
<1>3. CASE Unmount(l)
  BY <1>1, <1>3 DEF Unmount, TypeOK
<1>4. CASE Forget(l)
  BY <1>1, <1>4 DEF Forget, Empty, TypeOK
<1>5. CASE Refocus(l)
  BY <1>1, <1>5 DEF Refocus, Started, TypeOK
<1>6. CASE ServerReads(l)
  BY <1>1, <1>6 DEF ServerReads, TypeOK
<1> QED  BY <1>2, <1>3, <1>4, <1>5, <1>6

LEMMA AnswersSound ==
    ASSUME TypeOK, NEW k \in page, Sound(k), NEW l \in page,
           Answered(l) \/ FetchFails(l) \/ EventArrives(l)
    PROVE  Sound(k)'
<1>1. cache[k] \in Entry /\ cache[l] \in Entry
  BY DEF TypeOK
<1> USE DEF Sound, Covered, Named, AwaitsOwn, Entry
<1>2. CASE Answered(l)
  BY <1>1, <1>2 DEF Answered, TypeOK
<1>3. CASE FetchFails(l)
  <2>1. CASE k # l
    BY <1>3, <2>1 DEF FetchFails, TypeOK
  <2>2. CASE k = l
    BY <1>1, <1>3, <2>2 DEF FetchFails, TypeOK
  <2> QED  BY <2>1, <2>2
<1>4. CASE EventArrives(l)
  BY <1>4 DEF EventArrives
<1> QED  BY <1>2, <1>3, <1>4

\* A change: what it outdates is promised by the tab's own mutation, or heard of, or read
\* anyway, or lost.
LEMMA CommitSound ==
    ASSUME TypeOK, TablesAgree, NEW k \in page, Sound(k), NEW m \in Mutation, NEW promised,
           Commit(m, promised),
           AwaitsOwn(k) => AwaitsOwn(k)',
           k \in promised => AwaitsOwn(k)'
    PROVE  Sound(k)'
<1>1. cache[k] \in Entry
  BY DEF TypeOK
<1>2. PICK heard \in BOOLEAN :
        /\ onTheWay' = IF heard THEN onTheWay \cup (Announced[m] \cap page) ELSE onTheWay
        /\ lost' = lost \cup
            { q \in Outdates[m] \cap page :
                /\ ~ReadAnyway(q)
                /\ q \notin promised \cup onTheWay \cup pending
                /\ ~(heard /\ q \in Heard[m]) }
  BY DEF Commit
<1>3. /\ cache'[k] = IF k \notin Outdates[m] \cap page THEN cache[k]
                     ELSE [cache[k] EXCEPT
                            !.data  = IF @ = "current" THEN "outdated" ELSE @,
                            !.fetch = IF @ = "current" THEN "outdated" ELSE @]
      /\ UNCHANGED <<page, mounted, pending>>
  BY DEF Commit, Outdate
<1>4. lost \subseteq lost' /\ onTheWay \subseteq onTheWay'
  BY <1>2
<1>5. CASE k \notin Outdates[m]
  BY <1>3, <1>4, <1>5 DEF Sound, Covered, Named
<1>6. CASE k \in Outdates[m]
  <2>1. CASE k \in lost' \/ k \in promised \cup onTheWay \cup pending
    BY <2>1, <1>3, <1>4 DEF Sound, Covered, Named
  <2>2. CASE ReadAnyway(k)
    BY <2>2, <1>1, <1>3 DEF ReadAnyway, Sound, Covered, Entry
  <2>3. CASE heard /\ k \in Heard[m]
    BY <2>3, <1>2 DEF TablesAgree, Sound, Covered, Named
  <2> QED  BY <2>1, <2>2, <2>3, <1>2, <1>6
<1> QED  BY <1>5, <1>6

LEMMA OthersSound ==
    ASSUME TypeOK, TablesAgree, NEW k \in page, Sound(k), NEW m \in Mutation, OthersChange(m)
    PROVE  Sound(k)'
<1>1. own # None => own'.mutation = own.mutation /\ own' # None
                        /\ (own.state # "sent" => own'.state # "sent")
  BY NoneAssumption DEF OthersChange, TypeOK, Own
<1>2. AwaitsOwn(k) => AwaitsOwn(k)'
  BY <1>1 DEF AwaitsOwn
<1>3. PICK promised :
        /\ Commit(m, promised)
        /\ k \in promised => AwaitsOwn(k)
  BY DEF OthersChange, AwaitsOwn
<1> QED  BY <1>2, <1>3, CommitSound

--------------------------------------------------------------------------------
(* The tab's own mutation, and the events *)

LEMMA OwnSound ==
    ASSUME TypeOK, TablesAgree, NEW k \in page, Sound(k),
           OwnCommits \/ OwnRead \/ OwnFails \/ \E m \in OwnMutation : Mutate(m)
    PROVE  Sound(k)'
<1>1. cache[k] \in Entry
  BY DEF TypeOK
<1>2. CASE OwnCommits
  <2>1. /\ own' # None /\ own'.mutation = own.mutation /\ own'.state = "committed"
        /\ own.state = "sent"
    BY <1>2, NoneAssumption DEF OwnCommits, TypeOK, Own
  <2>2. own.mutation \in Mutation
    BY <1>2, CacheAssumption DEF OwnCommits, TypeOK, Own, CacheAssumption
  <2>3. k \in Promised[own.mutation] => AwaitsOwn(k)'
    BY <2>1 DEF AwaitsOwn
  <2>4. ~AwaitsOwn(k)
    BY <2>1 DEF AwaitsOwn
  <2> QED  BY <1>2, <2>2, <2>3, <2>4, CommitSound DEF OwnCommits
<1>3. CASE OwnRead
  <2>1. own' # None /\ own'.mutation = own.mutation /\ own'.state # "sent"
    BY <1>3, NoneAssumption DEF OwnRead, TypeOK, Own
  <2> QED  BY <1>3, <2>1 DEF OwnRead, Sound, Covered, Named, AwaitsOwn
<1>4. CASE OwnFails
  BY <1>1, <1>4 DEF OwnFails, Sound, Covered, Named, AwaitsOwn, ReadAnyway, Entry
<1>5. ASSUME NEW m \in OwnMutation, Mutate(m)
      PROVE  Sound(k)'
  BY <1>5 DEF Mutate, Sound, Covered, Named, AwaitsOwn
<1> QED  BY <1>2, <1>3, <1>4, <1>5

LEMMA AnswerSound ==
    ASSUME TypeOK, TablesAgree, NEW k \in page, Sound(k), OwnAnswered
    PROVE  Sound(k)'
<1>1. cache[k] \in Entry
  BY DEF TypeOK
<1>2. PICK m \in OwnMutation : m = own.mutation
  BY DEF OwnAnswered, TypeOK, Own
<1> DEFINE set   == [cache[k] EXCEPT !.data = own.state, !.invalid = FALSE]
           after == IF k \in SetBy[m] \cap page THEN set ELSE cache[k]
<1>3. /\ own.state \in {"current", "outdated"}
      /\ cache'[k] = IF k \in Refetched[m] \cap page THEN Invalidate(k, after) ELSE after
      /\ own' = None
      /\ UNCHANGED <<page, mounted, onTheWay, pending>>
  BY <1>2 DEF OwnAnswered
<1>4. set \in Entry /\ set.fetch = cache[k].fetch /\ set.data = own.state
  BY <1>1, <1>3, EntriesTyped DEF Entry
<1> HIDE DEF set
<1>5. CASE k \in Refetched[m]
  <2>1. cache'[k] = Invalidate(k, after) /\ after \in Entry /\ after.fetch = cache[k].fetch
    BY <1>1, <1>3, <1>4, <1>5
  <2> HIDE DEF after
  <2>2. CASE cache'[k].fetch = "outdated"
    <3>1. cache[k].fetch = "outdated" /\ ~Restarts(k, after)
      BY <2>1, <2>2, InvalidatedEntry
    <3>2. after.data # "none" \/ after = cache[k]
      BY <1>3, <1>4 DEF after
    <3>3. k \in Overtaken(Refetched[m] \cap page)
      BY <1>5, <3>1, <3>2 DEF Overtaken, Restarts
    <3>4. k \in lost'
      BY <1>2, <3>3 DEF OwnAnswered
    <3> QED  BY <3>4 DEF Sound
  <2>3. CASE cache'[k].fetch # "outdated"
    BY <2>1, <2>3, <1>3, InvalidatedEntry DEF Sound, Covered
  <2> QED  BY <2>2, <2>3
<1>6. CASE k \notin Refetched[m] /\ k \in SetBy[m]
  <2>1. cache'[k] = set
    BY <1>3, <1>6
  <2>2. CASE k \in Named \/ cache[k].fetch \in {"sent", "current"}
    BY <2>1, <2>2, <1>3, <1>4 DEF Sound, Covered, Named
  <2>3. CASE /\ k \notin Named
             /\ \/ cache[k].fetch = "outdated"
                \/ cache[k].fetch = "idle" /\ own.state = "outdated"
    <3>1. k \in lost'
      BY <2>3, <1>2, <1>6 DEF OwnAnswered
    <3> QED  BY <3>1 DEF Sound
  <2>4. CASE cache[k].fetch = "idle" /\ own.state = "current"
    BY <2>1, <2>4, <1>4 DEF Sound
  <2> QED  BY <2>2, <2>3, <2>4, <1>1, <1>3 DEF Entry
<1>7. CASE k \notin Refetched[m] /\ k \notin SetBy[m]
  <2>1. cache'[k] = cache[k] /\ ~AwaitsOwn(k)
    BY <1>2, <1>3, <1>7 DEF AwaitsOwn, TablesAgree
  <2>2. k \in lost => k \in lost'
    BY <1>2, <1>7 DEF OwnAnswered, Refreshed
  <2> QED  BY <2>1, <2>2, <1>3 DEF Sound, Covered, Named
<1> QED  BY <1>5, <1>6, <1>7

LEMMA FlushSound ==
    ASSUME TypeOK, NEW k \in page, Sound(k), Flush
    PROVE  Sound(k)'
<1>1. cache[k] \in Entry
  BY DEF TypeOK
<1>2. CASE k \in pending
  <2>1. cache'[k] = Invalidate(k, cache[k])
    BY <1>2 DEF Flush, FlushedTo
  <2>2. CASE cache'[k].fetch = "outdated"
    <3>1. cache[k].fetch = "outdated" /\ ~Restarts(k, cache[k])
      BY <2>1, <2>2, <1>1, InvalidatedEntry
    <3>2. k \in Overtaken(pending)
      BY <3>1, <1>2 DEF Overtaken, Restarts
    <3> QED  BY <3>2 DEF Flush, Sound
  <2>3. CASE cache'[k].fetch # "outdated"
    BY <2>1, <2>3, <1>1, InvalidatedEntry DEF Flush, Sound, Covered
  <2> QED  BY <2>2, <2>3
<1>3. CASE k \notin pending
  <2>1. cache'[k] = cache[k] /\ (k \in lost => k \in lost')
    BY <1>3 DEF Flush, Refreshed
  <2> QED  BY <1>3, <2>1 DEF Flush, Sound, Covered, Named, AwaitsOwn
<1> QED  BY <1>2, <1>3

LEMMA StreamSound ==
    ASSUME TypeOK, NEW k \in page, Sound(k), StreamDown \/ Reconnect
    PROVE  Sound(k)'
<1>1. cache[k] \in Entry
  BY DEF TypeOK
<1> QED
  BY <1>1 DEF StreamDown, Reconnect, Sound, Covered, Named, AwaitsOwn, ReadAnyway, Entry

--------------------------------------------------------------------------------

LEMMA StepSound ==
    ASSUME TypeOK, TablesAgree, NEW k \in page, Sound(k), [Next]_vars
    PROVE  Sound(k)'
<1>1. CASE UNCHANGED vars
  BY <1>1 DEF vars, Sound, Covered, Named, AwaitsOwn
<1> QED
  BY <1>1, FetchesSound, AnswersSound, OthersSound, OwnSound, AnswerSound, FlushSound, StreamSound
  DEF Next

\* "boards, lists and detail pages stay in sync across users" (events.ts), as far as they
\* do: whatever queries and mutations there are, and however many changes, what a page
\* shows and nothing will refresh was lost in one of the ways that the module names.
THEOREM OutdatedCovered == TablesAgree => (Spec => []OutdatedIsCovered)
<1> SUFFICES ASSUME TablesAgree PROVE Spec => []OutdatedIsCovered
  OBVIOUS
<1>1. Init => OutdatedIsCovered
  BY DEF Init, Empty, OutdatedIsCovered
<1>2. TypeOK /\ OutdatedIsCovered /\ [Next]_vars => OutdatedIsCovered'
  <2> SUFFICES ASSUME TypeOK, OutdatedIsCovered, [Next]_vars, NEW k \in page'
               PROVE  Sound(k)'
    BY DEF OutdatedIsCovered, Sound
  <2>1. page' = page
    BY DEF Next, vars, Mount, Unmount, Forget, Refocus, ServerReads, Answered, FetchFails,
           EventArrives, OthersChange, Commit, Mutate, OwnCommits, OwnRead, OwnAnswered,
           OwnFails, Flush, StreamDown, Reconnect
  <2> QED  BY <2>1, StepSound DEF OutdatedIsCovered, Sound
<1> QED  BY <1>1, <1>2, InitTyped, StepTyped, PTL DEF Spec
===============================================================================
