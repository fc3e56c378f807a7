------------------------------ MODULE QueryCache ------------------------------
(***************************************************************************)
(* How a browser tab keeps what it shows up to date: the query cache       *)
(* (TanStack Query, as web/src/App.tsx sets it up), the mutations of the   *)
(* hooks, and the change events that web/src/lib/events.ts listens to.     *)
(*                                                                         *)
(* A query is loaded by a fetch, which the server answers from the         *)
(* database as it is at that moment.  Changes are committed by this tab    *)
(* and by others; they outdate what has been read, on the screen or on its *)
(* way.  A tab refetches what its own mutation invalidates when it is      *)
(* answered, and what a change event names 400 ms after the event came.    *)
(* Which mutation outdates, invalidates, sets and announces which query is *)
(* the business of module Hooks; here they are constants.                  *)
(***************************************************************************)
EXTENDS Naturals

CONSTANTS
    Key,         \* the query keys
    Page,        \* sets of keys: the queries a visit is about
    Mutation,    \* the mutations that tabs, agents and the worker make
    OwnMutation, \* those that this tab makes
    Outdates,    \* the keys whose answer a mutation changes
    Announced,   \* the keys that the events of a mutation invalidate
    Refetched,   \* the keys that its hook invalidates
    SetBy,       \* the keys that its hook sets to the answer
    Heard,       \* the keys whose readers are to hear of it
    Promised,    \* the keys its hook is to bring up to date
    MaxChanges,  \* bound on the changes committed
    None

ASSUME CacheAssumption ==
    /\ Page \subseteq SUBSET Key
    /\ OwnMutation \subseteq Mutation
    /\ \A table \in {Outdates, Announced, Refetched, SetBy, Heard, Promised} :
            table \in [Mutation -> SUBSET Key]
    /\ MaxChanges \in Nat

VARIABLES
    page,      \* the keys of this visit
    mounted,   \* those that some component observes now
    cache,     \* what the query cache holds for each
    own,       \* the tab's own mutation
    onTheWay,  \* keys named by events the server has sent
    pending,   \* keys named by events that wait for the flush
    stream,    \* the EventSource is connected
    changes,   \* number of changes committed
    lost       \* keys whose reader nothing will call back

vars == <<page, mounted, cache, own, onTheWay, pending, stream, changes, lost>>

Retries == 2

Entry ==
    [ data    : {"none", "current", "outdated"},
      invalid : BOOLEAN,                               \* isInvalidated
      fetch   : {"idle", "sent", "current", "outdated"},
                 \* none; not yet read by the server; read, and still right or not
      tries   : 0..Retries ]

Own == [ mutation : OwnMutation, state : {"sent", "committed", "current", "outdated"} ]

\* None is no mutation.
ASSUME NoneAssumption == None \notin Own

TypeOK ==
    /\ page \in Page
    /\ mounted \subseteq page
    /\ cache \in [page -> Entry]
    /\ own \in Own \cup {None}
    /\ onTheWay \subseteq page
    /\ pending \subseteq page
    /\ stream \in BOOLEAN
    /\ changes \in 0..MaxChanges
    /\ lost \subseteq page

Empty == [data |-> "none", invalid |-> FALSE, fetch |-> "idle", tries |-> 0]

Init ==
    /\ page \in Page
    /\ mounted = {}
    /\ cache = [k \in page |-> Empty]
    /\ own = None
    /\ onTheWay = {}
    /\ pending = {}
    /\ stream = TRUE
    /\ changes = 0
    /\ lost = {}

--------------------------------------------------------------------------------
(* Fetches *)

\* Events name k that the tab has yet to act on.
Named == onTheWay \cup pending

\* The tab's mutation is committed and its answer will refresh k.
AwaitsOwn(k) == own # None /\ own.state # "sent" /\ k \in Promised[own.mutation]

Started(entry) == [entry EXCEPT !.fetch = "sent", !.tries = 0]

\* A component starts to observe k: an entry that is missing or invalidated is
\* fetched, one that is older than its staleTime too, unless a fetch is under way.
Mount(k) ==
    /\ k \notin mounted
    /\ mounted' = mounted \cup {k}
    /\ \/ /\ cache[k].fetch = "idle"
          /\ cache' = [cache EXCEPT ![k] = Started(@)]
          /\ lost' = lost \ {k}
       \/ /\ cache[k].fetch # "idle" \/ (cache[k].data # "none" /\ ~cache[k].invalid)
          /\ UNCHANGED <<cache, lost>>
    /\ UNCHANGED <<page, own, onTheWay, pending, stream, changes>>

\* The component goes; the entry stays until gcTime, and the fetch goes on.
Unmount(k) ==
    /\ k \in mounted
    /\ mounted' = mounted \ {k}
    /\ UNCHANGED <<page, cache, own, onTheWay, pending, stream, changes, lost>>

Forget(k) ==
    /\ k \notin mounted
    /\ cache[k].fetch = "idle"
    /\ cache[k].data # "none"
    /\ cache' = [cache EXCEPT ![k] = Empty]
    /\ lost' = lost \ {k}
    /\ UNCHANGED <<page, mounted, own, onTheWay, pending, stream, changes>>

\* The window gets the focus, the network comes back, or a refetchInterval ends:
\* an entry older than its staleTime is fetched again.
Refocus(k) ==
    /\ k \in mounted
    /\ cache[k].fetch = "idle"
    /\ cache' = [cache EXCEPT ![k] = Started(@)]
    /\ lost' = lost \ {k}
    /\ UNCHANGED <<page, mounted, own, onTheWay, pending, stream, changes>>

ServerReads(k) ==
    /\ cache[k].fetch = "sent"
    /\ cache' = [cache EXCEPT ![k].fetch = "current"]
    /\ UNCHANGED <<page, mounted, own, onTheWay, pending, stream, changes, lost>>

Answered(k) ==
    /\ cache[k].fetch \in {"current", "outdated"}
    /\ cache' = [cache EXCEPT ![k].data = cache[k].fetch, ![k].invalid = FALSE,
                              ![k].fetch = "idle"]
    /\ lost' = IF cache[k].fetch = "current" THEN lost \ {k} ELSE lost
    /\ UNCHANGED <<page, mounted, own, onTheWay, pending, stream, changes>>

\* retry: (count, err) => not a 4xx && count < 2
RetryAgain(entry) == entry.tries < Retries

\* A fetch fails and is sent again, or (4xx, or the last try) leaves the entry alone:
\* old data stays on the screen.
FetchFails(k) ==
    /\ cache[k].fetch # "idle"
    /\ \/ /\ RetryAgain(cache[k])
          /\ cache' = [cache EXCEPT ![k].fetch = "sent", ![k].tries = @ + 1]
          /\ lost' = lost \ {k}
       \/ /\ cache' = [cache EXCEPT ![k].fetch = "idle"]
          /\ lost' = IF cache[k].data # "outdated" THEN lost \ {k}
                     ELSE IF k \in Named \/ AwaitsOwn(k) THEN lost ELSE lost \cup {k}
    /\ UNCHANGED <<page, mounted, own, onTheWay, pending, stream, changes>>

--------------------------------------------------------------------------------
(* Invalidation and changes *)

\* invalidateQueries refetches an observed query and cancels the fetch under way,
\* but a first load is not cancelled.
Restarts(k, entry) == k \in mounted /\ (entry.data # "none" \/ entry.fetch = "idle")

\* Mutant: a fetch under way is joined instead of restarted (cancelRefetch: false).
Invalidate_Joins(k, entry) ==
    IF Restarts(k, entry) /\ entry.fetch = "idle" THEN [Started(entry) EXCEPT !.invalid = TRUE]
    ELSE IF entry.data = "none" /\ entry.fetch = "idle" THEN entry
    ELSE [entry EXCEPT !.invalid = TRUE]

Invalidate(k, entry) ==
    IF Restarts(k, entry) THEN [Started(entry) EXCEPT !.invalid = TRUE]
    ELSE IF entry.data = "none" /\ entry.fetch = "idle" THEN entry
    ELSE [entry EXCEPT !.invalid = TRUE]

\* The keys of S that are overtaken: the answer under way was read before the change,
\* is not fetched again, and will make the entry count as fresh.
Overtaken(S) ==
    { k \in S : ~(k \in mounted /\ cache[k].data # "none") /\ cache[k].fetch = "outdated" }

Refreshed(S) == { k \in S : k \in mounted /\ Restarts(k, cache[k]) }

Outdate(S) ==
    [ k \in page |->
        IF k \notin S THEN cache[k]
        ELSE [cache[k] EXCEPT
                !.data  = IF @ = "current" THEN "outdated" ELSE @,
                !.fetch = IF @ = "current" THEN "outdated" ELSE @] ]

\* A key of S will be read again whatever happens to the news of the change.
ReadAnyway(k) ==
    LET entry == cache[k]
    IN  \/ entry.fetch = "sent"
        \/ entry.fetch = "idle" /\ entry.data = "none"
        \/ entry.fetch = "idle" /\ k \notin mounted /\ entry.invalid

\* The change m is committed.  heard: its events reach this tab, which they do not
\* when the stream is down or the hub finds the tab's channel full.
Commit(m, promised) ==
    /\ changes < MaxChanges
    /\ changes' = changes + 1
    /\ cache' = Outdate(Outdates[m] \cap page)
    /\ \E heard \in BOOLEAN :
        /\ heard => stream
        /\ onTheWay' = IF heard THEN onTheWay \cup (Announced[m] \cap page) ELSE onTheWay
        /\ lost' = lost \cup
            { k \in Outdates[m] \cap page :
                /\ ~ReadAnyway(k)
                /\ k \notin promised \cup onTheWay \cup pending
                /\ ~(heard /\ k \in Heard[m]) }
    /\ UNCHANGED <<page, mounted, pending, stream>>

\* Someone else commits a change: also the answer to the tab's own mutation may be
\* outdated by it.
OthersChange(m) ==
    /\ Commit(m, IF own # None /\ own.state # "sent" THEN Promised[own.mutation] ELSE {})
    /\ own' = IF own # None /\ own.state = "current"
                  /\ Outdates[m] \cap SetBy[own.mutation] # {}
              THEN [own EXCEPT !.state = "outdated"] ELSE own

--------------------------------------------------------------------------------
(* The tab's own mutation *)

Mutate(m) ==
    /\ own = None
    /\ changes < MaxChanges
    /\ own' = [mutation |-> m, state |-> "sent"]
    /\ UNCHANGED <<page, mounted, cache, onTheWay, pending, stream, changes, lost>>

OwnCommits ==
    /\ own # None
    /\ own.state = "sent"
    /\ Commit(own.mutation, Promised[own.mutation])
    /\ own' = [own EXCEPT !.state = "committed"]

\* The handler reads its answer after the commit.
OwnRead ==
    /\ own # None
    /\ own.state = "committed"
    /\ own' = [own EXCEPT !.state = "current"]
    /\ UNCHANGED <<page, mounted, cache, onTheWay, pending, stream, changes, lost>>

\* onSuccess: setQueryData, then invalidateQueries.
OwnAnswered ==
    /\ own # None
    /\ own.state \in {"current", "outdated"}
    /\ LET m        == own.mutation
           sets     == SetBy[m] \cap page
           restarts == Refetched[m] \cap page
           after    == [ k \in page |->
                            IF k \in sets
                            THEN [cache[k] EXCEPT !.data = own.state, !.invalid = FALSE]
                            ELSE cache[k] ]
           overwritten == { k \in sets \ Named :
                                \/ cache[k].fetch = "outdated"
                                \/ cache[k].fetch = "idle" /\ own.state = "outdated" }
           restored    == { k \in sets : cache[k].fetch = "idle" /\ own.state = "current" }
       IN  /\ cache' = [ k \in page |->
                            IF k \in restarts THEN Invalidate(k, after[k]) ELSE after[k] ]
           /\ lost' = ((lost \ (restored \cup Refreshed(restarts)))
                        \cup overwritten) \cup Overtaken(restarts)
    /\ own' = None
    /\ UNCHANGED <<page, mounted, onTheWay, pending, stream, changes>>

\* The request or its answer fails: nothing is invalidated, committed or not.
OwnFails ==
    /\ own # None
    /\ own' = None
    /\ lost' = IF own.state = "sent" THEN lost
               ELSE lost \cup { k \in Promised[own.mutation] \cap page :
                        /\ "outdated" \in {cache[k].data, cache[k].fetch}
                        /\ ~ReadAnyway(k)
                        /\ cache[k].fetch # "current"
                        /\ k \notin Named }
    /\ UNCHANGED <<page, mounted, cache, onTheWay, pending, stream, changes>>

--------------------------------------------------------------------------------
(* Change events *)

EventArrives(k) ==
    /\ k \in onTheWay
    /\ onTheWay' = onTheWay \ {k}
    /\ pending' = pending \cup {k}
    /\ UNCHANGED <<page, mounted, cache, own, stream, changes, lost>>

\* Mutant: the flush forgets the events instead of applying them.
FlushedTo_Nothing(k, entry) == entry

FlushedTo(k, entry) == Invalidate(k, entry)

\* flush, 400 ms after the first event
Flush ==
    /\ pending # {}
    /\ pending' = {}
    /\ cache' = [ k \in page |-> IF k \in pending THEN FlushedTo(k, cache[k]) ELSE cache[k] ]
    /\ lost' = (lost \ Refreshed(pending)) \cup Overtaken(pending)
    /\ UNCHANGED <<page, mounted, own, onTheWay, stream, changes>>

\* The connection breaks; events on their way are gone, and after it is made again
\* nothing asks for them.
StreamDown ==
    /\ stream
    /\ stream' = FALSE
    /\ onTheWay' = {}
    /\ lost' = lost \cup
        { k \in onTheWay \ pending :
            /\ "outdated" \in {cache[k].data, cache[k].fetch}
            /\ ~ReadAnyway(k)
            /\ cache[k].fetch # "current"
            /\ ~AwaitsOwn(k) }
    /\ UNCHANGED <<page, mounted, cache, own, pending, changes>>

Reconnect ==
    /\ ~stream
    /\ stream' = TRUE
    /\ UNCHANGED <<page, mounted, cache, own, onTheWay, pending, changes, lost>>

--------------------------------------------------------------------------------

Next ==
    \/ \E k \in page :
        \/ Mount(k) \/ Unmount(k) \/ Forget(k) \/ Refocus(k)
        \/ ServerReads(k) \/ Answered(k) \/ FetchFails(k) \/ EventArrives(k)
    \/ \E m \in Mutation : OthersChange(m)
    \/ \E m \in OwnMutation : Mutate(m)
    \/ OwnCommits \/ OwnRead \/ OwnAnswered \/ OwnFails
    \/ Flush \/ StreamDown \/ Reconnect

Spec == Init /\ [][Next]_vars

\* Requests are answered or fail, events that are sent arrive, and timers fire.
FairSpec ==
    /\ Spec
    /\ \A k \in Key :
        /\ WF_vars(k \in page /\ ServerReads(k))
        /\ WF_vars(k \in page /\ (Answered(k) \/ FetchFails(k)))
        /\ WF_vars(EventArrives(k))
    /\ WF_vars(OwnCommits \/ OwnRead \/ OwnAnswered \/ OwnFails)
    /\ WF_vars(Flush)

--------------------------------------------------------------------------------
(* Properties *)

\* A reader that is to hear of a change is named by its events, and what a hook is to bring
\* up to date it refetches or sets.
TablesAgree ==
    /\ \A m \in Mutation : Heard[m] \subseteq Announced[m]
    /\ \A m \in OwnMutation : Promised[m] \subseteq Refetched[m] \cup SetBy[m]

\* Something is under way that will have k read again.
Covered(k) ==
    \/ k \in Named
    \/ AwaitsOwn(k)
    \/ cache[k].fetch \in {"sent", "current"}
    \/ k \notin mounted /\ cache[k].invalid /\ cache[k].fetch = "idle"

\* "boards, lists and detail pages stay in sync across users": what a page shows, or
\* is about to show, agrees with the database, or an event, an answer or a fetch under
\* way will refresh it; unless it is lost in one of the ways of this module: the change
\* is announced to nobody or its event did not come, a fetch was given up, an answer
\* was lost, a first load was overtaken, an older answer was put over a newer one.
OutdatedIsCovered ==
    \A k \in page :
        "outdated" \in {cache[k].data, cache[k].fetch} => Covered(k) \/ k \in lost

\* Once the changes stop, a page that shows outdated data is brought up to date, or is
\* lost in one of those ways.
OutdatedIsRefreshed ==
    \A k \in Key :
        (k \in mounted /\ cache[k].data = "outdated" /\ k \notin lost)
            ~> (k \notin mounted \/ cache[k].data # "outdated" \/ k \in lost)
================================================================================
