---------------------------- MODULE RequirementPage ----------------------------
(***************************************************************************)
(* The description editor of a requirement (pages/RequirementDetail.tsx)   *)
(* over the server of DocumentVersions.                                    *)
(*                                                                         *)
(* Unlike the note editor it keeps no base version of its own: a save      *)
(* names the version in the query cache, which change events refresh while *)
(* the user is editing.                                                    *)
(***************************************************************************)
EXTENDS DocumentVersions

CONSTANT Browser   \* the clients that have the page open; IsRequirement is TRUE

VARIABLE page   \* the state of each browser's page

vars == <<document, document_version, request, written, page>>

\* `origin` and `sent` are for the property: the version the text in the editor was
\* started from or last compared with, and that of the save in flight.
Page ==
    [ req      : Row,                \* useRequirement: the query cache
      fetched  : Row \cup {None},    \* a refetch on its way back
      body     : Text \cup {None},   \* the text being edited, if any
      asks     : Nat,                \* conflict GETs in flight
      conflict : Row \cup {None},
      origin   : Version, sent : Version ]

PageTypeOK == TypeOK /\ page \in [Browser -> Page]

PageInit ==
    /\ Init
    /\ page = [b \in Browser |->
            [ req |-> document, fetched |-> None, body |-> None, asks |-> 0,
              conflict |-> None, origin |-> 1, sent |-> 1 ]]

ServerSame == UNCHANGED <<document, document_version, request, written>>

Set(b, p) == page' = [page EXCEPT ![b] = p]

ShowsDialog(b) == page[b].conflict # None /\ page[b].body # None

Edit(b) ==
    /\ page[b].body = None
    /\ Set(b, [page[b] EXCEPT !.body = page[b].req.text, !.origin = page[b].req.version])
    /\ ServerSame

Type(b, text) ==
    /\ page[b].body \notin {None, text}
    /\ ~ShowsDialog(b)
    /\ Set(b, [page[b] EXCEPT !.body = text])
    /\ ServerSame

Cancel(b) ==
    /\ page[b].body # None
    /\ ~ShowsDialog(b)
    /\ Set(b, [page[b] EXCEPT !.body = None])
    /\ ServerSame

\* saveBody(): with the version the cache has now.
SaveBody(b) ==
    /\ page[b].body # None
    /\ ~ShowsDialog(b)
    /\ Send(b, page[b].body, page[b].req.version)
    /\ Set(b, [page[b] EXCEPT !.sent = page[b].origin])
    /\ UNCHANGED <<document, document_version, written>>

SaveAnswered(b) ==
    /\ request[b].pc = "replied"
    /\ Set(b, [page[b] EXCEPT !.req = request[b].row, !.body = None])
    /\ Respond(b)
    /\ UNCHANGED <<document, document_version, written>>

SaveConflicts(b) ==
    /\ request[b].pc = "conflict"
    /\ Set(b, [page[b] EXCEPT !.asks = @ + 1])
    /\ Respond(b)
    /\ UNCHANGED <<document, document_version, written>>

SaveFails(b) ==
    /\ request[b] # Idle
    /\ Respond(b)
    /\ UNCHANGED <<document, document_version, written, page>>

\* The GET that follows a 409; its failure goes unnoticed.
ConflictAnswered(b, failed) ==
    /\ page[b].asks > 0
    /\ Set(b, [page[b] EXCEPT !.asks = @ - 1, !.conflict = IF failed THEN @ ELSE document])
    /\ ServerSame

TakeTheirs(b) ==
    /\ ShowsDialog(b)
    /\ Set(b, [page[b] EXCEPT !.req = page[b].conflict, !.body = None, !.conflict = None])
    /\ ServerSame

\* Overwrites what the dialog shows, naming no version.
KeepMine(b) ==
    /\ ShowsDialog(b)
    /\ Send(b, page[b].body, None)
    /\ Set(b, [page[b] EXCEPT !.req = page[b].conflict, !.conflict = None,
                              !.origin = page[b].conflict.version,
                              !.sent = page[b].conflict.version])
    /\ UNCHANGED <<document, document_version, written>>

CloseDialog(b) ==
    /\ ShowsDialog(b)
    /\ Set(b, [page[b] EXCEPT !.conflict = None, !.origin = page[b].conflict.version])
    /\ ServerSame

\* A change event refetches the requirement, also under an open editor.
Refetch(b) ==
    /\ page[b].fetched = None
    /\ Set(b, [page[b] EXCEPT !.fetched = document])
    /\ ServerSame

Refetched(b) ==
    /\ page[b].fetched # None
    /\ Set(b, [page[b] EXCEPT !.req = page[b].fetched, !.fetched = None])
    /\ ServerSame

Server(c) == ServerStep(c) /\ UNCHANGED page

PageNext ==
    \/ \E b \in Browser : Edit(b)
    \/ \E b \in Browser, t \in Text : Type(b, t)
    \/ \E b \in Browser : Cancel(b)
    \/ \E b \in Browser : SaveBody(b)
    \/ \E b \in Browser : SaveAnswered(b)
    \/ \E b \in Browser : SaveConflicts(b)
    \/ \E b \in Browser : SaveFails(b)
    \/ \E b \in Browser, failed \in BOOLEAN : ConflictAnswered(b, failed)
    \/ \E b \in Browser : TakeTheirs(b)
    \/ \E b \in Browser : KeepMine(b)
    \/ \E b \in Browser : CloseDialog(b)
    \/ \E b \in Browser : Refetch(b)
    \/ \E b \in Browser : Refetched(b)
    \/ \E c \in Client : Server(c)

PageSpec == PageInit /\ [][PageNext]_vars

--------------------------------------------------------------------------------
\* PLAN-AFINAMIENTO.md:22 counts the version lock of requirements among what is done,
\* against the silent overwriting of :531: a save that is checked replaces the
\* version its author started from, or has compared with, and no other.
NoSilentOverwrite ==
    [][\A b \in Browser : Overwrites(b) /\ request[b].base # None =>
            document.version = page[b].sent]_vars
===============================================================================
