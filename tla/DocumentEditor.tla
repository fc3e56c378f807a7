---------------------------- MODULE DocumentEditor ----------------------------
(***************************************************************************)
(* The note editor (web/src/pages/DocumentEditor.tsx) over the server of   *)
(* DocumentVersions.                                                       *)
(*                                                                         *)
(* The page keeps two copies of the document: the one the query cache got  *)
(* from the server (doc) and the text in the editor (content) with the     *)
(* version it is based on.  Answers to saves, background refetches and the *)
(* GET that fetches the other side of a conflict arrive in any order among *)
(* the user's keystrokes.  Clients that are not browsers save by the API.  *)
(*                                                                         *)
(* The type of the document is changed through the same mutation observer  *)
(* as its text: the callbacks a save gave to mutate run only while the     *)
(* save is the observer's latest mutation.                                 *)
(***************************************************************************)
EXTENDS DocumentVersions

CONSTANTS
    Browser,   \* the clients that have the editor open
    MaxAsks    \* bound on the conflict GETs a browser has pending

ASSUME EditorAssumption ==
    /\ Browser \subseteq Client
    /\ MaxAsks \in Nat \ {0}

VARIABLE editor   \* the state of each browser's page

vars == <<document, document_version, request, written, editor>>

Editor ==
    [ doc      : Row,                \* useDocument: the query cache
      fetched  : Row \cup {None},    \* a refetch on its way back
      content  : Text,               \* the text being edited
      base     : Version,            \* baseVersion
      state    : {"saved", "dirty", "saving", "conflict", "error"},
      saving   : BOOLEAN,            \* saving.current: a save is in flight
      heard    : BOOLEAN,            \* the observer still follows that save
      asks     : 0..MaxAsks,         \* conflict GETs in flight
      conflict : Row \cup {None} ]   \* the dialog, if open, and what it shows

EditorTypeOK == TypeOK /\ editor \in [Browser -> Editor]

EditorInit ==
    /\ Init
    /\ editor = [b \in Browser |->
            [ doc |-> document, fetched |-> None, content |-> document.text,
              base |-> document.version, state |-> "saved", saving |-> FALSE,
              heard |-> TRUE, asks |-> 0, conflict |-> None ]]

ServerSame == UNCHANGED <<document, document_version, request, written>>

\* Mutant: server content is adopted also over local edits.
Adopt_Always(old, new) ==
    IF new.doc.version # old.doc.version
    THEN [new EXCEPT !.content = new.doc.text, !.base = new.doc.version]
    ELSE new

\* The effect on doc.version: "adopt server content only when there are no local
\* edits".
Adopt(old, new) ==
    IF new.doc.version # old.doc.version /\ new.state = "saved"
    THEN [new EXCEPT !.content = new.doc.text, !.base = new.doc.version]
    ELSE new

--------------------------------------------------------------------------------
(* The user and the timers *)

\* A keystroke; the dialog covers the editor while it is open.
Type(b, text) ==
    /\ editor[b].conflict = None
    /\ text # editor[b].content
    /\ editor' = [editor EXCEPT ![b].content = text, ![b].state = "dirty"]
    /\ ServerSame

\* save(): nothing happens while another save is in flight.
SaveContent(b) ==
    /\ ~editor[b].saving
    /\ editor[b].asks < MaxAsks
    /\ Send(b, editor[b].content, editor[b].base)
    /\ editor' = [editor EXCEPT ![b].saving = TRUE, ![b].state = "saving"]
    /\ UNCHANGED <<document, document_version, written>>

\* Two seconds after the last keystroke; a finished save starts the timer again.
Autosave(b) == editor[b].state = "dirty" /\ SaveContent(b)

\* Ctrl+S in any state, or the retry button.
SaveNow(b) == SaveContent(b)

\* The menu's type: a mutation of the same observer, which drops the callbacks of a
\* save in flight.
ChangeType(b) ==
    /\ editor[b].conflict = None
    /\ editor' = [editor EXCEPT ![b].heard = ~editor[b].saving]
    /\ ServerSame

\* The dialog: take the server's text,
TakeServer(b) ==
    LET theirs == editor[b].conflict IN
    /\ theirs # None
    /\ editor' = [editor EXCEPT ![b] = [@ EXCEPT
            !.doc = theirs, !.content = theirs.text, !.base = theirs.version,
            !.state = "saved", !.conflict = None]]
    /\ ServerSame

\* Mutant: the dialog is cleared before its version is read.
Overwrite_Cleared(b) ==
    /\ editor[b].conflict # None
    /\ ~editor[b].saving
    /\ editor' = [editor EXCEPT ![b] = [@ EXCEPT
            !.base = None, !.conflict = None, !.saving = TRUE, !.state = "saving"]]
    /\ Send(b, editor[b].content, None)
    /\ UNCHANGED <<document, document_version, written>>

\* or overwrite it, naming no version,
Overwrite(b) ==
    LET e == editor[b] IN
    /\ e.conflict # None
    /\ e.asks < MaxAsks
    /\ editor' = [editor EXCEPT ![b] = [@ EXCEPT
            !.base = e.conflict.version, !.conflict = None,
            !.saving = TRUE, !.state = IF e.saving THEN e.state ELSE "saving"]]
    /\ IF e.saving THEN UNCHANGED request ELSE Send(b, e.content, None)
    /\ UNCHANGED <<document, document_version, written>>

\* or close it and stay in conflict.
CloseDialog(b) ==
    /\ editor[b].conflict # None
    /\ editor' = [editor EXCEPT ![b].conflict = None]
    /\ ServerSame

--------------------------------------------------------------------------------
(* Answers *)

\* Mutant: only a successful save clears the flag.
NotSaving_Never(e) == e

\* onSettled
NotSaving(e) == [e EXCEPT !.saving = FALSE]

\* The callbacks of a save turn page e into f, unless the observer has moved on.
Called(e, f) == IF e.heard THEN f ELSE e

\* Mutant: the answer to a save marks the page as saved whatever was typed since.
Saved_Always(e, row) ==
    NotSaving([e EXCEPT !.doc = row, !.base = row.version, !.state = "saved"])

\* The cache takes the answer in any case, then onSuccess and onSettled run.
Saved(e, row) ==
    LET cached == [e EXCEPT !.doc = row] IN
    Adopt(e, Called(cached, NotSaving([cached EXCEPT
        !.base = row.version, !.state = IF @ = "saving" THEN "saved" ELSE @])))

SaveAnswered(b) ==
    /\ request[b].pc = "replied"
    /\ editor' = [editor EXCEPT ![b] = Saved(@, request[b].row)]
    /\ Respond(b)
    /\ UNCHANGED <<document, document_version, written>>

\* 409: the page asks for the document; until it comes the state is left alone.
SaveConflicts(b) ==
    /\ request[b].pc = "conflict"
    /\ editor' = [editor EXCEPT ![b] =
            Called(@, [NotSaving(@) EXCEPT !.asks = editor[b].asks + 1])]
    /\ Respond(b)
    /\ UNCHANGED <<document, document_version, written>>

\* Any other error, or no answer: the save may or may not have been committed.
SaveFails(b) ==
    /\ request[b] # Idle
    /\ editor' = [editor EXCEPT ![b] = Called(@, [NotSaving(@) EXCEPT !.state = "error"])]
    /\ Respond(b)
    /\ UNCHANGED <<document, document_version, written>>

ConflictAnswered(b) ==
    /\ editor[b].asks > 0
    /\ editor' = [editor EXCEPT ![b] = [@ EXCEPT
            !.asks = editor[b].asks - 1, !.conflict = document, !.state = "conflict"]]
    /\ ServerSame

\* The GET fails: nobody catches it.
ConflictUnanswered(b) ==
    /\ editor[b].asks > 0
    /\ editor' = [editor EXCEPT ![b].asks = @ - 1]
    /\ ServerSame

\* A change event, the window's focus or another hook refetches the document.
Refetch(b) ==
    /\ editor[b].fetched = None
    /\ editor' = [editor EXCEPT ![b].fetched = document]
    /\ ServerSame

Refetched(b) ==
    /\ editor[b].fetched # None
    /\ editor' = [editor EXCEPT ![b] =
            Adopt(@, [@ EXCEPT !.doc = editor[b].fetched, !.fetched = None])]
    /\ ServerSame

--------------------------------------------------------------------------------
Server(c) == ServerStep(c) /\ UNCHANGED editor

\* A save by another client, or by this user in another tab.  Its two statements
\* matter only to the snapshot it files, so here it is one step; one that is refused
\* changes nothing.
OtherSave(c, text) ==
    /\ Commit(c, document, text)
    /\ UNCHANGED <<request, editor>>

\* The PATCH of the type, any time after the menu: document_update without a text
\* makes a version of the one it finds.  Its answer only refreshes the cache, as a
\* refetch does.
TypeChanged(b) ==
    /\ Commit(b, document, document.text)
    /\ UNCHANGED <<request, editor>>

EditorNext ==
    \/ \E b \in Browser, t \in Text : Type(b, t)
    \/ \E b \in Browser : Autosave(b)
    \/ \E b \in Browser : SaveNow(b)
    \/ \E b \in Browser : ChangeType(b)
    \/ \E b \in Browser : TakeServer(b)
    \/ \E b \in Browser : Overwrite(b)
    \/ \E b \in Browser : CloseDialog(b)
    \/ \E b \in Browser : SaveAnswered(b)
    \/ \E b \in Browser : SaveConflicts(b)
    \/ \E b \in Browser : SaveFails(b)
    \/ \E b \in Browser : ConflictAnswered(b)
    \/ \E b \in Browser : ConflictUnanswered(b)
    \/ \E b \in Browser : Refetch(b)
    \/ \E b \in Browser : Refetched(b)
    \/ \E b \in Browser : Server(b)
    \/ \E b \in Browser : TypeChanged(b)
    \/ \E c \in Client, t \in Text : OtherSave(c, t)

EditorSpec == EditorInit /\ [][EditorNext]_vars

\* The timer of a dirty page fires, requests are served, and answers or errors
\* come back; a page that asks for the other side of a conflict again and again
\* gets it once.  Nothing is assumed of the user or of other clients.
EditorFairSpec ==
    /\ EditorSpec
    /\ \A b \in Browser :
        /\ WF_vars(Server(b))
        /\ WF_vars(Autosave(b))
        /\ WF_vars(SaveAnswered(b) \/ SaveConflicts(b))
        /\ WF_vars(ConflictAnswered(b) \/ ConflictUnanswered(b))
        /\ SF_vars(ConflictAnswered(b))

--------------------------------------------------------------------------------
(* Properties *)

Stored(text) == \E i \in 1..Len(written) : written[i].text = text

\* A page that says "saved" shows a text that has been some version of the document.
SavedWasStored ==
    \A b \in Browser : editor[b].state = "saved" => Stored(editor[b].content)

\* What the user typed leaves the editor only once it is stored, unless the user
\* types on or discards it in the conflict dialog: a refetch, the answer to an
\* earlier save or a conflict never wipes it.
NothingTypedIsDropped ==
    [][\A b \in Browser :
        /\ editor'[b].content # editor[b].content
        /\ editor'[b].state # "dirty"
        /\ editor[b].conflict = None
        => Stored(editor[b].content)]_vars

Settled(b, text) ==
    \/ editor[b].content # text
    \/ Stored(text)
    \/ editor[b].state \in {"conflict", "error"}

\* The request that asks for the other side of a conflict failed.
Unexplained(b) ==
    editor[b].state = "saving" /\ ~editor[b].saving /\ editor[b].asks = 0

\* The save was answered and the page, its callbacks dropped, takes it to be in
\* flight for good.
Deaf(b) == ~editor[b].heard /\ request[b] = Idle

\* Autosave: a text left in the editor is stored, or the page says why not, unless
\* the GET after a conflict fails or the type was changed during a save.  (The
\* bound on versions stops the server.)
TypedTextSettles ==
    \A b \in Browser, t \in Text :
        editor[b].state = "dirty" /\ editor[b].content = t
        ~> Settled(b, t) \/ Unexplained(b) \/ Deaf(b) \/ document.version = MaxVersion
===============================================================================
