--------------------------- MODULE DocumentVersions ---------------------------
(***************************************************************************)
(* One document saved by several clients (document_update,                 *)
(* requirement_patch, RestoreDocumentVersion).                             *)
(*                                                                         *)
(* A save may name the version it was made from; the server compares it    *)
(* with the current one, keeps the text it is about to overwrite as a row  *)
(* of document_version, and writes.  The comparison and the write are two  *)
(* statements: for a note nothing is locked in between, for a requirement  *)
(* the requirement row is.  The row the client is answered with is read    *)
(* once more, after the commit.                                            *)
(*                                                                         *)
(* Title and body are one text.  Left out: archiving, the check that a     *)
(* requirement is open (it only refuses the save), sections and links.     *)
(***************************************************************************)
EXTENDS Integers, Sequences

CONSTANTS
    Client,         \* whoever saves: browsers, agents
    Text,           \* what a document may say
    IsRequirement,  \* the document is a requirement, not a note or wiki
    MaxVersion,     \* bound on the versions of a behaviour
    None            \* SQL NULL

Version == 1..MaxVersion

Written == [ text : Text, actor : Client ]

Row == [ version : Version, text : Text ]

ASSUME VersionsAssumption ==
    /\ IsRequirement \in BOOLEAN
    /\ MaxVersion \in Nat \ {0}
    /\ None \notin Nat \cup Text

VARIABLES
    document,          \* the document row
    document_version,  \* its document_version rows, None where there is no row
    request,           \* the save each client has sent, if any
    written            \* for the properties: what each version said, and who wrote it

serverVars == <<document, document_version, request, written>>

Idle == [ pc |-> "idle" ]

\* base: the version named, or None.  row: v_doc, as read; the answer, once replied.
Request == [ pc : {"sent", "read", "done", "replied", "conflict"},
             text : Text, base : Version \cup {None}, row : Row \cup {None} ]

NoSnapshot == [ text |-> None, actor |-> None ]

TypeOK ==
    /\ document \in Row
    /\ document_version \in [Version -> Written \cup {NoSnapshot}]
    /\ request \in [Client -> Request \cup {Idle}]
    /\ written \in Seq(Written)

\* document_create writes the first version and its snapshot.
Init ==
    \E text \in Text, c \in Client :
        /\ document = [ version |-> 1, text |-> text ]
        /\ document_version = [v \in Version |->
                IF v = 1 THEN [ text |-> text, actor |-> c ] ELSE NoSnapshot]
        /\ request = [d \in Client |-> Idle]
        /\ written = <<[ text |-> text, actor |-> c ]>>

--------------------------------------------------------------------------------
(* Requests *)

Send(c, text, base) ==
    /\ request[c] = Idle
    /\ request' = [request EXCEPT ![c] =
            [ pc |-> "sent", text |-> text, base |-> base, row |-> None ]]

\* PATCH by a client that names a version it has once been given, or none.
Save(c, text, base) ==
    /\ base \in 1..document.version \cup {None}
    /\ Send(c, text, base)
    /\ UNCHANGED <<document, document_version, written>>

\* Restoring saves the text of an old version, whatever the current one is.  A
\* version row never changes, so it may as well be read now.
RestoreDocumentVersion(c, v) ==
    /\ document_version[v] # NoSnapshot
    /\ Send(c, document_version[v].text, None)
    /\ UNCHANGED <<document, document_version, written>>

\* Mutant: the requirement row is read without FOR UPDATE.
Locked_Never == FALSE

\* SELECT ... FROM requirement ... FOR UPDATE: one save of a requirement at a time.
Locked == IsRequirement /\ \E d \in Client : request[d].pc = "read"

\* Mutant: the version named is not looked at.
Stale_Never(q) == FALSE

\* The save is stale: it names a version that is not the one just read.
Stale(q) == q.base # None /\ q.base # document.version

\* The SELECT of document_update or requirement_patch, and what is checked on it.
\* A requirement that already says this is left as it is.
Read(c) ==
    /\ request[c].pc = "sent"
    /\ ~Locked
    /\ request' = [request EXCEPT ![c] =
            IF Stale(@) THEN [@ EXCEPT !.pc = "conflict"]
            ELSE IF IsRequirement /\ @.text = document.text THEN [@ EXCEPT !.pc = "done"]
            ELSE [@ EXCEPT !.pc = "read", !.row = document]]
    /\ UNCHANGED <<document, document_version, written>>

\* Mutant: the snapshot is filed under the number of the version to come.
Snapshot_Next(c, row) ==
    IF document_version[document.version + 1] = NoSnapshot
    THEN [document_version EXCEPT ![document.version + 1] = [ text |-> row.text, actor |-> c ]]
    ELSE document_version

\* Mutant: ON CONFLICT DO UPDATE.
Snapshot_Upsert(c, row) ==
    [document_version EXCEPT ![row.version] = [ text |-> row.text, actor |-> c ]]

\* INSERT ... ON CONFLICT DO NOTHING: the row that was read, under its number.
\* The actor is the one who overwrites it.
Snapshot(c, row) ==
    IF document_version[row.version] = NoSnapshot
    THEN [document_version EXCEPT ![row.version] = [ text |-> row.text, actor |-> c ]]
    ELSE document_version

\* The snapshot, the UPDATE and the commit.  Two inserts of one version wait for each
\* other and have the same text, so their order does not matter; the UPDATE counts
\* on from the version it finds, which need not be the one that was read.
Commit(c, row, text) ==
    /\ document.version < MaxVersion
    /\ document_version' = Snapshot(c, row)
    /\ document' = [ version |-> document.version + 1, text |-> text ]
    /\ written' = Append(written, [ text |-> text, actor |-> c ])

Write(c) ==
    /\ request[c].pc = "read"
    /\ Commit(c, request[c].row, request[c].text)
    /\ request' = [request EXCEPT ![c].pc = "done", ![c].row = None]

\* writeDocument: the answer is read after the commit.
Reply(c) ==
    /\ request[c].pc = "done"
    /\ request' = [request EXCEPT ![c].pc = "replied", ![c].row = document]
    /\ UNCHANGED <<document, document_version, written>>

Respond(c) == request' = [request EXCEPT ![c] = Idle]

\* The client gets its answer, or nothing: the transaction is rolled back if it has
\* not been committed.
Finish(c) ==
    /\ request[c] # Idle
    /\ Respond(c)
    /\ UNCHANGED <<document, document_version, written>>

ServerStep(c) == Read(c) \/ Write(c) \/ Reply(c)

Next ==
    \/ \E c \in Client, t \in Text, b \in Version \cup {None} : Save(c, t, b)
    \/ \E c \in Client, v \in Version : RestoreDocumentVersion(c, v)
    \/ \E c \in Client : ServerStep(c)
    \/ \E c \in Client : Finish(c)

Spec == Init /\ [][Next]_serverVars

--------------------------------------------------------------------------------
(* Properties *)

\* A row of the history says what the document said at that version, also when
\* the save that filed it was overtaken between reading and writing.
SnapshotsFaithful ==
    \A v \in Version : document_version[v] # NoSnapshot =>
        /\ v <= Len(written)
        /\ document_version[v].text = written[v].text

\* quagenticus.md:54 "Nothing is lost.  Every change is versioned": every text that
\* has been overwritten can still be found in the history.  True of requirements.
HistoryComplete ==
    \A v \in 1..(document.version - 1) : document_version[v] # NoSnapshot

Overwrites(c) == request[c].pc = "read" /\ request'[c].pc = "done"

\* document_functions.sql:72 "with optimistic concurrency check": a save that names a
\* version overwrites that version and no other.  True of requirements.
CheckedSavesCompare ==
    [][\A c \in Client : Overwrites(c) /\ request[c].base # None =>
            document.version = request[c].base]_serverVars

\* An entry of the history is never rewritten.
HistoryImmutable ==
    [][\A v \in Version : document_version[v] # NoSnapshot =>
            document_version'[v] = document_version[v]]_serverVars

\* quagenticus.md:54 and document_functions.sql:72 together: the document and its history
\* are one list that saves append to, each at one moment and where it expects to, although
\* reading, comparing, filing and writing are statements of their own.  True of requirements.
HistoryOf == INSTANCE DocumentHistory WITH
    history <- [ v \in 1..document.version |->
                    IF v = document.version THEN document.text ELSE document_version[v].text ],
    save    <- [ c \in Client |->
                    IF request[c].pc = "read" THEN [request[c] EXCEPT !.pc = "sent", !.row = None]
                                              ELSE request[c] ]

ImplementsHistory == HistoryOf!Spec
===============================================================================
