----------------------------- MODULE Attachments -----------------------------
(***************************************************************************)
(* Attachments: rows in PostgreSQL, files in the storage, and the browser  *)
(* forms that hold files not yet published (internal/handlers/             *)
(* attachments.go, storage/local.go, the worker's purge, CommentComposer   *)
(* and CreateRequirementModal).                                            *)
(*                                                                         *)
(* A file is stored first and its row committed next; a row is deleted     *)
(* first and its file next.  No transaction spans both, the API or the     *)
(* worker may die between them, and the uploads of one request are         *)
(* transactions of their own.  A file uploaded for a text that is still    *)
(* being written is staged, and adopted by what is published: a comment on *)
(* an existing document or a new requirement.                              *)
(*                                                                         *)
(* A file stands for its storage key and the id of its row, both drawn     *)
(* once.  The adoption is one UPDATE whose count decides on COMMIT or      *)
(* ROLLBACK and that holds its rows until then, so it is one step.         *)
(***************************************************************************)
EXTENDS Naturals, FiniteSets

CONSTANTS
    File,      \* storage keys and ids
    Upload,    \* multipart requests served at a time
    Post,      \* what may be published: comments and new requirements
    Page,      \* documents that the page may show
    MaxFiles,  \* QG_UPLOAD_MAX_FILES
    None

ASSUME AttachmentsAssumption ==
    /\ MaxFiles \in Nat \ {0}
    /\ None \notin File \cup Post \cup Page
    /\ Page \cap Post = {}

VARIABLES
    attachment,   \* the table
    disk,         \* the files in the storage
    upload,       \* the upload requests
    doomed,       \* files whose rows are gone, by the process that deletes them
    form,         \* the files a form shows
    drop,         \* DELETE /uploads/{id} requests on their way
    post,         \* requests to publish
    history       \* ghost: what happened to files; guards only keep keys new by it

server == <<attachment, disk, upload, doomed>>
browser == <<form, drop, post>>
vars == <<server, browser, history>>

Form == {"modal", "composer"}
Process == {"api", "worker"}

\* The rows that the CHECK attachment_owner and the adoptions allow: what is attached
\* has a document, what is staged no comment.
Row ==
    { row \in [ status      : {"staged", "attached"},
                document_id : {None} \cup Page \cup Post,   \* a new requirement is its post
                journal_id  : {None} \cup Post ] :           \* a comment is its post
        IF row.status = "staged" THEN row.journal_id = None ELSE row.document_id # None }

\* The documents that a request from a form may be bound to.
Bound(from) == IF from = "modal" THEN {None} ELSE Page

UploadState ==
    { r \in [ to   : Form \cup {"page"},      \* UploadStaged, UploadToDocument
              doc  : Page \cup {None},        \* the document it is bound to
              seen : BOOLEAN,                 \* the form is still there
              out  : SUBSET File,             \* stored and in the table
              file : File \cup {None} ] :     \* stored, its row not yet written
        r.doc \in Bound(r.to) }

PostState ==
    { r \in [ from  : Form,
              on    : Page \cup {None},       \* the document to comment on, until then
              seen  : BOOLEAN,                \* a form waits for the answer
              sent  : SUBSET File,            \* attachment_ids
              state : {"sent", "created", "answered", "unheard"} ] :
        r.on \in IF r.state = "sent" THEN Bound(r.from) ELSE {None} }

\* None is no row and no request.
ASSUME NoneAssumption == None \notin Row \cup UploadState \cup PostState

Ghost ==
    [ answered : SUBSET File,    \* uploads that a client was told of
      removed  : SUBSET File,    \* rows deleted by DeleteAttachment
      purged   : SUBSET File,
      leaked   : SUBSET File ]   \* left behind by a process that died

TypeOK ==
    /\ attachment \in [File -> Row \cup {None}]
    /\ disk \subseteq File
    /\ upload \in [Upload -> UploadState \cup {None}]
    /\ doomed \in [Process -> SUBSET File]
    /\ form \in [Form -> SUBSET File]
    /\ drop \subseteq File
    /\ post \in [Post -> PostState \cup {None}]
    /\ history \in Ghost

Init ==
    /\ attachment = [f \in File |-> None]
    /\ disk = {}
    /\ upload = [u \in Upload |-> None]
    /\ doomed = [p \in Process |-> {}]
    /\ form = [m \in Form |-> {}]
    /\ drop = {}
    /\ post = [p \in Post |-> None]
    /\ history = [answered |-> {}, removed |-> {}, purged |-> {}, leaked |-> {}]

\* Keys that were drawn before, and may have left no trace.
Past == history.answered \cup history.removed \cup history.purged \cup history.leaked

Exists(f) == attachment[f] # None
Staged(f) == Exists(f) /\ attachment[f].status = "staged"
Attached(f) == Exists(f) /\ attachment[f].status = "attached"
Serving == {u \in Upload : upload[u] # None}
Published(p) == post[p] # None /\ post[p].state # "sent"
Pending(m) == {p \in Post : /\ post[p] # None /\ post[p].from = m /\ post[p].seen
                            /\ post[p].state \in {"sent", "created"}}

--------------------------------------------------------------------------------
(* Receiving files *)

StoredKeys(u) == upload[u].out \cup ({upload[u].file} \ {None})

\* A file is picked while the page shows document d; the modal has none yet.
StartUpload(u, to, d) ==
    /\ upload[u] = None
    /\ upload' = [upload EXCEPT ![u] =
           [to |-> to, doc |-> d, seen |-> TRUE, out |-> {}, file |-> None]]
    /\ UNCHANGED <<attachment, disk, doomed, browser, history>>

\* Put of the next part: the key is random, hence new.
StoreFile(u, f) ==
    /\ u \in Serving
    /\ upload[u].file = None
    /\ Cardinality(upload[u].out) < MaxFiles
    /\ f \notin disk /\ ~Exists(f)
    /\ f \notin Past
    /\ disk' = disk \cup {f}
    /\ upload' = [upload EXCEPT ![u].file = f]
    /\ UNCHANGED <<attachment, doomed, browser, history>>

NewRow(u) ==
    [ status      |-> IF upload[u].to = "page" THEN "attached" ELSE "staged",
      document_id |-> upload[u].doc, journal_id |-> None ]

\* The INSERT and its COMMIT.
InsertRow(u) ==
    /\ u \in Serving
    /\ upload[u].file # None
    /\ attachment' = [attachment EXCEPT ![upload[u].file] = NewRow(u)]
    /\ upload' = [upload EXCEPT ![u].out = @ \cup {upload[u].file}, ![u].file = None]
    /\ UNCHANGED <<disk, doomed, browser, history>>

\* Mutant: the file is not yet among the stored keys when its row fails.
Cleanup_Committed(u) == disk \ upload[u].out

\* cleanup(): every file of the request goes, also those whose rows are committed.
Cleanup(u) == disk \ StoredKeys(u)

\* The request fails: the next part cannot be read, is too large (Put takes it away
\* itself) or one too many, the INSERT fails, or there was no file at all.
RefuseUpload(u) ==
    /\ u \in Serving
    /\ disk' = Cleanup(u)
    /\ upload' = [upload EXCEPT ![u] = None]
    /\ UNCHANGED <<attachment, doomed, browser, history>>

\* All parts read.  The client may have stopped listening; if the form is there,
\* onFilesUploaded adds the files to it.
FinishUpload(u, heard) ==
    /\ u \in Serving
    /\ upload[u].out # {} /\ upload[u].file = None
    /\ IF heard
       THEN /\ history' = [history EXCEPT !.answered = @ \cup upload[u].out]
            /\ form' = [m \in Form |->
                   IF m = upload[u].to /\ upload[u].seen
                   THEN form[m] \cup upload[u].out ELSE form[m]]
       ELSE UNCHANGED <<history, form>>
    /\ upload' = [upload EXCEPT ![u] = None]
    /\ UNCHANGED <<attachment, disk, doomed, drop, post>>

--------------------------------------------------------------------------------
(* Deleting *)

DeleteRows(fs, p) ==
    /\ attachment' = [f \in File |-> IF f \in fs THEN None ELSE attachment[f]]
    /\ doomed' = [doomed EXCEPT ![p] = @ \cup fs]

\* Mutant: the file goes first, and the transaction may still fail.
DeleteAttachment_FileFirst(f) ==
    /\ Exists(f)
    /\ attachment[f].document_id # None
    /\ disk' = disk \ {f}
    /\ \/ /\ attachment' = [attachment EXCEPT ![f] = None]
          /\ history' = [history EXCEPT !.removed = @ \cup {f}]
       \/ UNCHANGED <<attachment, history>>
    /\ UNCHANGED <<upload, doomed, browser>>

\* By the author or a maintainer, through the document.  The status is not
\* asked for: a staged file of a comment has a document as well.
DeleteAttachment(f) ==
    /\ Exists(f)
    /\ attachment[f].document_id # None
    /\ DeleteRows({f}, "api")
    /\ history' = [history EXCEPT !.removed = @ \cup {f}]
    /\ UNCHANGED <<disk, upload, browser>>

\* Mutant: the row's status is not part of the WHERE.
DeleteStaged_AnyStatus(f) ==
    /\ f \in drop
    /\ drop' = drop \ {f}
    /\ IF Exists(f) THEN DeleteRows({f}, "api") ELSE UNCHANGED <<attachment, doomed>>
    /\ UNCHANGED <<disk, upload, form, post, history>>

\* DELETE /uploads/{id} arrives; its answer is ignored.
DeleteStaged(f) ==
    /\ f \in drop
    /\ drop' = drop \ {f}
    /\ IF Staged(f) THEN DeleteRows({f}, "api") ELSE UNCHANGED <<attachment, doomed>>
    /\ UNCHANGED <<disk, upload, form, post, history>>

\* attachment_purge_staged takes the staged rows older than a day, which may be
\* any of them; a job of the worker does not overlap itself.
PurgeStaged(fs) ==
    /\ doomed["worker"] = {}
    /\ \A f \in fs : Staged(f)
    /\ DeleteRows(fs, "worker")
    /\ history' = [history EXCEPT !.purged = @ \cup fs]
    /\ UNCHANGED <<disk, upload, browser>>

\* store.Delete, after the COMMIT.
EraseFile(p, f) ==
    /\ f \in doomed[p]
    /\ disk' = disk \ {f}
    /\ doomed' = [doomed EXCEPT ![p] = @ \ {f}]
    /\ UNCHANGED <<attachment, upload, browser, history>>

\* A process dies and starts again: nothing remembers the files it was at.
Crash(p) ==
    /\ p = "api" => doomed[p] # {} \/ Serving # {}
    /\ p = "worker" => doomed[p] # {}
    /\ doomed' = [doomed EXCEPT ![p] = {}]
    /\ upload' = IF p = "api" THEN [u \in Upload |-> None] ELSE upload
    /\ history' = [history EXCEPT !.leaked = @ \cup doomed[p] \cup
           IF p = "api" THEN {upload[u].file : u \in Serving} \ {None} ELSE {}]
    /\ UNCHANGED <<attachment, disk, browser>>

--------------------------------------------------------------------------------
(* Forms *)

FormSame == UNCHANGED <<server, history>>

\* The X of a file, at any time: the request to delete it goes its own way.
RemoveFile(m, f) ==
    /\ f \in form[m]
    /\ form' = [form EXCEPT ![m] = @ \ {f}]
    /\ drop' = drop \cup {f}
    /\ UNCHANGED post /\ FormSame

\* Mutant: closing does not reset the files.
CloseModal_NoReset ==
    /\ form["modal"] # {}
    /\ drop' = drop \cup form["modal"]
    /\ UNCHANGED <<form, post>> /\ FormSame

\* Cancel is enabled even while the requirement is being created.
CloseModal ==
    /\ form["modal"] # {}
    /\ drop' = drop \cup form["modal"]
    /\ form' = [form EXCEPT !["modal"] = {}]
    /\ UNCHANGED post /\ FormSame

\* Nobody is told any more of what is being published.
Forgotten(r) ==
    [r EXCEPT !.seen = FALSE, !.state = IF @ = "created" THEN "unheard" ELSE @]

\* The form goes, with its page or when the page turns to what must be fetched first:
\* what is on its way finds no form.  When the page turns to a requirement in the cache
\* the composer, which has no key, stays with its files, its uploads and its requests.
Leave(m) ==
    /\ form' = [form EXCEPT ![m] = {}]
    /\ post' = [p \in Post |-> IF p \in Pending(m) THEN Forgotten(post[p]) ELSE post[p]]
    /\ upload' = [u \in Upload |-> IF u \in Serving /\ upload[u].to = m
                                   THEN [upload[u] EXCEPT !.seen = FALSE] ELSE upload[u]]
    /\ UNCHANGED <<attachment, disk, doomed, drop, history>>

\* submit(), for the document that the page shows by now.  The modal's buttons wait for
\* the last answer, the composer's Ctrl+Enter does not; the callbacks of an earlier
\* mutate() are then never called.
Submit(m, p, d) ==
    /\ post[p] = None
    /\ m = "modal" => Pending(m) = {}
    /\ post' = [q \in Post |->
           CASE q = p -> [from |-> m, on |-> d, seen |-> TRUE, sent |-> form[m],
                          state |-> "sent"]
             [] q \in Pending(m) -> Forgotten(post[q])
             [] OTHER -> post[q]]
    /\ UNCHANGED <<form, drop>> /\ FormSame

--------------------------------------------------------------------------------
(* Publishing *)

\* Mutant: the status is not part of the WHERE.
Adoptable_AnyStatus(p, f) ==
    /\ Exists(f)
    /\ attachment[f].document_id \in {None, post[p].on}

\* The WHERE of requirement_create_full and of comment_create.
Adoptable(p, f) ==
    /\ Staged(f)
    /\ attachment[f].document_id \in {None, post[p].on}

\* Mutant: a comment's adoption leaves the document as the upload set it.
AdoptedRow_JournalOnly(p, f) ==
    IF post[p].from = "modal"
    THEN [attachment[f] EXCEPT !.status = "attached"]
    ELSE [attachment[f] EXCEPT !.status = "attached", !.journal_id = p]

AdoptedRow(p, f) ==
    IF post[p].from = "modal"
    THEN [attachment[f] EXCEPT !.document_id = p, !.status = "attached"]
    ELSE [attachment[f] EXCEPT !.document_id = post[p].on, !.status = "attached",
                               !.journal_id = p]

\* The transaction commits only if it adopted as many rows as it was sent.
Publish(p) ==
    /\ post[p] # None /\ post[p].state = "sent"
    /\ \A f \in post[p].sent : Adoptable(p, f)
    /\ attachment' = [f \in File |-> IF f \in post[p].sent THEN AdoptedRow(p, f)
                                     ELSE attachment[f]]
    /\ post' = [post EXCEPT ![p] = [@ EXCEPT
           !.on = None, !.state = IF post[p].seen THEN "created" ELSE "unheard"]]
    /\ UNCHANGED <<disk, upload, doomed, form, drop, history>>

\* It fails, for the files or for any other reason, or never arrives: onError
\* leaves the form as it is.
RefusePost(p) ==
    /\ post[p] # None /\ post[p].state = "sent"
    /\ post' = [post EXCEPT ![p] = None]
    /\ UNCHANGED <<form, drop>> /\ FormSame

\* onSuccess empties the form, also of what was added in the meantime.
AnswerPost(p) ==
    /\ post[p] # None /\ post[p].state = "created"
    /\ post' = [post EXCEPT ![p].state = "answered"]
    /\ form' = [form EXCEPT ![post[p].from] = {}]
    /\ UNCHANGED drop /\ FormSame

\* The answer is lost, and onError leaves the form.
LoseAnswer(p) ==
    /\ post[p] # None /\ post[p].state = "created"
    /\ post' = [post EXCEPT ![p] = Forgotten(@)]
    /\ UNCHANGED <<form, drop>> /\ FormSame

--------------------------------------------------------------------------------
Uploading == \E u \in Upload :
    \/ \E to \in Form \cup {"page"} : \E d \in Bound(to) : StartUpload(u, to, d)
    \/ \E f \in File : StoreFile(u, f)
    \/ InsertRow(u)
    \/ RefuseUpload(u)
    \/ \E heard \in BOOLEAN : FinishUpload(u, heard)

Deleting ==
    \/ \E f \in File : DeleteAttachment(f) \/ DeleteStaged(f)
    \/ \E fs \in SUBSET File \ {{}} : PurgeStaged(fs)
    \/ \E p \in Process : Crash(p) \/ \E f \in File : EraseFile(p, f)

Publishing ==
    \/ CloseModal
    \/ \E m \in Form : Leave(m) \/ \E f \in File : RemoveFile(m, f)
    \/ \E m \in Form, p \in Post : \E d \in Bound(m) : Submit(m, p, d)
    \/ \E p \in Post : Publish(p) \/ RefusePost(p) \/ AnswerPost(p) \/ LoseAnswer(p)

Next == Uploading \/ Deleting \/ Publishing

Spec == Init /\ [][Next]_vars

--------------------------------------------------------------------------------
(* Properties *)

HasFileOf(p, f) ==
    /\ Attached(f)
    /\ IF post[p].from = "modal" THEN attachment[f].document_id = p
                                 ELSE attachment[f].journal_id = p

\* What was published keeps every file it was sent with, and shares none, until
\* DeleteAttachment takes one: whatever the purge, the X of a file, Cancel and a
\* second submit do at the same time.
PublishedWhole ==
    \A p \in Post : Published(p) =>
        \A f \in post[p].sent \ history.removed : HasFileOf(p, f)

\* A file whose upload was answered is in the storage as long as its row is in the
\* table: a signed link to it works.
AnsweredFilesServed ==
    \A f \in history.answered : Exists(f) => f \in disk

\* A file without a row is about to get one, about to be deleted, or was left
\* behind by a process that died: no error path leaks files.
OrphansOnlyByCrash ==
    \A f \in disk :
        \/ Exists(f)
        \/ \E u \in Serving : upload[u].file = f
        \/ \E p \in Process : f \in doomed[p]
        \/ f \in history.leaked

\* The WHERE of requirement_create_full and of comment_create would take the file, on
\* document d.
PublishableOn(f, d) == Staged(f) /\ attachment[f].document_id \in {None, d}

\* A file that a form shows can still be published: from the modal as it is, from the
\* composer once the page shows the document that the file was uploaded for, which may
\* not be the one it shows now.  Unless it was purged or deleted, or published by a
\* request whose answer the form never got.
FormFilesUsable ==
    \A m \in Form : \A f \in form[m] :
        \/ \E d \in Bound(m) : PublishableOn(f, d)
        \/ f \in history.purged \cup history.removed
        \/ \E p \in Post : /\ Published(p) /\ f \in post[p].sent
                           /\ post[p].state # "answered"
===============================================================================
