-------------------------- MODULE AttachmentsProofs --------------------------
(***************************************************************************)
(* Rows and files of attachments, for any number of files, uploads and     *)
(* posts.                                                                  *)
(*                                                                         *)
(* The argument is about who knows a file.  Only its upload does until the *)
(* answer (Unanswered), so that its failure takes nothing away from anyone *)
(* else (KeysApart).  Afterwards one form shows it, until its X is clicked *)
(* or it is sent (OneForm), and a request can be made only of what is      *)
(* known (Known).                                                          *)
(***************************************************************************)
EXTENDS Attachments, TLAPS

--------------------------------------------------------------------------------
(* What is invariant *)

\* The file that is being received has no row yet, and is known to nobody.
FileInHand ==
    \A u \in Serving : upload[u].file # None =>
        /\ upload[u].file \in disk
        /\ ~Exists(upload[u].file)
        /\ upload[u].file \notin Past

\* The files received are not answered yet; they have their rows, unless these were
\* deleted meanwhile.
Unanswered ==
    \A u \in Serving : \A f \in upload[u].out :
        /\ f \notin history.answered
        /\ Exists(f) \/ f \in history.removed \cup history.purged
        /\ Exists(f) => f \in disk
        /\ Exists(f) /\ upload[u].to # "page" =>
              Staged(f) /\ attachment[f].document_id = upload[u].doc

KeysApart ==
    \A u, v \in Serving : u # v => StoredKeys(u) \cap StoredKeys(v) = {}

Known ==
    /\ \A m \in Form : form[m] \subseteq history.answered
    /\ drop \subseteq history.answered
    /\ \A p \in Post : post[p] # None => post[p].sent \subseteq history.answered

\* What a process is about to delete has no row, and never gets one.
DoomedGone ==
    \A p \in Process : \A f \in doomed[p] : f \in Past /\ ~Exists(f)

\* A file is in one form, and in none once its deletion is on the way.
OneForm ==
    \A m \in Form : \A f \in form[m] :
        /\ f \notin drop
        /\ \A n \in Form : f \in form[n] => n = m
        /\ \A p \in Post : post[p] # None /\ f \in post[p].sent => post[p].from = m

IInv ==
    /\ TypeOK
    /\ FileInHand /\ Unanswered /\ KeysApart
    /\ Known /\ DoomedGone /\ OneForm
    /\ PublishedWhole /\ AnsweredFilesServed /\ OrphansOnlyByCrash /\ FormFilesUsable

--------------------------------------------------------------------------------
(* Receiving files *)

LEMMA UploadTyped ==
    ASSUME TypeOK, NEW u \in Serving
    PROVE  /\ u \in Upload /\ upload[u] \in UploadState /\ upload[u] # None
           /\ upload[u].out \in SUBSET File
           /\ upload[u].file \in File \cup {None}
           /\ upload[u].to \in Form \cup {"page"}
           /\ upload[u].doc \in Bound(upload[u].to)
  BY DEF TypeOK, Serving, UploadState

LEMMA PostTyped ==
    ASSUME TypeOK, NEW p \in Post, post[p] # None
    PROVE  /\ post[p] \in PostState
           /\ post[p].from \in Form /\ post[p].sent \in SUBSET File
           /\ post[p].state = "sent" => post[p].on \in Bound(post[p].from)
           /\ post[p].state \in {"sent", "created", "answered", "unheard"}
  BY DEF TypeOK, PostState

LEMMA StartStep ==
    ASSUME IInv, NEW u \in Upload, NEW to \in Form \cup {"page"}, NEW d \in Bound(to),
           StartUpload(u, to, d)
    PROVE  IInv'
<1> DEFINE new == [to |-> to, doc |-> d, seen |-> TRUE, out |-> {}, file |-> None]
<1>1. new \in UploadState /\ new # None
  <2>1. d \in Page \cup {None}
    BY DEF Bound
  <2>2. new \in UploadState
    BY <2>1 DEF UploadState
  <2> QED  BY <2>2, NoneAssumption DEF NoneAssumption
<1>2. /\ upload' = [upload EXCEPT ![u] = new]
      /\ UNCHANGED <<attachment, disk, doomed, form, drop, post, history>>
  BY DEF StartUpload, browser
<1>3. Serving' = Serving \cup {u} /\ u \notin Serving
  BY <1>1, <1>2 DEF StartUpload, Serving, IInv, TypeOK
<1>4. /\ upload'[u] = new /\ StoredKeys(u)' = {}
      /\ \A v \in Serving : upload'[v] = upload[v] /\ StoredKeys(v)' = StoredKeys(v)
  BY <1>1, <1>2, <1>3 DEF Serving, IInv, TypeOK, StoredKeys
<1>5. TypeOK'
  BY <1>1, <1>2 DEF IInv, TypeOK
<1>6. FileInHand' /\ Unanswered' /\ KeysApart'
  BY <1>2, <1>3, <1>4 DEF IInv, FileInHand, Unanswered, KeysApart, Exists, Staged, Past
<1>7. Known' /\ DoomedGone' /\ OneForm'
  BY <1>2 DEF IInv, Known, DoomedGone, OneForm, Exists, Past
<1>8. PublishedWhole' /\ AnsweredFilesServed' /\ FormFilesUsable'
  BY <1>2 DEF IInv, PublishedWhole, AnsweredFilesServed, FormFilesUsable, PublishableOn,
              Published, HasFileOf, Attached, Staged, Exists
<1>9. OrphansOnlyByCrash'
  BY <1>2, <1>3, <1>4 DEF IInv, OrphansOnlyByCrash, Exists
<1> QED  BY <1>5, <1>6, <1>7, <1>8, <1>9 DEF IInv

LEMMA StoreStep ==
    ASSUME IInv, NEW u \in Upload, NEW f \in File, StoreFile(u, f)
    PROVE  IInv'
<1>1. /\ u \in Serving /\ upload[u] \in UploadState /\ upload[u].file = None
      /\ f \notin disk /\ ~Exists(f) /\ f \notin Past /\ f # None
      /\ disk' = disk \cup {f}
      /\ upload' = [upload EXCEPT ![u].file = f]
      /\ UNCHANGED <<attachment, doomed, form, drop, post, history>>
  BY UploadTyped, AttachmentsAssumption DEF StoreFile, browser, IInv, AttachmentsAssumption
<1>2. /\ upload'[u] \in UploadState /\ upload'[u] # None
      /\ upload'[u].to = upload[u].to /\ upload'[u].doc = upload[u].doc
      /\ upload'[u].out = upload[u].out /\ upload'[u].file = f
      /\ \A v \in Upload : v # u => upload'[v] = upload[v]
  BY <1>1, NoneAssumption DEF UploadState, NoneAssumption, IInv, TypeOK
<1>3. Serving' = Serving
  BY <1>1, <1>2 DEF Serving
<1>4. \A v \in Serving : f \notin StoredKeys(v)
  BY <1>1 DEF IInv, FileInHand, Unanswered, StoredKeys, Past
<1>5. /\ StoredKeys(u)' = StoredKeys(u) \cup {f}
      /\ \A v \in Serving : v # u => StoredKeys(v)' = StoredKeys(v)
  BY <1>1, <1>2 DEF StoredKeys, Serving
<1>6. TypeOK'
  BY <1>1, <1>2 DEF IInv, TypeOK
<1>7. FileInHand' /\ Unanswered'
  BY <1>1, <1>2, <1>3 DEF IInv, FileInHand, Unanswered, Serving, Exists, Staged, Past
<1>8. KeysApart'
  BY <1>3, <1>4, <1>5 DEF IInv, KeysApart
<1>9. Known' /\ DoomedGone' /\ OneForm'
  BY <1>1 DEF IInv, Known, DoomedGone, OneForm, Exists, Past
<1>10. PublishedWhole' /\ AnsweredFilesServed' /\ FormFilesUsable'
  BY <1>1 DEF IInv, PublishedWhole, AnsweredFilesServed, FormFilesUsable, PublishableOn,
              Published, HasFileOf, Attached, Staged, Exists
<1>11. OrphansOnlyByCrash'
  <2> SUFFICES ASSUME NEW g \in disk', ~Exists(g), g # f
               PROVE  \/ \E v \in Serving : upload'[v].file = g
                      \/ \E p \in Process : g \in doomed[p]
                      \/ g \in history.leaked
    BY <1>1, <1>2, <1>3 DEF OrphansOnlyByCrash, Exists
  <2>1. g \in disk /\ g # None
    BY <1>1, AttachmentsAssumption DEF IInv, TypeOK, AttachmentsAssumption
  <2> QED  BY <1>1, <1>2, <2>1, UploadTyped DEF IInv, OrphansOnlyByCrash
<1> QED  BY <1>6, <1>7, <1>8, <1>9, <1>10, <1>11 DEF IInv

\* The row that a request writes is of a file that only it knows.
LEMMA InsertStep ==
    ASSUME IInv, NEW u \in Upload, InsertRow(u)
    PROVE  IInv'
<1>0. PICK f : f = upload[u].file
  OBVIOUS
<1>1. /\ u \in Serving /\ upload[u] \in UploadState /\ f \in File /\ f # None
      /\ f \in disk /\ ~Exists(f) /\ f \notin Past
      /\ attachment' = [attachment EXCEPT ![f] = NewRow(u)]
      /\ upload' = [upload EXCEPT ![u].out = @ \cup {f}, ![u].file = None]
      /\ UNCHANGED <<disk, doomed, form, drop, post, history>>
  BY <1>0, UploadTyped, AttachmentsAssumption
  DEF AttachmentsAssumption, InsertRow, browser, IInv, FileInHand
<1>2. /\ upload'[u] \in UploadState /\ upload'[u] # None
      /\ upload'[u].to = upload[u].to /\ upload'[u].doc = upload[u].doc
      /\ upload'[u].out = upload[u].out \cup {f} /\ upload'[u].file = None
      /\ \A v \in Upload : v # u => upload'[v] = upload[v]
  <2>1. /\ upload'[u] = [upload[u] EXCEPT !.out = @ \cup {f}, !.file = None]
        /\ \A v \in Upload : v # u => upload'[v] = upload[v]
    BY <1>1 DEF IInv, TypeOK
  <2>2. PICK r, q : r = upload[u] /\ q = upload'[u]
    OBVIOUS
  <2>3. r \in UploadState /\ q = [r EXCEPT !.out = @ \cup {f}, !.file = None]
    BY <1>1, <2>1, <2>2
  <2>4. q \in UploadState
    BY <1>1, <2>3 DEF UploadState
  <2>5. q # None
    BY <2>4, NoneAssumption DEF NoneAssumption
  <2>6. q.to = r.to /\ q.doc = r.doc /\ q.out = r.out \cup {f} /\ q.file = None
    BY <2>3 DEF UploadState
  <2> QED  BY <2>1, <2>2, <2>4, <2>5, <2>6
<1>3. Serving' = Serving
  BY <1>1, <1>2 DEF Serving
<1>4. /\ NewRow(u) \in Row /\ NewRow(u) # None
      /\ NewRow(u).status = IF upload[u].to = "page" THEN "attached" ELSE "staged"
      /\ NewRow(u).document_id = upload[u].doc
  <2>1. NewRow(u) \in Row
    <3>1. upload[u].to \in {"modal", "composer", "page"}
      BY <1>1 DEF UploadState, Form
    <3>2. upload[u].doc \in Page \cup {None} /\ (upload[u].to = "page" => upload[u].doc \in Page)
      BY <1>1 DEF UploadState, Bound
    <3>3. None \notin Page
      BY AttachmentsAssumption DEF AttachmentsAssumption
    <3> QED  BY <3>1, <3>2, <3>3 DEF NewRow, Row
  <2> QED  BY <2>1, NoneAssumption DEF NoneAssumption, NewRow
<1>5. /\ Exists(f)' /\ (upload[u].to # "page" => Staged(f)')
      /\ attachment'[f].document_id = upload[u].doc
      /\ \A g \in File : g # f => attachment'[g] = attachment[g]
  BY <1>1, <1>4 DEF IInv, TypeOK, Exists, Staged
<1>6. \A v \in Serving : StoredKeys(v)' = StoredKeys(v)
  <2>1. StoredKeys(u) = upload[u].out \cup {f} /\ StoredKeys(u)' = upload[u].out \cup {f}
    BY <1>0, <1>1, <1>2 DEF StoredKeys
  <2>2. \A v \in Serving : v # u => StoredKeys(v)' = StoredKeys(v)
    BY <1>2 DEF StoredKeys, Serving
  <2> QED  BY <2>1, <2>2
<1>7. \A v \in Serving : v # u => f \notin StoredKeys(v)
  <2>1. f \in StoredKeys(u)
    BY <1>0, <1>1 DEF StoredKeys
  <2> QED  BY <1>1, <2>1 DEF IInv, KeysApart
<1>8. TypeOK'
  BY <1>1, <1>2, <1>4 DEF IInv, TypeOK
<1>9. FileInHand'
  <2> SUFFICES ASSUME NEW v \in Serving, upload'[v].file # None
               PROVE  /\ upload'[v].file \in disk
                      /\ attachment'[upload'[v].file] = None
                      /\ upload'[v].file \notin Past
    BY <1>1, <1>3 DEF FileInHand, Past, Exists
  <2>1. v # u /\ upload'[v] = upload[v] /\ upload[v].file \in File
    BY <1>2, UploadTyped DEF IInv, Serving
  <2>2. upload[v].file # f
    BY <1>1, <1>7, <2>1 DEF StoredKeys
  <2> QED  BY <1>5, <2>1, <2>2 DEF IInv, FileInHand, Exists
<1>10. Unanswered'
  <2> SUFFICES ASSUME NEW v \in Serving, NEW g \in upload'[v].out
               PROVE  /\ g \notin history.answered
                      /\ Exists(g)' \/ g \in history.removed \cup history.purged
                      /\ Exists(g)' => g \in disk
                      /\ Exists(g)' /\ upload'[v].to # "page" =>
                            Staged(g)' /\ attachment'[g].document_id = upload'[v].doc
    BY <1>1, <1>3 DEF Unanswered
  <2>1. CASE g = f
    <3>1. v = u
      BY <1>1, <1>2, <1>7, <2>1 DEF StoredKeys, Serving
    <3> QED  BY <1>1, <1>2, <1>5, <2>1, <3>1 DEF Past
  <2>2. CASE g # f
    <3>1. g \in upload[v].out /\ g \in File /\ upload'[v].to = upload[v].to
          /\ upload'[v].doc = upload[v].doc
      BY <1>1, <1>2, <2>2, UploadTyped DEF Serving, IInv
    <3> QED  BY <1>5, <2>2, <3>1 DEF IInv, Unanswered, Exists, Staged
  <2> QED  BY <2>1, <2>2
<1>11. KeysApart'
  BY <1>3, <1>6 DEF IInv, KeysApart
<1>12. Known' /\ OneForm'
  BY <1>1 DEF IInv, Known, OneForm
<1>13. DoomedGone'
  BY <1>1, <1>5 DEF IInv, TypeOK, DoomedGone, Exists, Past
<1>14. PublishedWhole' /\ AnsweredFilesServed'
  <2>1. \A p \in Post : Published(p) => f \notin post[p].sent
    BY <1>1 DEF IInv, Known, Published, Past
  <2>2. \A p \in Post : Published(p) => post[p].sent \subseteq File
    BY PostTyped DEF IInv, Published
  <2>3. PublishedWhole'
    BY <1>1, <1>5, <2>1, <2>2
    DEF IInv, PublishedWhole, Published, HasFileOf, Attached, Exists
  <2>4. AnsweredFilesServed'
    BY <1>1, <1>5 DEF IInv, TypeOK, Ghost, AnsweredFilesServed, Exists
  <2> QED  BY <2>3, <2>4
<1>15. OrphansOnlyByCrash'
  <2> SUFFICES ASSUME NEW g \in disk, g # f, ~Exists(g)
               PROVE  \/ \E v \in Serving : upload'[v].file = g
                      \/ \E p \in Process : g \in doomed[p]
                      \/ g \in history.leaked
    BY <1>1, <1>3, <1>5 DEF IInv, TypeOK, OrphansOnlyByCrash, Exists
  <2> QED  BY <1>0, <1>1, <1>2, UploadTyped DEF IInv, OrphansOnlyByCrash
<1>16. FormFilesUsable'
  BY <1>1, <1>5 DEF IInv, TypeOK, Known, FormFilesUsable, PublishableOn, Published, Staged, Exists,
                    Past
<1> QED  BY <1>8, <1>9, <1>10, <1>11, <1>12, <1>13, <1>14, <1>15, <1>16 DEF IInv

\* A request that ends, with or without its files.
LEMMA UploadEnds ==
    ASSUME IInv, NEW u \in Serving, upload' = [upload EXCEPT ![u] = None]
    PROVE  /\ Serving' = Serving \ {u}
           /\ \A v \in Serving' : upload'[v] = upload[v] /\ StoredKeys(v)' = StoredKeys(v)
           /\ upload' \in [Upload -> UploadState \cup {None}]
<1>1. u \in Upload /\ upload'[u] = None /\ \A v \in Upload : v # u => upload'[v] = upload[v]
  BY DEF IInv, TypeOK, Serving
<1>2. Serving' = Serving \ {u}
  BY <1>1 DEF Serving
<1>3. \A v \in Serving' : v \in Upload /\ v # u
  BY <1>2 DEF Serving
<1> QED  BY <1>1, <1>2, <1>3 DEF IInv, TypeOK, StoredKeys

LEMMA RefuseUploadStep ==
    ASSUME IInv, NEW u \in Upload, RefuseUpload(u)
    PROVE  IInv'
<1>1. /\ u \in Serving /\ disk' = disk \ StoredKeys(u)
      /\ upload' = [upload EXCEPT ![u] = None]
      /\ UNCHANGED <<attachment, doomed, form, drop, post, history>>
  BY DEF RefuseUpload, Cleanup, browser
<1>2. /\ Serving' = Serving \ {u}
      /\ \A v \in Serving' : upload'[v] = upload[v] /\ StoredKeys(v)' = StoredKeys(v)
      /\ upload' \in [Upload -> UploadState \cup {None}]
  BY <1>1, UploadEnds
<1>3. \A v \in Serving' : StoredKeys(v) \cap StoredKeys(u) = {}
  BY <1>1, <1>2 DEF IInv, KeysApart
<1>4. \A f \in StoredKeys(u) : f \notin history.answered
  BY <1>1 DEF IInv, FileInHand, Unanswered, StoredKeys, Past
<1>5. TypeOK'
  BY <1>1, <1>2 DEF IInv, TypeOK
<1>6. FileInHand'
  BY <1>1, <1>2, <1>3 DEF IInv, FileInHand, Exists, Past, StoredKeys
<1>7. Unanswered'
  BY <1>1, <1>2, <1>3 DEF IInv, Unanswered, Exists, Staged, StoredKeys
<1>8. KeysApart' /\ Known' /\ DoomedGone' /\ OneForm'
  BY <1>1, <1>2 DEF IInv, KeysApart, Known, DoomedGone, OneForm, Exists, Past
<1>9. PublishedWhole' /\ FormFilesUsable'
  BY <1>1 DEF IInv, PublishedWhole, FormFilesUsable, PublishableOn,
              Published, HasFileOf, Attached, Staged, Exists
<1>10. AnsweredFilesServed'
  BY <1>1, <1>4 DEF IInv, AnsweredFilesServed, Exists
<1>11. OrphansOnlyByCrash'
  <2> SUFFICES ASSUME NEW f \in disk', ~Exists(f)
               PROVE  \/ \E v \in Serving' : upload'[v].file = f
                      \/ \E p \in Process : f \in doomed[p]
                      \/ f \in history.leaked
    BY <1>1 DEF OrphansOnlyByCrash, Exists
  <2>1. f \in disk /\ f \in File /\ f # None
    BY <1>1, AttachmentsAssumption DEF IInv, TypeOK, AttachmentsAssumption
  <2>2. upload[u].file # f
    BY <1>1, <2>1 DEF StoredKeys
  <2> QED  BY <1>1, <1>2, <2>1, <2>2 DEF IInv, OrphansOnlyByCrash
<1> QED  BY <1>5, <1>6, <1>7, <1>8, <1>9, <1>10, <1>11 DEF IInv

LEMMA FinishStep ==
    ASSUME IInv, NEW u \in Upload, NEW heard \in BOOLEAN, FinishUpload(u, heard)
    PROVE  IInv'
<1>0. PICK fs : fs = upload[u].out
  OBVIOUS
<1>1. /\ u \in Serving /\ fs \in SUBSET File /\ upload[u].file = None
      /\ upload' = [upload EXCEPT ![u] = None]
      /\ UNCHANGED <<attachment, disk, doomed, drop, post>>
  BY <1>0, UploadTyped DEF FinishUpload, IInv
<1>2. /\ Serving' = Serving \ {u}
      /\ \A v \in Serving' : upload'[v] = upload[v] /\ StoredKeys(v)' = StoredKeys(v)
      /\ upload' \in [Upload -> UploadState \cup {None}]
  BY <1>1, UploadEnds
<1>3. /\ history'.answered \in {history.answered, history.answered \cup fs}
      /\ history'.removed = history.removed /\ history'.purged = history.purged
      /\ history'.leaked = history.leaked
      /\ history' \in Ghost
  <2>1. history' \in {history, [history EXCEPT !.answered = @ \cup fs]}
    BY <1>0 DEF FinishUpload
  <2> QED  BY <1>1, <2>1 DEF IInv, TypeOK, Ghost
<1>4. /\ DOMAIN form' = Form /\ form' = [m \in Form |-> form'[m]]
      /\ \A m \in Form : \/ form'[m] = form[m]
                         \/ /\ m = upload[u].to /\ form'[m] = form[m] \cup fs
                            /\ history'.answered = history.answered \cup fs
  <2>1. CASE heard
    <3>1. /\ history' = [history EXCEPT !.answered = @ \cup fs]
          /\ form' = [m \in Form |-> IF m = upload[u].to /\ upload[u].seen
                                     THEN form[m] \cup fs ELSE form[m]]
      BY <1>0, <2>1 DEF FinishUpload
    <3>2. history'.answered = history.answered \cup fs
      BY <3>1 DEF IInv, TypeOK, Ghost
    <3> QED  BY <3>1, <3>2
  <2>2. CASE ~heard
    BY <2>2 DEF FinishUpload, IInv, TypeOK
  <2> QED  BY <2>1, <2>2
<1>5. \A f \in fs :
          /\ f \notin history.answered
          /\ Exists(f) => f \in disk
          /\ upload[u].to # "page" =>
                \/ Staged(f) /\ attachment[f].document_id \in Bound(upload[u].to)
                \/ f \in history.removed \cup history.purged
  BY <1>0, <1>1, UploadTyped DEF IInv, Unanswered
<1>6. \A v \in Serving : v # u =>
          /\ upload[v].out \cap fs = {}
          /\ upload[v].file # None => upload[v].file \notin fs
  BY <1>0, <1>1 DEF IInv, KeysApart, StoredKeys
<1>7. TypeOK'
  BY <1>1, <1>2, <1>3, <1>4 DEF IInv, TypeOK
<1>8. FileInHand'
  BY <1>1, <1>2, <1>3, <1>6 DEF IInv, FileInHand, Exists, Past
<1>9. Unanswered'
  BY <1>1, <1>2, <1>3, <1>6 DEF IInv, Unanswered, Exists, Staged
<1>10. KeysApart'
  BY <1>2 DEF IInv, KeysApart
<1>11. Known' /\ DoomedGone'
  BY <1>1, <1>3, <1>4 DEF IInv, Known, DoomedGone, Exists, Past
<1>12. OneForm'
  BY <1>1, <1>4, <1>5 DEF IInv, Known, OneForm, Exists, Staged
<1>13. PublishedWhole'
  BY <1>1, <1>3 DEF IInv, PublishedWhole, Published, HasFileOf, Attached, Exists
<1>14. AnsweredFilesServed'
  <2> SUFFICES ASSUME NEW f \in history'.answered, Exists(f)
               PROVE  f \in disk
    BY <1>1 DEF AnsweredFilesServed, Exists
  <2>1. f \in history.answered \/ f \in fs
    BY <1>3
  <2> QED  BY <1>5, <2>1 DEF IInv, AnsweredFilesServed, Exists
<1>15. OrphansOnlyByCrash'
  <2> SUFFICES ASSUME NEW f \in disk, ~Exists(f)
               PROVE  \/ \E v \in Serving' : upload'[v].file = f
                      \/ \E p \in Process : f \in doomed[p]
                      \/ f \in history.leaked
    BY <1>1, <1>3 DEF OrphansOnlyByCrash, Exists
  <2>1. f # None
    BY AttachmentsAssumption DEF IInv, TypeOK, AttachmentsAssumption
  <2> QED  BY <1>1, <1>2, <2>1 DEF IInv, OrphansOnlyByCrash
<1>16. FormFilesUsable'
  <2> SUFFICES ASSUME NEW m \in Form, NEW f \in form'[m]
               PROVE  \/ \E d \in Bound(m) : PublishableOn(f, d)
                      \/ f \in history.purged \cup history.removed
                      \/ \E p \in Post : /\ Published(p) /\ f \in post[p].sent
                                         /\ post[p].state # "answered"
    BY <1>1, <1>3 DEF FormFilesUsable, PublishableOn, Published, Staged, Exists
  <2>1. CASE f \in form[m]
    BY <2>1 DEF IInv, FormFilesUsable
  <2>2. CASE f \in fs /\ m = upload[u].to
    <3>1. upload[u].to # "page"
      BY <2>2 DEF Form
    <3> QED  BY <1>5, <2>2, <3>1 DEF PublishableOn
  <2> QED  BY <1>4, <2>1, <2>2
<1> QED  BY <1>7, <1>8, <1>9, <1>10, <1>11, <1>12, <1>13, <1>14, <1>15, <1>16 DEF IInv

--------------------------------------------------------------------------------
(* Deleting *)

\* Rows go, and who took them, or a client that removed them, has them in the books.
LEMMA RowsGo ==
    ASSUME IInv, NEW p \in Process, NEW fs \in SUBSET File, DeleteRows(fs, p),
           UNCHANGED <<disk, upload, form, post>>,
           drop' \subseteq drop,
           history' \in Ghost,
           history'.answered = history.answered, history'.leaked = history.leaked,
           history.removed \subseteq history'.removed,
           history.purged \subseteq history'.purged,
           history'.removed \cup history'.purged
               \subseteq history.removed \cup history.purged \cup fs,
           \A f \in fs :
               /\ Exists(f)
               /\ \/ f \in history'.removed \cup history'.purged
                  \/ f \in history.answered /\ \A m \in Form : f \notin form[m]
               /\ Attached(f) => f \in history'.removed
    PROVE  IInv'
<1>1. /\ \A f \in fs : attachment'[f] = None
      /\ \A f \in File \ fs : attachment'[f] = attachment[f]
      /\ attachment' \in [File -> Row \cup {None}]
  BY DEF DeleteRows, IInv, TypeOK
<1>2. /\ doomed' \in [Process -> SUBSET File]
      /\ doomed'[p] = doomed[p] \cup fs
      /\ \A q \in Process : q # p => doomed'[q] = doomed[q]
  BY DEF DeleteRows, IInv, TypeOK
<1>3. Serving' = Serving
  BY DEF Serving
<1>4. TypeOK'
  BY <1>1, <1>2 DEF IInv, TypeOK
<1>5. FileInHand'
  BY <1>1, <1>3, UploadTyped DEF IInv, FileInHand, Exists, Past
<1>6. Unanswered'
  BY <1>1, <1>3, UploadTyped DEF IInv, Unanswered, Exists, Staged
<1>7. KeysApart' /\ Known' /\ OneForm'
  BY <1>3 DEF IInv, KeysApart, Known, OneForm, StoredKeys
<1>8. DoomedGone'
  <2> SUFFICES ASSUME NEW q \in Process, NEW f \in doomed'[q]
               PROVE  f \in Past' /\ attachment'[f] = None
    BY DEF DoomedGone, Exists
  <2>1. f \in fs \/ f \in doomed[q]
    BY <1>2
  <2>2. CASE f \in fs
    BY <1>1, <2>2 DEF Past
  <2>3. CASE f \in doomed[q] /\ f \notin fs
    <3>1. f \in File /\ f \in Past /\ attachment[f] = None
      BY <2>3 DEF IInv, TypeOK, DoomedGone, Exists
    <3> QED  BY <1>1, <2>3, <3>1 DEF Past
  <2> QED  BY <2>1, <2>2, <2>3
<1>9. PublishedWhole'
  <2> SUFFICES ASSUME NEW q \in Post, Published(q), NEW f \in post[q].sent \ history'.removed
               PROVE  HasFileOf(q, f)'
    BY DEF PublishedWhole, Published
  <2>1. f \in File /\ HasFileOf(q, f)
    BY PostTyped DEF IInv, PublishedWhole, Published
  <2>2. f \notin fs
    BY <2>1 DEF HasFileOf, Attached
  <2> QED  BY <1>1, <2>1, <2>2 DEF HasFileOf, Attached, Exists
<1>10. AnsweredFilesServed'
  BY <1>1 DEF IInv, TypeOK, Ghost, AnsweredFilesServed, Exists
<1>11. OrphansOnlyByCrash'
  <2> SUFFICES ASSUME NEW f \in disk, attachment'[f] = None
               PROVE  \/ \E u \in Serving : upload[u].file = f
                      \/ \E q \in Process : f \in doomed'[q]
                      \/ f \in history.leaked
    BY <1>3 DEF OrphansOnlyByCrash, Exists
  <2>1. f \in File
    BY DEF IInv, TypeOK
  <2>2. CASE f \in fs
    BY <1>2, <2>2
  <2>3. CASE f \notin fs
    <3>1. attachment[f] = None
      BY <1>1, <2>1, <2>3
    <3> QED  BY <1>2, <3>1 DEF IInv, OrphansOnlyByCrash, Exists
  <2> QED  BY <2>2, <2>3
<1>12. FormFilesUsable'
  <2> SUFFICES ASSUME NEW m \in Form, NEW f \in form[m],
                      f \notin history'.purged \cup history'.removed,
                      ~\E q \in Post : /\ Published(q) /\ f \in post[q].sent
                                       /\ post[q].state # "answered"
               PROVE  \E d \in Bound(m) : PublishableOn(f, d)'
    BY DEF FormFilesUsable, Published
  <2>1. f \in File /\ \E d \in Bound(m) : PublishableOn(f, d)
    BY DEF IInv, TypeOK, FormFilesUsable
  <2>2. f \notin fs
    OBVIOUS
  <2> QED  BY <1>1, <2>1, <2>2 DEF PublishableOn, Staged, Exists
<1> QED  BY <1>4, <1>5, <1>6, <1>7, <1>8, <1>9, <1>10, <1>11, <1>12 DEF IInv

LEMMA DeleteAttachmentStep ==
    ASSUME IInv, NEW f \in File, DeleteAttachment(f)
    PROVE  IInv'
<1>1. /\ history' = [history EXCEPT !.removed = @ \cup {f}]
      /\ Exists(f) /\ DeleteRows({f}, "api")
      /\ UNCHANGED <<disk, upload, form, drop, post>>
  BY DEF DeleteAttachment, browser
<1>2. /\ history' \in Ghost
      /\ history'.answered = history.answered /\ history'.leaked = history.leaked
      /\ history'.removed = history.removed \cup {f}
      /\ history'.purged = history.purged
  BY <1>1 DEF IInv, TypeOK, Ghost
<1>3. "api" \in Process /\ {f} \in SUBSET File
  BY DEF Process
<1> QED  BY <1>1, <1>2, <1>3, RowsGo

LEMMA DeleteStagedStep ==
    ASSUME IInv, NEW f \in File, DeleteStaged(f)
    PROVE  IInv'
<1>1. /\ f \in drop /\ drop' = drop \ {f}
      /\ UNCHANGED <<disk, upload, form, post, history>>
  BY DEF DeleteStaged
<1>2. f \in history.answered /\ (\A m \in Form : f \notin form[m]) /\ history \in Ghost
  BY <1>1 DEF IInv, TypeOK, Known, OneForm
<1>3. CASE Staged(f)
  <2>1. DeleteRows({f}, "api")
    BY <1>3 DEF DeleteStaged
  <2>2. Exists(f) /\ ~Attached(f)
    BY <1>3 DEF Staged, Attached
  <2>3. "api" \in Process /\ {f} \in SUBSET File
    BY DEF Process
  <2> QED  BY <1>1, <1>2, <2>1, <2>2, <2>3, RowsGo
<1>4. CASE ~Staged(f)
  <2>1. UNCHANGED <<attachment, doomed>>
    BY <1>4 DEF DeleteStaged
  <2>2. TypeOK'
    BY <1>1, <2>1 DEF IInv, TypeOK
  <2>3. FileInHand' /\ Unanswered' /\ KeysApart' /\ Known' /\ DoomedGone' /\ OneForm'
    BY <1>1, <2>1 DEF IInv, FileInHand, Unanswered, KeysApart, StoredKeys, Known, DoomedGone,
                      OneForm, Serving, Exists, Staged, Past
  <2>4. /\ PublishedWhole' /\ AnsweredFilesServed' /\ OrphansOnlyByCrash' /\ FormFilesUsable'
    BY <1>1, <2>1 DEF IInv, PublishedWhole, AnsweredFilesServed, OrphansOnlyByCrash,
                      FormFilesUsable, PublishableOn, Published, HasFileOf, Attached, Staged,
                      Exists, Serving
  <2> QED  BY <2>2, <2>3, <2>4 DEF IInv
<1> QED  BY <1>3, <1>4

LEMMA PurgeStep ==
    ASSUME IInv, NEW fs \in SUBSET File, PurgeStaged(fs)
    PROVE  IInv'
<1>1. /\ history' = [history EXCEPT !.purged = @ \cup fs]
      /\ DeleteRows(fs, "worker") /\ \A f \in fs : Exists(f) /\ ~Attached(f)
      /\ UNCHANGED <<disk, upload, form, drop, post>>
  BY DEF PurgeStaged, browser, Staged, Attached
<1>2. /\ history' \in Ghost
      /\ history'.answered = history.answered /\ history'.leaked = history.leaked
      /\ history'.removed = history.removed
      /\ history'.purged = history.purged \cup fs
  BY <1>1 DEF IInv, TypeOK, Ghost
<1>3. "worker" \in Process
  BY DEF Process
<1> QED  BY <1>1, <1>2, <1>3, RowsGo

\* A file that is erased has no row and is in nobody's hand.
LEMMA EraseStep ==
    ASSUME IInv, NEW p \in Process, NEW f \in File, EraseFile(p, f)
    PROVE  IInv'
<1>1. /\ f \in doomed[p] /\ disk' = disk \ {f}
      /\ doomed' = [doomed EXCEPT ![p] = @ \ {f}]
      /\ UNCHANGED <<attachment, upload, form, drop, post, history>>
  BY DEF EraseFile, browser
<1>2. f \in Past /\ ~Exists(f)
  BY <1>1 DEF IInv, DoomedGone
<1>3. /\ doomed' \in [Process -> SUBSET File]
      /\ \A q \in Process : doomed'[q] \subseteq doomed[q]
      /\ \A q \in Process : doomed[q] \ {f} \subseteq doomed'[q]
  BY <1>1 DEF IInv, TypeOK
<1>4. TypeOK'
  BY <1>1, <1>3 DEF IInv, TypeOK
<1>5. FileInHand' /\ Unanswered'
  BY <1>1, <1>2 DEF IInv, FileInHand, Unanswered, Serving, Exists, Staged, Past
<1>6. KeysApart' /\ Known' /\ OneForm'
  BY <1>1 DEF IInv, KeysApart, StoredKeys, Known, OneForm, Serving
<1>7. DoomedGone'
  BY <1>1, <1>3 DEF IInv, DoomedGone, Exists, Past
<1>8. PublishedWhole' /\ FormFilesUsable'
  BY <1>1 DEF IInv, PublishedWhole, FormFilesUsable, PublishableOn,
              Published, HasFileOf, Attached, Staged, Exists
<1>9. AnsweredFilesServed'
  BY <1>1, <1>2 DEF IInv, AnsweredFilesServed, Exists
<1>10. OrphansOnlyByCrash'
  <2> SUFFICES ASSUME NEW g \in disk', ~Exists(g)
               PROVE  \/ \E u \in Serving : upload[u].file = g
                      \/ \E q \in Process : g \in doomed'[q]
                      \/ g \in history.leaked
    BY <1>1 DEF OrphansOnlyByCrash, Exists, Serving
  <2> QED  BY <1>1, <1>3 DEF IInv, OrphansOnlyByCrash
<1> QED  BY <1>4, <1>5, <1>6, <1>7, <1>8, <1>9, <1>10 DEF IInv

LEMMA CrashStep ==
    ASSUME IInv, NEW p \in Process, Crash(p)
    PROVE  IInv'
<1>0. PICK held : held = IF p = "api" THEN {upload[u].file : u \in Serving} \ {None} ELSE {}
  OBVIOUS
<1>1. /\ doomed' = [doomed EXCEPT ![p] = {}]
      /\ upload' = (IF p = "api" THEN [u \in Upload |-> None] ELSE upload)
      /\ history' = [history EXCEPT !.leaked = @ \cup doomed[p] \cup held]
      /\ UNCHANGED <<attachment, disk, form, drop, post>>
  BY <1>0 DEF Crash, browser
<1>2. held \subseteq File /\ doomed[p] \subseteq File /\ doomed[p] \subseteq Past
  BY <1>0, UploadTyped DEF IInv, TypeOK, DoomedGone
<1>3. /\ history' \in Ghost
      /\ history'.answered = history.answered /\ history'.removed = history.removed
      /\ history'.purged = history.purged
      /\ history'.leaked = history.leaked \cup doomed[p] \cup held
  BY <1>1, <1>2 DEF IInv, TypeOK, Ghost
<1>4. /\ Serving' \subseteq Serving
      /\ \A u \in Serving' : p # "api" /\ upload'[u] = upload[u]
      /\ p # "api" => Serving' = Serving
      /\ upload' \in [Upload -> UploadState \cup {None}]
  BY <1>1 DEF Serving, IInv, TypeOK
<1>5. /\ doomed' \in [Process -> SUBSET File] /\ doomed'[p] = {}
      /\ \A q \in Process : q # p => doomed'[q] = doomed[q]
  BY <1>1 DEF IInv, TypeOK
<1>6. TypeOK'
  BY <1>1, <1>3, <1>4, <1>5 DEF IInv, TypeOK
<1>7. FileInHand'
  <2> SUFFICES ASSUME NEW u \in Serving', upload'[u].file # None
               PROVE  /\ upload'[u].file \in disk
                      /\ attachment[upload'[u].file] = None
                      /\ upload'[u].file \notin Past'
    BY <1>1 DEF FileInHand, Exists
  <2>1. held = {}
    BY <1>0, <1>4
  <2> QED  BY <1>2, <1>3, <1>4, <2>1 DEF IInv, FileInHand, Exists, Past
<1>8. Unanswered'
  BY <1>1, <1>3, <1>4 DEF IInv, Unanswered, Exists, Staged
<1>9. KeysApart'
  BY <1>4 DEF IInv, KeysApart, StoredKeys
<1>10. Known' /\ OneForm'
  BY <1>1, <1>3 DEF IInv, Known, OneForm
<1>11. DoomedGone'
  BY <1>1, <1>3, <1>5 DEF IInv, DoomedGone, Exists, Past
<1>12. PublishedWhole' /\ AnsweredFilesServed' /\ FormFilesUsable'
  BY <1>1, <1>3 DEF IInv, PublishedWhole, AnsweredFilesServed, FormFilesUsable, PublishableOn,
                    Published, HasFileOf, Attached, Staged, Exists
<1>13. OrphansOnlyByCrash'
  <2> SUFFICES ASSUME NEW f \in disk, ~Exists(f)
               PROVE  \/ \E u \in Serving' : upload'[u].file = f
                      \/ \E q \in Process : f \in doomed'[q]
                      \/ f \in history'.leaked
    BY <1>1 DEF OrphansOnlyByCrash, Exists
  <2>1. CASE \E u \in Serving : upload[u].file = f
    <3>1. f # None
      BY AttachmentsAssumption DEF IInv, TypeOK, AttachmentsAssumption
    <3>2. CASE p = "api"
      BY <1>0, <1>3, <2>1, <3>1, <3>2
    <3>3. CASE p # "api"
      BY <1>1, <1>4, <2>1, <3>3
    <3> QED  BY <3>2, <3>3
  <2>2. CASE \E q \in Process : f \in doomed[q]
    BY <1>3, <1>5, <2>2
  <2>3. CASE f \in history.leaked
    BY <1>3, <2>3
  <2> QED  BY <2>1, <2>2, <2>3 DEF IInv, OrphansOnlyByCrash
<1> QED  BY <1>6, <1>7, <1>8, <1>9, <1>10, <1>11, <1>12, <1>13 DEF IInv

--------------------------------------------------------------------------------
(* Forms *)

SamePost(p) == post[p] # None /\ post'[p].sent = post[p].sent /\ post'[p].from = post[p].from

\* Who forgets a request leaves what it publishes as it is.
LEMMA ForgottenPost ==
    ASSUME TypeOK, NEW p \in Post, post[p] # None, post'[p] = Forgotten(post[p])
    PROVE  /\ post'[p] \in PostState /\ post'[p] # None /\ SamePost(p)
           /\ post'[p].state = IF post[p].state = "created" THEN "unheard"
                              ELSE post[p].state
<1>1. PICK r : r = post[p]
  OBVIOUS
<1>2. r \in PostState
  BY <1>1, PostTyped
<1>3. post'[p] = [r EXCEPT !.seen = FALSE,
                           !.state = IF r.state = "created" THEN "unheard" ELSE r.state]
  BY <1>1, <1>2 DEF Forgotten, PostState
<1>4. post'[p] \in PostState /\ post'[p].sent = r.sent /\ post'[p].from = r.from
      /\ post'[p].state = IF r.state = "created" THEN "unheard" ELSE r.state
  BY <1>2, <1>3 DEF PostState
<1> QED  BY <1>1, <1>4, NoneAssumption DEF NoneAssumption, SamePost

\* A step of the browser: files only leave the forms, a post is new and has the files
\* of its form or is as it was, and what was published stays published.
LEMMA FormsShrink ==
    ASSUME IInv, UNCHANGED <<attachment, disk, doomed, history>>,
           upload' \in [Upload -> UploadState \cup {None}],
           Serving' = Serving,
           \A u \in Serving : /\ upload'[u].to = upload[u].to
                              /\ upload'[u].doc = upload[u].doc
                              /\ upload'[u].out = upload[u].out
                              /\ upload'[u].file = upload[u].file,
           form' \in [Form -> SUBSET File],
           \A m \in Form : form'[m] \subseteq form[m] /\ form'[m] \cap drop' = {},
           drop' \subseteq history.answered,
           post' \in [Post -> PostState \cup {None}],
           \A p \in Post : post'[p] # None =>
               \/ SamePost(p)
               \/ post'[p].from \in Form /\ post'[p].sent = form[post'[p].from],
           \A p \in Post : Published(p)' => Published(p) /\ SamePost(p),
           \A p \in Post : Published(p) /\ post[p].state # "answered" =>
               /\ Published(p)' /\ SamePost(p)
               /\ \/ post'[p].state # "answered"
                  \/ \A m \in Form : form'[m] \cap post[p].sent = {}
    PROVE  IInv'
<1>1. TypeOK'
  BY DEF IInv, TypeOK, Ghost
<1>2. FileInHand' /\ Unanswered' /\ DoomedGone'
  BY DEF IInv, FileInHand, Unanswered, DoomedGone, Exists, Staged, Past
<1>3. KeysApart'
  BY DEF IInv, KeysApart, StoredKeys
<1>4. Known'
  BY DEF IInv, Known, SamePost
<1>5. OneForm'
  <2> SUFFICES ASSUME NEW m \in Form, NEW f \in form'[m]
               PROVE  /\ f \notin drop'
                      /\ \A n \in Form : f \in form'[n] => n = m
                      /\ \A p \in Post : post'[p] # None /\ f \in post'[p].sent
                             => post'[p].from = m
    BY DEF OneForm
  <2>1. f \in form[m]
    OBVIOUS
  <2>2. /\ \A n \in Form : f \in form[n] => n = m
        /\ \A p \in Post : post[p] # None /\ f \in post[p].sent => post[p].from = m
    BY <2>1 DEF IInv, OneForm
  <2> QED  BY <2>2 DEF SamePost
<1>6. PublishedWhole'
  BY DEF IInv, PublishedWhole, HasFileOf, Attached, Exists, SamePost
<1>7. AnsweredFilesServed' /\ OrphansOnlyByCrash'
  BY DEF IInv, AnsweredFilesServed, OrphansOnlyByCrash, Exists
<1>8. FormFilesUsable'
  <2> SUFFICES ASSUME NEW m \in Form, NEW f \in form'[m],
                      ~\E d \in Bound(m) : PublishableOn(f, d),
                      f \notin history.purged \cup history.removed
               PROVE  \E p \in Post : /\ Published(p)' /\ f \in post'[p].sent
                                      /\ post'[p].state # "answered"
    BY DEF FormFilesUsable, PublishableOn, Staged, Exists
  <2>1. PICK p \in Post : /\ Published(p) /\ f \in post[p].sent
                          /\ post[p].state # "answered"
    BY DEF IInv, FormFilesUsable
  <2> QED  BY <2>1 DEF SamePost
<1> QED  BY <1>1, <1>2, <1>3, <1>4, <1>5, <1>6, <1>7, <1>8 DEF IInv

\* The steps that touch files in forms only.
LEMMA FormStep ==
    ASSUME IInv, UNCHANGED <<attachment, disk, doomed, upload, post, history>>,
           form' \in [Form -> SUBSET File],
           \A m \in Form : form'[m] \subseteq form[m] /\ form'[m] \cap drop' = {},
           drop' \subseteq history.answered
    PROVE  IInv'
<1>1. Serving' = Serving /\ upload' \in [Upload -> UploadState \cup {None}]
  BY DEF Serving, IInv, TypeOK
<1>2. /\ post' \in [Post -> PostState \cup {None}]
      /\ \A p \in Post : /\ post'[p] # None => SamePost(p)
                         /\ Published(p)' => Published(p) /\ SamePost(p)
                         /\ Published(p) => Published(p)' /\ SamePost(p)
                         /\ post'[p].state = post[p].state
  BY DEF IInv, TypeOK, SamePost, Published
<1>3. \A u \in Serving : /\ upload'[u].to = upload[u].to
                         /\ upload'[u].doc = upload[u].doc
                         /\ upload'[u].out = upload[u].out
                         /\ upload'[u].file = upload[u].file
  OBVIOUS
<1> QED  BY <1>1, <1>2, <1>3, FormsShrink DEF SamePost, Published

LEMMA RemoveFileStep ==
    ASSUME IInv, NEW m \in Form, NEW f \in File, RemoveFile(m, f)
    PROVE  IInv'
<1>1. /\ f \in form[m] /\ form' = [form EXCEPT ![m] = @ \ {f}] /\ drop' = drop \cup {f}
      /\ UNCHANGED <<attachment, disk, doomed, upload, post, history>>
  BY DEF RemoveFile, FormSame, server
<1>2. /\ form' \in [Form -> SUBSET File] /\ form'[m] = form[m] \ {f}
      /\ \A n \in Form : n # m => form'[n] = form[n]
  BY <1>1 DEF IInv, TypeOK
<1>3. \A n \in Form : form'[n] \subseteq form[n] /\ form'[n] \cap drop' = {}
  BY <1>1, <1>2 DEF IInv, OneForm
<1>4. drop' \subseteq history.answered
  BY <1>1 DEF IInv, TypeOK, Known
<1> QED  BY <1>1, <1>2, <1>3, <1>4, FormStep

LEMMA CloseStep ==
    ASSUME IInv, CloseModal
    PROVE  IInv'
<1>1. /\ form' = [form EXCEPT !["modal"] = {}] /\ drop' = drop \cup form["modal"]
      /\ UNCHANGED <<attachment, disk, doomed, upload, post, history>>
  BY DEF CloseModal, FormSame, server
<1>2. /\ form' \in [Form -> SUBSET File] /\ form'["modal"] = {} /\ "modal" \in Form
      /\ \A n \in Form : n # "modal" => form'[n] = form[n]
  BY <1>1 DEF IInv, TypeOK, Form
<1>3. \A n \in Form : form'[n] \subseteq form[n] /\ form'[n] \cap drop' = {}
  BY <1>1, <1>2 DEF IInv, OneForm
<1>4. drop' \subseteq history.answered
  BY <1>1, <1>2 DEF IInv, TypeOK, Known
<1> QED  BY <1>1, <1>2, <1>3, <1>4, FormStep

LEMMA LeaveStep ==
    ASSUME IInv, NEW m \in Form, Leave(m)
    PROVE  IInv'
<1>1. UNCHANGED <<attachment, disk, doomed, drop, history>>
  BY DEF Leave
<1>2. \A u \in Upload : upload'[u] \in {upload[u], [upload[u] EXCEPT !.seen = FALSE]}
                        /\ (u \notin Serving => upload'[u] = upload[u])
  BY DEF Leave
<1>3. \A u \in Serving : /\ upload'[u] \in UploadState
                         /\ upload'[u].to = upload[u].to /\ upload'[u].doc = upload[u].doc
                         /\ upload'[u].out = upload[u].out
                         /\ upload'[u].file = upload[u].file
  <2> SUFFICES ASSUME NEW u \in Serving
               PROVE  /\ upload'[u] \in UploadState
                      /\ upload'[u].to = upload[u].to /\ upload'[u].doc = upload[u].doc
                      /\ upload'[u].out = upload[u].out
                      /\ upload'[u].file = upload[u].file
    OBVIOUS
  <2>1. u \in Upload /\ upload[u] \in UploadState
    BY UploadTyped DEF IInv
  <2>2. CASE upload'[u] = upload[u]
    BY <2>1, <2>2
  <2>3. CASE upload'[u] = [upload[u] EXCEPT !.seen = FALSE]
    BY <2>1, <2>3 DEF UploadState
  <2> QED  BY <1>2, <2>1, <2>2, <2>3
<1>4. upload' \in [Upload -> UploadState \cup {None}] /\ Serving' = Serving
  <2>1. \A u \in Serving : upload'[u] # None
    BY <1>3, NoneAssumption DEF NoneAssumption
  <2>2. \A u \in Upload \ Serving : upload'[u] = None
    BY <1>2 DEF Serving
  <2>3. Serving' = Serving
    BY <2>1, <2>2 DEF Serving
  <2>4. upload' = [u \in Upload |-> upload'[u]]
    BY DEF Leave
  <2> QED  BY <1>3, <2>2, <2>3, <2>4
<1>5. /\ form' \in [Form -> SUBSET File]
      /\ \A n \in Form : form'[n] \subseteq form[n] /\ form'[n] \cap drop' = {}
      /\ drop' \subseteq history.answered
  BY <1>1 DEF Leave, IInv, TypeOK, OneForm, Known
<1>6. \A p \in Post : /\ post'[p] \in PostState \cup {None}
                      /\ post[p] = None => post'[p] = None
                      /\ post[p] # None =>
                            /\ post'[p] # None /\ SamePost(p)
                            /\ post'[p].state # "answered" \/ post[p].state = "answered"
                            /\ post'[p].state = "sent" <=> post[p].state = "sent"
  <2> SUFFICES ASSUME NEW p \in Post
               PROVE  /\ post'[p] \in PostState \cup {None}
                      /\ post[p] = None => post'[p] = None
                      /\ post[p] # None =>
                            /\ post'[p] # None /\ SamePost(p)
                            /\ post'[p].state # "answered" \/ post[p].state = "answered"
                            /\ post'[p].state = "sent" <=> post[p].state = "sent"
    OBVIOUS
  <2>1. CASE p \in Pending(m)
    <3>1. post[p] # None /\ post'[p] = Forgotten(post[p])
      BY <2>1 DEF Leave, Pending
    <3> QED  BY <3>1, ForgottenPost DEF IInv
  <2>2. CASE p \notin Pending(m)
    BY <2>2 DEF Leave, IInv, TypeOK, SamePost
  <2> QED  BY <2>1, <2>2
<1>7. post' \in [Post -> PostState \cup {None}]
  <2>1. post' = [p \in Post |-> post'[p]]
    BY DEF Leave
  <2> QED  BY <1>6, <2>1
<1>8. \A p \in Post : Published(p)' = Published(p)
  BY <1>6 DEF Published
<1> QED  BY <1>1, <1>3, <1>4, <1>5, <1>6, <1>7, <1>8, FormsShrink DEF Published

--------------------------------------------------------------------------------
(* Publishing *)

\* A step of the browser that changes what is being published.
LEMMA PostStep ==
    ASSUME IInv, UNCHANGED <<attachment, disk, doomed, upload, drop, history>>,
           form' \in [Form -> SUBSET File],
           \A m \in Form : form'[m] \subseteq form[m],
           post' \in [Post -> PostState \cup {None}],
           \A p \in Post : post'[p] # None =>
               \/ SamePost(p)
               \/ post'[p].from \in Form /\ post'[p].sent = form[post'[p].from],
           \A p \in Post : Published(p)' => Published(p) /\ SamePost(p),
           \A p \in Post : Published(p) /\ post[p].state # "answered" =>
               /\ Published(p)' /\ SamePost(p)
               /\ \/ post'[p].state # "answered"
                  \/ \A m \in Form : form'[m] \cap post[p].sent = {}
    PROVE  IInv'
<1>1. Serving' = Serving /\ upload' \in [Upload -> UploadState \cup {None}]
  BY DEF Serving, IInv, TypeOK
<1>2. \A u \in Serving : /\ upload'[u].to = upload[u].to
                         /\ upload'[u].doc = upload[u].doc
                         /\ upload'[u].out = upload[u].out
                         /\ upload'[u].file = upload[u].file
  OBVIOUS
<1>3. \A m \in Form : form'[m] \subseteq form[m] /\ form'[m] \cap drop' = {}
  BY DEF IInv, OneForm
<1>4. drop' \subseteq history.answered
  BY DEF IInv, TypeOK, Known
<1> QED  BY <1>1, <1>2, <1>3, <1>4, FormsShrink

LEMMA SubmitStep ==
    ASSUME IInv, NEW m \in Form, NEW p \in Post, NEW d \in Bound(m), Submit(m, p, d)
    PROVE  IInv'
<1>1. UNCHANGED <<attachment, disk, doomed, upload, form, drop, history>> /\ post[p] = None
  BY DEF Submit, FormSame, server
<1>2. form \in [Form -> SUBSET File]
  BY DEF IInv, TypeOK
<1>3. PICK new : new = [from |-> m, on |-> d, seen |-> TRUE, sent |-> form[m],
                        state |-> "sent"]
  OBVIOUS
<1>4. new \in PostState
  <2>1. d \in Page \cup {None}
    BY DEF Bound
  <2> QED  BY <1>2, <1>3, <2>1 DEF PostState
<1>5. new # None
  BY <1>4, NoneAssumption DEF NoneAssumption
<1>6. /\ post'[p] = new
      /\ post' = [q \in Post |-> post'[q]]
      /\ \A q \in Post : q # p =>
            post'[q] = IF q \in Pending(m) THEN Forgotten(post[q]) ELSE post[q]
  <2>1. post' = [q \in Post |->
            CASE q = p -> new
              [] q \in Pending(m) -> Forgotten(post[q])
              [] OTHER -> post[q]]
    BY <1>3 DEF Submit
  <2>2. p \notin Pending(m)
    BY <1>1 DEF Pending
  <2> QED  BY <2>1, <2>2
<1>7. \A q \in Post : q # p =>
          /\ post'[q] \in PostState \cup {None}
          /\ post[q] = None => post'[q] = None
          /\ post[q] # None =>
                /\ post'[q] # None /\ SamePost(q)
                /\ post'[q].state # "answered" \/ post[q].state = "answered"
                /\ post'[q].state = "sent" <=> post[q].state = "sent"
  <2> SUFFICES ASSUME NEW q \in Post, q # p
               PROVE  /\ post'[q] \in PostState \cup {None}
                      /\ post[q] = None => post'[q] = None
                      /\ post[q] # None =>
                            /\ post'[q] # None /\ SamePost(q)
                            /\ post'[q].state # "answered" \/ post[q].state = "answered"
                            /\ post'[q].state = "sent" <=> post[q].state = "sent"
    OBVIOUS
  <2>1. CASE q \in Pending(m)
    <3>1. post[q] # None /\ post'[q] = Forgotten(post[q])
      BY <1>6, <2>1 DEF Pending
    <3> QED  BY <3>1, ForgottenPost DEF IInv
  <2>2. CASE q \notin Pending(m)
    BY <1>6, <2>2 DEF IInv, TypeOK, SamePost
  <2> QED  BY <2>1, <2>2
<1>8. post' \in [Post -> PostState \cup {None}]
  BY <1>4, <1>6, <1>7
<1>9. ~Published(p)' /\ ~Published(p) /\ \A q \in Post : q # p => Published(q)' = Published(q)
  BY <1>1, <1>3, <1>6, <1>7 DEF Published
<1>10. post'[p].from = m /\ post'[p].sent = form[m]
  BY <1>3, <1>6
<1> QED  BY <1>1, <1>2, <1>7, <1>8, <1>9, <1>10, PostStep DEF Published, SamePost

LEMMA RefusePostStep ==
    ASSUME IInv, NEW p \in Post, RefusePost(p)
    PROVE  IInv'
<1>1. /\ UNCHANGED <<attachment, disk, doomed, upload, form, drop, history>>
      /\ post[p].state = "sent" /\ post' = [post EXCEPT ![p] = None]
  BY DEF RefusePost, FormSame, server
<1>2. /\ post' \in [Post -> PostState \cup {None}] /\ post'[p] = None
      /\ \A q \in Post : q # p => post'[q] = post[q]
      /\ form' \in [Form -> SUBSET File]
  BY <1>1 DEF IInv, TypeOK
<1> QED  BY <1>1, <1>2, PostStep DEF Published, SamePost

\* onSuccess empties the form of every file that was sent, since no other shows one.
LEMMA AnswerPostStep ==
    ASSUME IInv, NEW p \in Post, AnswerPost(p)
    PROVE  IInv'
<1>0. PICK m : m = post[p].from
  OBVIOUS
<1>1. /\ UNCHANGED <<attachment, disk, doomed, upload, drop, history>>
      /\ post[p] # None /\ post[p].state = "created"
      /\ post' = [post EXCEPT ![p].state = "answered"]
      /\ form' = [form EXCEPT ![m] = {}]
  BY <1>0 DEF AnswerPost, FormSame, server
<1>2. m \in Form /\ post[p] \in PostState
  BY <1>0, <1>1, PostTyped DEF IInv
<1>3. /\ form' \in [Form -> SUBSET File] /\ form'[m] = {}
      /\ \A n \in Form : n # m => form'[n] = form[n]
  BY <1>1, <1>2 DEF IInv, TypeOK
<1>4. \A n \in Form : form'[n] \cap post[p].sent = {}
  BY <1>0, <1>1, <1>3 DEF IInv, OneForm
<1>5. /\ post'[p] = [post[p] EXCEPT !.state = "answered"]
      /\ \A q \in Post : q # p => post'[q] = post[q]
  BY <1>1 DEF IInv, TypeOK
<1>6. /\ post'[p] \in PostState /\ post'[p].sent = post[p].sent /\ post'[p].from = post[p].from
      /\ post'[p].state = "answered"
  BY <1>1, <1>2, <1>5 DEF PostState
<1>7. post'[p] # None
  BY <1>6, NoneAssumption DEF NoneAssumption
<1>8. post' \in [Post -> PostState \cup {None}]
  BY <1>1, <1>5, <1>6 DEF IInv, TypeOK
<1> QED  BY <1>1, <1>3, <1>4, <1>5, <1>6, <1>7, <1>8, PostStep DEF Published, SamePost

LEMMA LoseAnswerStep ==
    ASSUME IInv, NEW p \in Post, LoseAnswer(p)
    PROVE  IInv'
<1>1. /\ UNCHANGED <<attachment, disk, doomed, upload, form, drop, history>>
      /\ post[p] # None /\ post[p].state = "created"
      /\ post' = [post EXCEPT ![p] = Forgotten(post[p])]
  BY DEF LoseAnswer, FormSame, server
<1>2. /\ post' \in [Post -> PostState \cup {None}]
      /\ SamePost(p) /\ post'[p] # None /\ post'[p].state = "unheard"
      /\ \A q \in Post : q # p => post'[q] = post[q]
  <2>1. post'[p] = Forgotten(post[p]) /\ \A q \in Post : q # p => post'[q] = post[q]
    BY <1>1 DEF IInv, TypeOK
  <2>2. post'[p] \in PostState /\ SamePost(p) /\ post'[p] # None /\ post'[p].state = "unheard"
    BY <1>1, <2>1, ForgottenPost DEF IInv
  <2> QED  BY <1>1, <2>1, <2>2 DEF IInv, TypeOK
<1>3. form' \in [Form -> SUBSET File]
  BY <1>1 DEF IInv, TypeOK
<1> QED  BY <1>1, <1>2, <1>3, PostStep DEF Published, SamePost

\* The files adopted were staged, hence not yet published by anybody.
LEMMA PublishStep ==
    ASSUME IInv, NEW p \in Post, Publish(p)
    PROVE  IInv'
<1>0. PICK fs : fs = post[p].sent
  OBVIOUS
<1>1. /\ UNCHANGED <<disk, upload, doomed, form, drop, history>>
      /\ post[p] \in PostState /\ post[p] # None /\ post[p].state = "sent"
      /\ fs \in SUBSET File /\ fs \subseteq history.answered
      /\ \A f \in fs : Staged(f)
  BY <1>0, PostTyped DEF Publish, Adoptable, IInv, Known
<1>2. /\ \A f \in fs : attachment'[f] = AdoptedRow(p, f)
      /\ \A f \in File \ fs : attachment'[f] = attachment[f]
      /\ attachment' = [f \in File |-> attachment'[f]]
  BY <1>0, <1>1 DEF Publish
<1>3. \A f \in fs :
          /\ AdoptedRow(p, f) \in Row /\ AdoptedRow(p, f).status = "attached"
          /\ IF post[p].from = "modal" THEN AdoptedRow(p, f).document_id = p
                                       ELSE AdoptedRow(p, f).journal_id = p
  <2> SUFFICES ASSUME NEW f \in fs
               PROVE  /\ AdoptedRow(p, f) \in Row /\ AdoptedRow(p, f).status = "attached"
                      /\ IF post[p].from = "modal" THEN AdoptedRow(p, f).document_id = p
                                                   ELSE AdoptedRow(p, f).journal_id = p
    OBVIOUS
  <2>1. PICK r : r = attachment[f]
    OBVIOUS
  <2>2. r \in Row
    BY <1>1, <2>1 DEF Staged, Exists, IInv, TypeOK
  <2>3. p # None /\ (post[p].from # "modal" => post[p].on \in Page /\ post[p].on # None)
    BY <1>1, AttachmentsAssumption DEF AttachmentsAssumption, PostState, Bound
  <2> QED  BY <2>1, <2>2, <2>3 DEF AdoptedRow, Row
<1>4. \A f \in fs : AdoptedRow(p, f) # None
  BY <1>3, NoneAssumption DEF NoneAssumption
<1>5. /\ post'[p] = [post[p] EXCEPT
             !.on = None, !.state = IF post[p].seen THEN "created" ELSE "unheard"]
      /\ \A q \in Post : q # p => post'[q] = post[q]
      /\ post' = [post EXCEPT ![p] = post'[p]]
  BY <1>1 DEF Publish, IInv, TypeOK
<1>6. /\ post'[p] \in PostState /\ post'[p].sent = fs /\ post'[p].from = post[p].from
      /\ post'[p].state \in {"created", "unheard"}
  BY <1>0, <1>1, <1>5 DEF PostState
<1>7. post'[p] # None
  BY <1>6, NoneAssumption DEF NoneAssumption
<1>8. \A f \in fs : Exists(f) /\ Exists(f)' /\ HasFileOf(p, f)'
  BY <1>1, <1>2, <1>3, <1>4, <1>6 DEF Staged, Exists, Attached, HasFileOf
<1>9. TypeOK'
  <2>1. attachment' \in [File -> Row \cup {None}]
    BY <1>1, <1>2, <1>3 DEF IInv, TypeOK
  <2>2. post' \in [Post -> PostState \cup {None}]
    BY <1>5, <1>6 DEF IInv, TypeOK
  <2> QED  BY <1>1, <2>1, <2>2 DEF IInv, TypeOK
<1>10. FileInHand' /\ Unanswered'
  <2>1. Serving' = Serving /\ \A u \in Serving : upload'[u] = upload[u] /\ u \in Upload
    BY <1>1 DEF Serving
  <2>2. \A u \in Serving : /\ upload[u].out \cap fs = {}
                           /\ upload[u].file # None => upload[u].file \notin fs
    BY <1>1 DEF IInv, FileInHand, Unanswered, Past
  <2> QED  BY <1>1, <1>2, <2>1, <2>2, UploadTyped
           DEF IInv, FileInHand, Unanswered, Exists, Staged, Past
<1>11. KeysApart'
  BY <1>1 DEF IInv, KeysApart, StoredKeys, Serving
<1>12. Known' /\ OneForm'
  <2>1. \A q \in Post : post'[q] # None => SamePost(q)
    <3> SUFFICES ASSUME NEW q \in Post, post'[q] # None
                 PROVE  SamePost(q)
      OBVIOUS
    <3>1. CASE q = p
      BY <1>0, <1>1, <1>6, <3>1 DEF SamePost
    <3>2. CASE q # p
      BY <1>5, <3>2 DEF SamePost
    <3> QED  BY <3>1, <3>2
  <2> QED  BY <1>1, <2>1 DEF IInv, Known, OneForm, SamePost
<1>13. DoomedGone'
  BY <1>1, <1>2, <1>8 DEF IInv, TypeOK, DoomedGone, Exists, Past
<1>14. PublishedWhole'
  <2> SUFFICES ASSUME NEW q \in Post, Published(q)',
                      NEW f \in post'[q].sent \ history.removed
               PROVE  HasFileOf(q, f)'
    BY <1>1 DEF PublishedWhole
  <2>1. CASE q = p
    BY <1>6, <1>8, <2>1
  <2>2. CASE q # p
    <3>1. Published(q) /\ f \in post[q].sent /\ post[q] # None
      BY <1>5, <2>2 DEF Published
    <3>2. HasFileOf(q, f) /\ f \in File
      BY <3>1, PostTyped DEF IInv, PublishedWhole
    <3>3. f \notin fs
      BY <1>1, <3>2 DEF HasFileOf, Attached, Staged
    <3> QED  BY <1>2, <1>5, <2>2, <3>2, <3>3 DEF HasFileOf, Attached, Exists
  <2> QED  BY <2>1, <2>2
<1>15. AnsweredFilesServed' /\ OrphansOnlyByCrash'
  <2>1. \A f \in File : Exists(f)' = Exists(f)
    BY <1>2, <1>8 DEF Exists
  <2>2. disk \subseteq File /\ history.answered \subseteq File
    BY DEF IInv, TypeOK, Ghost
  <2> QED  BY <1>1, <2>1, <2>2 DEF IInv, AnsweredFilesServed, OrphansOnlyByCrash, Serving
<1>16. FormFilesUsable'
  <2> SUFFICES ASSUME NEW m \in Form, NEW f \in form[m],
                      ~\E d \in Bound(m) : PublishableOn(f, d)',
                      f \notin history.purged \cup history.removed
               PROVE  \E q \in Post : /\ Published(q)' /\ f \in post'[q].sent
                                      /\ post'[q].state # "answered"
    BY <1>1 DEF FormFilesUsable
  <2>1. CASE f \in fs
    BY <1>6, <1>7, <2>1 DEF Published
  <2>2. CASE f \notin fs
    <3>1. ~\E d \in Bound(m) : PublishableOn(f, d)
      BY <1>2, <2>2 DEF IInv, TypeOK, PublishableOn, Staged, Exists
    <3>2. PICK q \in Post : /\ Published(q) /\ f \in post[q].sent
                            /\ post[q].state # "answered"
      BY <3>1 DEF IInv, FormFilesUsable
    <3>3. q # p
      BY <1>1, <3>2 DEF Published
    <3> QED  BY <1>5, <3>2, <3>3 DEF Published
  <2> QED  BY <2>1, <2>2
<1> QED  BY <1>9, <1>10, <1>11, <1>12, <1>13, <1>14, <1>15, <1>16 DEF IInv

--------------------------------------------------------------------------------
(* Theorems *)

LEMMA InitInv ==
    ASSUME Init
    PROVE  IInv
<1>1. TypeOK
  BY DEF Init, TypeOK, Ghost
<1>2. Serving = {}
  BY DEF Init, Serving
<1>3. FileInHand /\ Unanswered /\ KeysApart
  BY <1>2 DEF FileInHand, Unanswered, KeysApart
<1>4. Known /\ DoomedGone /\ OneForm
  BY DEF Init, Known, DoomedGone, OneForm
<1>5. PublishedWhole /\ AnsweredFilesServed /\ OrphansOnlyByCrash /\ FormFilesUsable
  BY DEF Init, PublishedWhole, Published, AnsweredFilesServed, OrphansOnlyByCrash,
         FormFilesUsable
<1> QED  BY <1>1, <1>3, <1>4, <1>5 DEF IInv

LEMMA NextInv ==
    ASSUME IInv, [Next]_vars
    PROVE  IInv'
<1>1. CASE Uploading
  BY <1>1, StartStep, StoreStep, InsertStep, RefuseUploadStep, FinishStep DEF Uploading
<1>2. CASE Deleting
  BY <1>2, DeleteAttachmentStep, DeleteStagedStep, PurgeStep, EraseStep, CrashStep DEF Deleting
<1>3. CASE Publishing
  BY <1>3, CloseStep, LeaveStep, RemoveFileStep, SubmitStep, PublishStep, RefusePostStep,
     AnswerPostStep, LoseAnswerStep DEF Publishing
<1>4. CASE UNCHANGED vars
  <2>1. /\ UNCHANGED <<attachment, disk, doomed, upload, post, history>>
        /\ form' = form /\ drop' = drop
    BY <1>4 DEF vars, server, browser, IInv, TypeOK
  <2>2. form' \in [Form -> SUBSET File] /\ drop' \subseteq history.answered
    BY <2>1 DEF IInv, TypeOK, Known
  <2>3. \A m \in Form : form'[m] \subseteq form[m] /\ form'[m] \cap drop' = {}
    BY <2>1 DEF IInv, OneForm
  <2> QED  BY <2>1, <2>2, <2>3, FormStep
<1> QED  BY <1>1, <1>2, <1>3, <1>4 DEF Next

THEOREM Invariance == Spec => []IInv
<1>1. Init => IInv
  BY InitInv
<1>2. IInv /\ [Next]_vars => IInv'
  BY NextInv
<1> QED  BY <1>1, <1>2, PTL DEF Spec

\* Rows, files, requests and forms keep their types; the CHECK on the owner of an
\* attachment never fails.
THEOREM TypeCorrect == Spec => []TypeOK
<1>1. IInv => TypeOK
  BY DEF IInv
<1> QED  BY <1>1, Invariance, PTL

\* What was published keeps its files, whatever purge, Cancel, X and a second submit do.
THEOREM PublishedStaysWhole == Spec => []PublishedWhole
<1>1. IInv => PublishedWhole
  BY DEF IInv
<1> QED  BY <1>1, Invariance, PTL

\* A file whose upload was answered can be served as long as its row exists.
THEOREM AnsweredIsServed == Spec => []AnsweredFilesServed
<1>1. IInv => AnsweredFilesServed
  BY DEF IInv
<1> QED  BY <1>1, Invariance, PTL

\* Only the death of a process leaves files in the storage that nobody knows.
THEOREM NothingLeaks == Spec => []OrphansOnlyByCrash
<1>1. IInv => OrphansOnlyByCrash
  BY DEF IInv
<1> QED  BY <1>1, Invariance, PTL

\* What a form shows can be published on the document it was uploaded for, however often
\* the page has turned since, or one knows why not.
THEOREM FormsStayUsable == Spec => []FormFilesUsable
<1>1. IInv => FormFilesUsable
  BY DEF IInv
<1> QED  BY <1>1, Invariance, PTL
===============================================================================
