----------------------------- MODULE DocumentProofs -----------------------------
(***************************************************************************)
(* The history of a document and the note editor, for any number of        *)
(* clients, browsers, texts and versions.                                  *)
(*                                                                         *)
(* The argument about the history is about the gap between the SELECT and  *)
(* the UPDATE: the row a save holds is, or once was, the document          *)
(* (ReadsFaithful), and for a requirement it still is, because the lock    *)
(* admits one save at a time (Serial).                                     *)
(* So a save of a requirement is made at one moment, that of its UPDATE,   *)
(* and the document with its versions is a DocumentHistory.                *)
(*                                                                         *)
(* About the editor: rows reach a page as answers, refetches and the other *)
(* side of a conflict; whatever their order, each was the document once.   *)
(* While a page says "saving", the save on its way carries the text that   *)
(* it shows.                                                               *)
(***************************************************************************)
EXTENDS DocumentEditor, TLAPS

--------------------------------------------------------------------------------
(* The history of a document (DocumentVersions) *)

Reading(c) == request[c].pc = "read"

\* The document row is the last version written.
Latest ==
    /\ Len(written) = document.version
    /\ document.text = written[document.version].text

\* The row a save has read is the document as it was at that version.
ReadsFaithful ==
    \A c \in Client : Reading(c) =>
        /\ request[c].row \in Row
        /\ request[c].row.version <= document.version
        /\ request[c].row.text = written[request[c].row.version].text

\* FOR UPDATE on the requirement: the one save that is being made has read the
\* current document, names that version if it names one, and says something else.
Serial ==
    IsRequirement => \A c \in Client : Reading(c) =>
        /\ request[c].row = document
        /\ request[c].base \in {None, document.version}
        /\ request[c].text # document.text
        /\ \A d \in Client : Reading(d) => d = c

\* A save that has only been sent has read nothing.
NothingRead == \A c \in Client : request[c].pc = "sent" => request[c].row = None

IInv ==
    /\ TypeOK
    /\ Latest
    /\ SnapshotsFaithful
    /\ ReadsFaithful
    /\ Serial
    /\ NothingRead
    /\ IsRequirement => HistoryComplete

--------------------------------------------------------------------------------
(* The shape of a step *)

\* A request of client c becomes q, which has just read the document if it is one
\* that has, and nothing else changes.
Turns(c, q) ==
    /\ q \in Request \cup {Idle}
    /\ request' = [request EXCEPT ![c] = q]
    /\ q.pc = "read" =>
        /\ ~Locked
        /\ q.row = document
        /\ q.base \in Version => q.base = document.version
        /\ IsRequirement => q.text # document.text
    /\ q.pc = "sent" => q.row = None
    /\ UNCHANGED <<document, document_version, written>>

LEMMA SentTyped ==
    ASSUME TypeOK, NEW c \in Client, request[c].pc # "idle"
    PROVE  /\ request[c] \in Request
           /\ request[c].base \in Version \cup {None}
           /\ request[c].text \in Text
BY DEF TypeOK, Idle, Request

LEMMA SendTurns ==
    ASSUME NEW c \in Client, NEW text \in Text, NEW base \in Version \cup {None},
           Send(c, text, base), UNCHANGED <<document, document_version, written>>
    PROVE  \E q : Turns(c, q)
<1> DEFINE q == [ pc |-> "sent", text |-> text, base |-> base, row |-> None ]
<1>1. q \in Request /\ q.pc # "read"
  BY DEF Request
<1> QED
  BY <1>1 DEF Send, Turns

LEMMA ReadTurns ==
    ASSUME TypeOK, NEW c \in Client, Read(c)
    PROVE  \E q : Turns(c, q)
<1> DEFINE p == request[c]
           q == IF Stale(p) THEN [p EXCEPT !.pc = "conflict"]
                ELSE IF IsRequirement /\ p.text = document.text THEN [p EXCEPT !.pc = "done"]
                ELSE [p EXCEPT !.pc = "read", !.row = document]
<1>1. p \in Request /\ document \in Row
  BY SentTyped DEF Read, TypeOK
<1>2. request' = [request EXCEPT ![c] = q]
  BY DEF Read, TypeOK
<1>3. q \in Request
  BY <1>1 DEF Request
<1>4. q.pc = "read" => /\ ~Stale(p)
                       /\ q.row = document /\ q.base = p.base
                       /\ IsRequirement => q.text # document.text
  BY <1>1 DEF Request
<1>5. q.pc = "read" => (q.base \in Version => q.base = document.version)
  BY <1>4, VersionsAssumption DEF Stale, Version
<1>6. q.pc # "sent"
  BY <1>1 DEF Request
<1> QED
  BY <1>2, <1>3, <1>4, <1>5, <1>6 DEF Read, Turns

\* Every step is a write, or moves one request on.
LEMMA StepShapes ==
    ASSUME TypeOK, [Next]_serverVars
    PROVE  \/ \E c \in Client : Write(c)
           \/ \E c \in Client : \E q : Turns(c, q)
           \/ UNCHANGED serverVars
<1>1. ASSUME NEW c \in Client, NEW text \in Text, NEW base \in Version \cup {None},
             Save(c, text, base)
      PROVE  \E q : Turns(c, q)
  BY <1>1, SendTurns DEF Save
<1>2. ASSUME NEW c \in Client, NEW v \in Version, RestoreDocumentVersion(c, v)
      PROVE  \E q : Turns(c, q)
  <2>1. document_version[v].text \in Text
    BY <1>2 DEF RestoreDocumentVersion, TypeOK, Written
  <2> QED
    BY <1>2, <2>1, SendTurns DEF RestoreDocumentVersion
<1>3. ASSUME NEW c \in Client, Reply(c)
      PROVE  \E q : Turns(c, q)
  <2> DEFINE q == [request[c] EXCEPT !.pc = "replied", !.row = document]
  <2>1. q \in Request /\ q.pc = "replied"
    BY <1>3, SentTyped DEF Reply, TypeOK, Request
  <2> QED
    BY <1>3, <2>1 DEF Reply, Turns, TypeOK
<1>4. ASSUME NEW c \in Client, Finish(c)
      PROVE  \E q : Turns(c, q)
  <2>1. Idle.pc \notin {"read", "sent"}
    BY DEF Idle
  <2> QED
    BY <1>4, <2>1 DEF Finish, Respond, Turns
<1> QED
  BY <1>1, <1>2, <1>3, <1>4, ReadTurns DEF Next, ServerStep

--------------------------------------------------------------------------------
(* Each shape preserves the invariant *)

LEMMA TurnPreserves ==
    ASSUME IInv, NEW c \in Client, NEW q, Turns(c, q)
    PROVE  IInv'
<1>1. \A d \in Client : request'[d] = IF d = c THEN q ELSE request[d]
  BY DEF IInv, TypeOK, Turns
<1>2. UNCHANGED <<document, document_version, written>>
  BY DEF Turns
<1>3. TypeOK'
  BY <1>2 DEF IInv, TypeOK, Turns
<1>4. Latest' /\ SnapshotsFaithful' /\ (IsRequirement => HistoryComplete')
  BY <1>2 DEF IInv, Latest, SnapshotsFaithful, HistoryComplete
<1>5. q.pc = "read" => q \in Request /\ q.row = document
  BY DEF Turns, Idle
<1>6. ReadsFaithful'
  BY <1>1, <1>2, <1>5 DEF IInv, TypeOK, Row, Version, Latest, ReadsFaithful, Reading
<1>7. Serial'
  <2> SUFFICES ASSUME IsRequirement, NEW d \in Client, Reading(d)'
               PROVE  /\ request'[d].row = document
                      /\ request'[d].base \in {None, document.version}
                      /\ request'[d].text # document.text
                      /\ \A e \in Client : Reading(e)' => e = d
    BY <1>2 DEF Serial
  <2>1. CASE d = c
    <3>1. q.pc = "read" /\ request'[d] = q
      BY <2>1, <1>1 DEF Reading
    <3>2. q.base \in {None, document.version} /\ q.text # document.text
      BY <3>1, <1>5 DEF Turns, Request
    <3>3. \A e \in Client : ~Reading(e)
      BY <3>1 DEF Turns, Locked, Reading
    <3> QED
      BY <2>1, <3>1, <3>2, <3>3, <1>1, <1>5 DEF Reading
  <2>2. CASE d # c
    <3>1. Reading(d) /\ request'[d] = request[d]
      BY <2>2, <1>1 DEF Reading
    <3>2. q.pc # "read"
      BY <3>1 DEF Turns, Locked, Reading
    <3> QED
      BY <3>1, <3>2, <1>1 DEF IInv, Serial, Reading
  <2> QED
    BY <2>1, <2>2
<1>8. NothingRead'
  BY <1>1 DEF IInv, NothingRead, Turns
<1> QED
  BY <1>3, <1>4, <1>6, <1>7, <1>8 DEF IInv

\* What a write does, in terms of the row it had read.
LEMMA WriteEffect ==
    ASSUME IInv, NEW c \in Client, Write(c)
    PROVE  /\ request[c].row \in Row
           /\ request[c].text \in Text
           /\ document.version + 1 \in Version
           /\ document' = [ version |-> document.version + 1, text |-> request[c].text ]
           /\ written' \in Seq(Written)
           /\ Len(written') = Len(written) + 1
           /\ written'[Len(written) + 1].text = request[c].text
           /\ \A v \in 1..Len(written) : written'[v] = written[v]
           /\ \A v \in Version : document_version'[v] =
                IF v = request[c].row.version /\ document_version[v] = NoSnapshot
                THEN [ text |-> request[c].row.text, actor |-> c ]
                ELSE document_version[v]
           /\ request'[c].pc = "done"
           /\ request'[c] \in Request
           /\ \A d \in Client \ {c} : request'[d] = request[d]
<1>1. Reading(c) /\ request[c] \in Request
  BY SentTyped DEF Write, Reading, IInv
<1>2. request[c].row \in Row /\ request[c].text \in Text
  BY <1>1 DEF IInv, ReadsFaithful, Request
<1>3. document.version + 1 \in Version
  BY VersionsAssumption DEF Write, Commit, IInv, TypeOK, Row, Version
<1>4. [ text |-> request[c].text, actor |-> c ] \in Written
  BY <1>2 DEF Written
<1>5. /\ written' \in Seq(Written)
      /\ Len(written') = Len(written) + 1
      /\ written'[Len(written) + 1] = [ text |-> request[c].text, actor |-> c ]
      /\ \A v \in 1..Len(written) : written'[v] = written[v]
  BY <1>4 DEF Write, Commit, IInv, TypeOK
<1>6. request[c].row.version \in Version
  BY <1>2 DEF Row
<1>7. \A v \in Version : document_version'[v] =
        IF v = request[c].row.version /\ document_version[v] = NoSnapshot
        THEN [ text |-> request[c].row.text, actor |-> c ]
        ELSE document_version[v]
  BY <1>6 DEF Write, Commit, Snapshot, IInv, TypeOK
<1>8. request' = [request EXCEPT ![c] = [request[c] EXCEPT !.pc = "done", !.row = None]]
  BY DEF Write, IInv, TypeOK
<1>9. [request[c] EXCEPT !.pc = "done", !.row = None] \in Request
  BY <1>1 DEF Request
<1>10. request'[c].pc = "done" /\ request'[c] \in Request
  BY <1>1, <1>8, <1>9 DEF IInv, TypeOK, Request
<1> QED
  BY <1>2, <1>3, <1>5, <1>7, <1>8, <1>10 DEF Write, Commit, IInv, TypeOK

LEMMA WritePreserves ==
    ASSUME IInv, NEW c \in Client, Write(c)
    PROVE  IInv'
<1> DEFINE row == request[c].row
<1>1. Reading(c)
  BY DEF Write, Reading
<1>2. document.version \in Version /\ Len(written) = document.version
  BY DEF IInv, TypeOK, Row, Latest
<1>3. /\ document' = [ version |-> document.version + 1, text |-> request[c].text ]
      /\ document.version + 1 \in Version /\ request[c].text \in Text
      /\ Len(written') = Len(written) + 1
      /\ \A v \in 1..Len(written) : written'[v] = written[v]
      /\ \A v \in Version : document_version'[v] =
            IF v = row.version /\ document_version[v] = NoSnapshot
            THEN [ text |-> row.text, actor |-> c ]
            ELSE document_version[v]
  BY WriteEffect
<1>4. row.version \in Version /\ row.version <= document.version
        /\ row.text = written[row.version].text /\ row.text \in Text
  BY <1>1 DEF IInv, ReadsFaithful, Row
<1>5. TypeOK'
  <2>1. document' \in Row
    BY <1>3 DEF Row
  <2>2. [ text |-> row.text, actor |-> c ] \in Written
    BY <1>4 DEF Written
  <2>3. document_version' \in [Version -> Written \cup {NoSnapshot}]
    BY <2>2, <1>4 DEF Write, Commit, Snapshot, IInv, TypeOK
  <2>4. request' \in [Client -> Request \cup {Idle}]
    BY WriteEffect DEF Write, IInv, TypeOK
  <2> QED
    BY <2>1, <2>3, <2>4, WriteEffect DEF TypeOK
<1>6. Latest'
  BY <1>2, <1>3, WriteEffect DEF Latest, Version
<1>7. SnapshotsFaithful'
  <2> SUFFICES ASSUME NEW v \in Version, document_version'[v] # NoSnapshot
               PROVE  v <= Len(written') /\ document_version'[v].text = written'[v].text
    BY DEF SnapshotsFaithful
  <2>1. v <= Len(written) /\ document_version'[v].text = written[v].text
    <3>1. CASE v = row.version /\ document_version[v] = NoSnapshot
      BY <3>1, <1>2, <1>3, <1>4
    <3>2. CASE ~(v = row.version /\ document_version[v] = NoSnapshot)
      BY <3>2, <1>3 DEF IInv, SnapshotsFaithful
    <3> QED
      BY <3>1, <3>2
  <2>2. v \in 1..Len(written)
    BY <2>1, <1>2 DEF Version
  <2> QED
    BY <2>1, <2>2, <1>2, <1>3 DEF Version
<1>8. ReadsFaithful'
  <2> SUFFICES ASSUME NEW d \in Client, Reading(d)'
               PROVE  /\ request'[d].row \in Row
                      /\ request'[d].row.version <= document'.version
                      /\ request'[d].row.text = written'[request'[d].row.version].text
    BY DEF ReadsFaithful
  <2>1. d # c /\ request'[d] = request[d] /\ Reading(d)
    BY WriteEffect DEF Reading
  <2>2. /\ request[d].row \in Row
        /\ request[d].row.version <= document.version
        /\ request[d].row.text = written[request[d].row.version].text
    BY <2>1 DEF IInv, ReadsFaithful
  <2>3. request[d].row.version \in 1..Len(written)
    BY <2>2, <1>2 DEF Row, Version
  <2>4. written'[request[d].row.version] = written[request[d].row.version]
    BY <2>3, WriteEffect
  <2> QED
    BY <2>1, <2>2, <2>3, <2>4, <1>2, <1>3 DEF Version
<1>9. Serial'
  <2> SUFFICES ASSUME IsRequirement
               PROVE  \A d \in Client : ~Reading(d)'
    BY DEF Serial
  <2>1. \A d \in Client : Reading(d) => d = c
    BY <1>1 DEF IInv, Serial
  <2> QED
    BY <2>1, WriteEffect DEF Reading
<1>10. IsRequirement => HistoryComplete'
  <2> SUFFICES ASSUME IsRequirement, NEW v \in 1..document.version
               PROVE  document_version'[v] # NoSnapshot
    BY <1>2, <1>3 DEF HistoryComplete, Version
  <2>1. v \in Version
    BY <1>2, VersionsAssumption DEF Version
  <2>2. row = document
    BY <1>1 DEF IInv, Serial
  <2>3. CASE v = document.version
    <3>1. [ text |-> row.text, actor |-> c ] # NoSnapshot
      BY <1>4, VersionsAssumption DEF NoSnapshot
    <3> QED
      BY <2>1, <2>2, <2>3, <3>1, <1>3
  <2>4. CASE v # document.version
    <3>1. document_version[v] # NoSnapshot
      BY <2>4, <1>2 DEF IInv, HistoryComplete, Version
    <3> QED
      BY <2>1, <3>1, <1>3
  <2> QED
    BY <2>3, <2>4
<1>11. NothingRead'
  BY WriteEffect DEF IInv, NothingRead
<1> QED
  BY <1>5, <1>6, <1>7, <1>8, <1>9, <1>10, <1>11 DEF IInv

LEMMA NextPreserves ==
    ASSUME IInv, [Next]_serverVars
    PROVE  IInv'
<1>1. CASE UNCHANGED serverVars
  BY <1>1 DEF serverVars, IInv, TypeOK, Latest, SnapshotsFaithful, ReadsFaithful, Serial,
              NothingRead, Reading, HistoryComplete
<1> QED
  BY <1>1, StepShapes, TurnPreserves, WritePreserves DEF IInv

LEMMA InitIInv ==
    ASSUME Init
    PROVE  IInv
<1>1. PICK text \in Text, c \in Client :
        /\ document = [ version |-> 1, text |-> text ]
        /\ document_version = [v \in Version |->
                IF v = 1 THEN [ text |-> text, actor |-> c ] ELSE NoSnapshot]
        /\ request = [d \in Client |-> Idle]
        /\ written = <<[ text |-> text, actor |-> c ]>>
  BY DEF Init
<1>2. 1 \in Version
  BY VersionsAssumption DEF Version
<1>3. [ text |-> text, actor |-> c ] \in Written
  BY DEF Written
<1>4. TypeOK
  BY <1>1, <1>2, <1>3 DEF TypeOK, Row
<1>5. \A d \in Client : ~Reading(d)
  BY <1>1 DEF Reading, Idle
<1>6. Latest /\ SnapshotsFaithful /\ HistoryComplete
  BY <1>1, <1>2 DEF Latest, SnapshotsFaithful, HistoryComplete
<1> QED
  BY <1>1, <1>4, <1>5, <1>6 DEF IInv, ReadsFaithful, Serial, NothingRead, Idle

--------------------------------------------------------------------------------
(* Theorems *)

\* IInv is an invariant of every document.
THEOREM Invariance == Spec => []IInv
  BY InitIInv, NextPreserves, PTL DEF Spec

\* Every variable keeps its type: the version of a restore is one that exists, and
\* nothing is written that is not a row (document_update, requirement_patch).
THEOREM TypeCorrect == Spec => []TypeOK
<1>1. IInv => TypeOK
  BY DEF IInv
<1> QED
  BY <1>1, Invariance, PTL

\* A row of document_version says what the document said at that version, however
\* saves overtake each other between the SELECT and the INSERT of document_update.
THEOREM HistoryFaithful == Spec => []SnapshotsFaithful
<1>1. IInv => SnapshotsFaithful
  BY DEF IInv
<1> QED
  BY <1>1, Invariance, PTL

\* Every overwritten text of a requirement is in its history: the FOR UPDATE of
\* requirement_patch is enough, without a lock on the document.
THEOREM RequirementHistoryComplete ==
    ASSUME IsRequirement
    PROVE  Spec => []HistoryComplete
<1>1. IInv => HistoryComplete
  BY DEF IInv
<1> QED
  BY <1>1, Invariance, PTL

\* A save of a requirement that names a version overwrites that version.
THEOREM RequirementSavesCompare ==
    ASSUME IsRequirement
    PROVE  Spec => CheckedSavesCompare
<1>1. ASSUME IInv, NEW c \in Client, Overwrites(c), request[c].base # None
      PROVE  document.version = request[c].base
  BY <1>1 DEF IInv, Serial, Reading, Overwrites
<1>2. IInv => [\A c \in Client : Overwrites(c) /\ request[c].base # None =>
                    document.version = request[c].base]_serverVars
  BY <1>1
<1> QED
  BY <1>2, Invariance, PTL DEF CheckedSavesCompare

\* No entry of the history is ever rewritten (ON CONFLICT DO NOTHING).
THEOREM HistoryNeverRewritten == Spec => HistoryImmutable
<1>1. ASSUME IInv, [Next]_serverVars, NEW v \in Version,
             document_version[v] # NoSnapshot
      PROVE  document_version'[v] = document_version[v]
  BY <1>1, StepShapes, WriteEffect DEF Turns, serverVars, IInv
<1>2. IInv /\ [Next]_serverVars =>
        [\A v \in Version : document_version[v] # NoSnapshot =>
            document_version'[v] = document_version[v]]_serverVars
  BY <1>1
<1> QED
  BY <1>2, Invariance, PTL DEF Spec, HistoryImmutable

--------------------------------------------------------------------------------
(* DocumentVersions implements DocumentHistory *)

\* The history: the text of each version.
Texts == [ v \in 1..document.version |->
            IF v = document.version THEN document.text ELSE document_version[v].text ]

\* A save that has been read is one that is still to be made.
Seen(q) == IF q.pc = "read" THEN [q EXCEPT !.pc = "sent", !.row = None] ELSE q

Saves == [ c \in Client |-> Seen(request[c]) ]

LEMMA HistoryIsAList ==
    ASSUME IInv, IsRequirement
    PROVE  /\ Texts \in Seq(Text)
           /\ Len(Texts) = document.version
           /\ document.version \in Version
           /\ Texts[Len(Texts)] = document.text
<1>1. document.version \in Version /\ document.text \in Text
  BY DEF IInv, TypeOK, Row
<1>2. PICK n \in Nat : n = document.version /\ n >= 1
  BY <1>1, VersionsAssumption DEF Version
<1>3. ASSUME NEW v \in 1..n
      PROVE  (IF v = document.version THEN document.text ELSE document_version[v].text) \in Text
  <2>1. CASE v = n
    BY <1>1, <1>2, <2>1
  <2>2. CASE v # n
    <3>1. v \in Version /\ v \in 1..(n - 1)
      BY <1>1, <1>2, <2>2, VersionsAssumption DEF Version
    <3>2. document_version[v] # NoSnapshot
      BY <1>2, <3>1 DEF IInv, HistoryComplete
    <3>3. document_version[v] \in Written
      BY <3>1, <3>2 DEF IInv, TypeOK
    <3>4. QED
      BY <1>2, <2>2, <3>3 DEF Written
  <2>3. QED
    BY <2>1, <2>2
<1>4. Texts \in [1..n -> Text]
  BY <1>2, <1>3 DEF Texts
<1>5. Texts[n] = document.text
  BY <1>2 DEF Texts
<1>6. QED
  BY <1>1, <1>2, <1>4, <1>5

\* The history goes with the document and its rows ...
LEMMA HistorySame ==
    ASSUME UNCHANGED <<document, document_version, written>>
    PROVE  Texts' = Texts
BY DEF Texts

\* ... and the saves go with the requests.
LEMMA SaveTurns ==
    ASSUME IInv, NEW c \in Client, NEW q, request' = [request EXCEPT ![c] = q]
    PROVE  Saves' = [Saves EXCEPT ![c] = Seen(q)]
BY DEF Saves, IInv, TypeOK

\* What the actions of DocumentHistory are of this history.
LEMMA HistorySteps ==
    ASSUME NEW c \in Client
    PROVE  /\ \A text \in Text, base \in 1..Len(Texts) \cup {None} :
                /\ Saves[c] = Idle
                /\ Saves' = [Saves EXCEPT ![c] =
                        [ pc |-> "sent", text |-> text, base |-> base, row |-> None ]]
                /\ Texts' = Texts
                => HistoryOf!Next
           /\ /\ Saves[c].pc = "sent"
              /\ Saves[c].base \in {None, Len(Texts)}
              /\ Texts' = IF Saves[c].text = Texts[Len(Texts)] THEN Texts
                                                               ELSE Append(Texts, Saves[c].text)
              /\ Saves' = [Saves EXCEPT ![c].pc = "done"]
              => HistoryOf!Next
           /\ /\ Saves[c].pc = "sent"
              /\ Saves[c].base \notin {None, Len(Texts)}
              /\ Saves' = [Saves EXCEPT ![c].pc = "conflict"]
              /\ Texts' = Texts
              => HistoryOf!Next
           /\ /\ Saves[c].pc = "done"
              /\ Saves' = [Saves EXCEPT ![c].pc = "replied",
                             ![c].row = [ version |-> Len(Texts), text |-> Texts[Len(Texts)] ]]
              /\ Texts' = Texts
              => HistoryOf!Next
           /\ /\ Saves[c] # Idle
              /\ Saves' = [Saves EXCEPT ![c] = Idle]
              /\ Texts' = Texts
              => HistoryOf!Next
<1>1. ASSUME NEW text \in Text, NEW base \in 1..Len(Texts) \cup {None},
             Saves[c] = Idle, Texts' = Texts,
             Saves' = [Saves EXCEPT ![c] =
                        [ pc |-> "sent", text |-> text, base |-> base, row |-> None ]]
      PROVE  HistoryOf!Next
  <2>1. HistoryOf!Ask(c, text, base)
    BY <1>1 DEF HistoryOf!Ask, HistoryOf!Idle, Idle, Texts, Saves, Seen
  <2>2. base \in 1..Len([ v \in 1..document.version |->
            IF v = document.version THEN document.text ELSE document_version[v].text ]) \cup {None}
    BY <1>1 DEF Texts
  <2>3. QED
    BY <2>1, <2>2 DEF HistoryOf!Next
<1>2. ASSUME Saves[c].pc = "sent", Saves[c].base \in {None, Len(Texts)},
             Texts' = IF Saves[c].text = Texts[Len(Texts)] THEN Texts
                                                           ELSE Append(Texts, Saves[c].text),
             Saves' = [Saves EXCEPT ![c].pc = "done"]
      PROVE  HistoryOf!Next
  <2>1. HistoryOf!Keep(c)
    BY <1>2 DEF HistoryOf!Keep, HistoryOf!Expected, HistoryOf!Latest, Texts, Saves, Seen
  <2>2. QED
    BY <2>1 DEF HistoryOf!Next
<1>3. ASSUME Saves[c].pc = "sent", Saves[c].base \notin {None, Len(Texts)},
             Saves' = [Saves EXCEPT ![c].pc = "conflict"], Texts' = Texts
      PROVE  HistoryOf!Next
  <2>1. HistoryOf!Refuse(c)
    BY <1>3 DEF HistoryOf!Refuse, HistoryOf!Expected, Texts, Saves, Seen
  <2>2. QED
    BY <2>1 DEF HistoryOf!Next
<1>4. ASSUME Saves[c].pc = "done", Texts' = Texts,
             Saves' = [Saves EXCEPT ![c].pc = "replied",
                         ![c].row = [ version |-> Len(Texts), text |-> Texts[Len(Texts)] ]]
      PROVE  HistoryOf!Next
  <2>1. HistoryOf!Tell(c)
    BY <1>4 DEF HistoryOf!Tell, HistoryOf!Latest, Texts, Saves, Seen
  <2>2. QED
    BY <2>1 DEF HistoryOf!Next
<1>5. ASSUME Saves[c] # Idle, Saves' = [Saves EXCEPT ![c] = Idle], Texts' = Texts
      PROVE  HistoryOf!Next
  <2>1. HistoryOf!Leave(c)
    BY <1>5 DEF HistoryOf!Leave, HistoryOf!Idle, Idle, Texts, Saves, Seen
  <2>2. QED
    BY <2>1 DEF HistoryOf!Next
<1>6. QED
  BY <1>1, <1>2, <1>3, <1>4, <1>5

LEMMA SendIsAsked ==
    ASSUME IInv, IsRequirement, NEW c \in Client, NEW text \in Text,
           NEW base \in 1..document.version \cup {None}, Send(c, text, base),
           UNCHANGED <<document, document_version, written>>
    PROVE  HistoryOf!Next
<1> DEFINE q == [ pc |-> "sent", text |-> text, base |-> base, row |-> None ]
<1>1. Saves' = [Saves EXCEPT ![c] = Seen(q)]
  BY SaveTurns DEF Send
<1>2. Seen(q) = q
  BY DEF Seen
<1>3. Saves[c] = Idle
  BY DEF Send, Saves, Seen, Idle
<1>4. Texts' = Texts /\ base \in 1..Len(Texts) \cup {None}
  BY HistorySame, HistoryIsAList
<1>5. QED
  BY <1>1, <1>2, <1>3, <1>4, HistorySteps

LEMMA ReadIsSeen ==
    ASSUME IInv, IsRequirement, NEW c \in Client, Read(c)
    PROVE  HistoryOf!Next \/ (Texts' = Texts /\ Saves' = Saves)
<1>1. PICK p : p = request[c]
  OBVIOUS
<1>2. p \in Request /\ p.pc = "sent"
  BY <1>1, SentTyped DEF IInv, Read
<1>3. Saves[c] = p
  BY <1>1, <1>2 DEF Saves, Seen
<1>4. Texts' = Texts
  BY HistorySame DEF Read
<1>5. Len(Texts) = document.version /\ Texts[Len(Texts)] = document.text
  BY HistoryIsAList
<1>6. PICK q : /\ request' = [request EXCEPT ![c] = q]
               /\ q = IF Stale(p) THEN [p EXCEPT !.pc = "conflict"]
                      ELSE IF IsRequirement /\ p.text = document.text
                           THEN [p EXCEPT !.pc = "done"]
                      ELSE [p EXCEPT !.pc = "read", !.row = document]
  BY <1>1 DEF Read, IInv, TypeOK
<1>7. Saves' = [Saves EXCEPT ![c] = Seen(q)]
  BY <1>6, SaveTurns
<1>8. CASE Stale(p)
  <2>1. Saves' = [Saves EXCEPT ![c].pc = "conflict"]
    BY <1>2, <1>3, <1>6, <1>7, <1>8 DEF Seen, Request, Saves
  <2>2. Saves[c].base \notin {None, Len(Texts)}
    BY <1>3, <1>5, <1>8 DEF Stale
  <2>3. QED
    BY <1>2, <1>3, <1>4, <2>1, <2>2, HistorySteps
<1>9. CASE ~Stale(p) /\ p.text = document.text
  <2>1. Saves' = [Saves EXCEPT ![c].pc = "done"]
    BY <1>2, <1>3, <1>6, <1>7, <1>9 DEF Seen, Request, Saves
  <2>2. Saves[c].base \in {None, Len(Texts)}
    BY <1>3, <1>5, <1>9 DEF Stale
  <2>3. Texts' = IF Saves[c].text = Texts[Len(Texts)] THEN Texts
                                                      ELSE Append(Texts, Saves[c].text)
    BY <1>3, <1>4, <1>5, <1>9
  <2>4. QED
    BY <1>2, <1>3, <2>1, <2>2, <2>3, HistorySteps
<1>10. CASE ~Stale(p) /\ p.text # document.text
  <2>1. p.row = None
    BY <1>1, <1>2 DEF IInv, NothingRead
  <2>2. Seen(q) = p
    BY <1>2, <1>6, <1>10, <2>1 DEF Seen, Request
  <2>3. Saves' = Saves
    BY <1>3, <1>7, <2>2 DEF Saves
  <2>4. QED
    BY <1>4, <2>3
<1>11. QED
  BY <1>8, <1>9, <1>10

\* A write is where the save is made: the lock has kept everyone else from the document
\* since the comparison, and so what is filed is what is overwritten.
LEMMA WriteIsKept ==
    ASSUME IInv, IsRequirement, NEW c \in Client, Write(c)
    PROVE  HistoryOf!Next
<1>1. PICK p : p = request[c]
  OBVIOUS
<1>2. p \in Request /\ p.pc = "read" /\ Reading(c)
  BY <1>1, SentTyped DEF IInv, Write, Reading
<1>3. /\ p.row = document
      /\ p.base \in {None, document.version}
      /\ p.text # document.text
  BY <1>1, <1>2 DEF IInv, Serial
<1>4. PICK s : s = [p EXCEPT !.pc = "sent", !.row = None]
  OBVIOUS
<1>5. s.pc = "sent" /\ s.text = p.text /\ s.base = p.base /\ s.row = None /\ Saves[c] = s
  BY <1>1, <1>2, <1>4 DEF Saves, Seen, Request
<1>6. PICK q : q = [p EXCEPT !.pc = "done", !.row = None]
  OBVIOUS
<1>7. request' = [request EXCEPT ![c] = q]
  BY <1>1, <1>6 DEF Write, IInv, TypeOK
<1>8. Seen(q) = q /\ q = [s EXCEPT !.pc = "done"]
  BY <1>2, <1>4, <1>6 DEF Seen, Request
<1>9. Saves' = [Saves EXCEPT ![c].pc = "done"]
  <2>1. PICK saves : saves = Saves
    OBVIOUS
  <2>2. saves[c] = s
    BY <1>5, <2>1
  <2>3. Saves' = [saves EXCEPT ![c] = q]
    <3>1. Saves' = [saves EXCEPT ![c] = Seen(q)]
      BY <1>7, <2>1, SaveTurns
    <3>2. QED
      BY <1>8, <3>1, Zenon
  <2>4. QED
    BY <1>8, <2>1, <2>2, <2>3
<1>10. /\ Texts \in Seq(Text) /\ Len(Texts) = document.version /\ document.version \in Version
       /\ Texts[Len(Texts)] = document.text
  BY HistoryIsAList
<1>11. PICK n \in Nat : n = document.version /\ n >= 1
  BY <1>10, VersionsAssumption DEF Version
<1>12. /\ document' = [ version |-> n + 1, text |-> p.text ]
       /\ \A v \in Version : document_version'[v] =
            IF v = n /\ document_version[v] = NoSnapshot
            THEN [ text |-> document.text, actor |-> c ]
            ELSE document_version[v]
  BY <1>1, <1>3, <1>11, WriteEffect
<1>13. document_version'[n].text = document.text
  <2>1. n \in Version
    BY <1>10, <1>11
  <2>2. CASE document_version[n] = NoSnapshot
    BY <1>12, <2>1, <2>2
  <2>3. CASE document_version[n] # NoSnapshot
    BY <1>11, <1>12, <2>1, <2>3 DEF IInv, SnapshotsFaithful, Latest
  <2>4. QED
    BY <2>2, <2>3
<1>14. \A v \in 1..(n - 1) : v \in Version /\ document_version'[v] = document_version[v]
  BY <1>10, <1>11, <1>12, VersionsAssumption DEF Version
<1>15. PICK new : new = Texts'
  OBVIOUS
<1>16. new = [ v \in 1..(n + 1) |->
                    IF v = n + 1 THEN p.text ELSE document_version'[v].text ]
  BY <1>12, <1>15 DEF Texts
<1>17. \A v \in 1..n : new[v] = Texts[v]
  <2>1. ASSUME NEW v \in 1..n
        PROVE  new[v] = Texts[v]
    <3>1. v \in 1..(n + 1) /\ v # n + 1
      BY <1>11
    <3>2. new[v] = document_version'[v].text
      BY <1>16, <3>1
    <3>3. CASE v = n
      BY <1>10, <1>11, <1>13, <3>2, <3>3
    <3>4. CASE v # n
      <4>1. v \in 1..(n - 1)
        BY <1>11, <3>4
      <4>2. Texts[v] = document_version[v].text
        BY <1>11, <3>4 DEF Texts
      <4>3. QED
        BY <1>14, <3>2, <4>1, <4>2
    <3>5. QED
      BY <3>3, <3>4
  <2>2. QED
    BY <2>1
<1>18. new = Append(Texts, p.text)
  <2>1. PICK old : old = Texts
    OBVIOUS
  <2>2. old \in Seq(Text) /\ Len(old) = n
    BY <1>10, <1>11, <2>1
  <2>3. DOMAIN new = 1..(n + 1) /\ new[n + 1] = p.text /\ \A v \in 1..n : new[v] = old[v]
    BY <1>11, <1>16, <1>17, <2>1
  <2>4. new = [ v \in 1..(n + 1) |-> IF v = n + 1 THEN p.text ELSE old[v] ]
    <3>1. \A v \in 1..(n + 1) : v # n + 1 => v \in 1..n
      BY <1>11
    <3>2. \A v \in 1..(n + 1) : v # n + 1 => document_version'[v].text = old[v]
      BY <1>16, <2>3, <3>1
    <3>3. QED
      BY <1>16, <3>2
  <2>5. QED
    BY <2>1, <2>2, <2>4, <1>2 DEF Request
<1>19. QED
  BY <1>3, <1>5, <1>9, <1>10, <1>15, <1>18, HistorySteps

LEMMA ReplyIsTold ==
    ASSUME IInv, IsRequirement, NEW c \in Client, Reply(c)
    PROVE  HistoryOf!Next
<1>1. PICK p : p = request[c]
  OBVIOUS
<1>2. p \in Request /\ p.pc = "done" /\ Saves[c] = p
  BY <1>1, SentTyped DEF IInv, Reply, Saves, Seen
<1>3. PICK q : q = [p EXCEPT !.pc = "replied", !.row = document]
  OBVIOUS
<1>4. request' = [request EXCEPT ![c] = q]
  BY <1>1, <1>3 DEF Reply, IInv, TypeOK
<1>5. Seen(q) = q
  BY <1>2, <1>3 DEF Seen, Request
<1>6. document = [ version |-> Len(Texts), text |-> Texts[Len(Texts)] ]
  BY HistoryIsAList DEF IInv, TypeOK, Row
<1>7. Saves' = [Saves EXCEPT ![c].pc = "replied", ![c].row = document]
  <2>1. PICK saves : saves = Saves
    OBVIOUS
  <2>2. c \in DOMAIN saves /\ saves[c] = p
    BY <1>2, <2>1 DEF Saves
  <2>3. Saves' = [saves EXCEPT ![c] = q]
    BY <1>4, <1>5, <2>1, SaveTurns
  <2>4. QED
    BY <1>2, <1>3, <2>1, <2>2, <2>3
<1>8. Texts' = Texts
  BY HistorySame DEF Reply
<1>9. QED
  BY <1>2, <1>6, <1>7, <1>8, HistorySteps

LEMMA FinishIsLeft ==
    ASSUME IInv, NEW c \in Client, Finish(c)
    PROVE  HistoryOf!Next
<1>1. Saves' = [Saves EXCEPT ![c] = Seen(Idle)] /\ Seen(Idle) = Idle
  BY SaveTurns DEF Finish, Respond, Seen, Idle
<1>2. Saves[c] # Idle
  <2>1. request[c] \in Request /\ request[c].pc # "idle"
    BY DEF IInv, TypeOK, Finish, Request
  <2>2. Saves[c].pc # "idle"
    BY <2>1 DEF Saves, Seen, Request
  <2>3. QED
    BY <2>2 DEF Idle
<1>3. Texts' = Texts
  BY HistorySame DEF Finish
<1>4. QED
  BY <1>1, <1>2, <1>3, HistorySteps

LEMMA StepIsHistory ==
    ASSUME IInv, IsRequirement, [Next]_serverVars
    PROVE  HistoryOf!Next \/ (Texts' = Texts /\ Saves' = Saves)
<1>1. document.version \in Nat
  BY VersionsAssumption DEF IInv, TypeOK, Row, Version
<1>2. ASSUME NEW c \in Client, NEW text \in Text, NEW base \in Version \cup {None},
             Save(c, text, base)
      PROVE  HistoryOf!Next
  BY <1>2, SendIsAsked DEF Save
<1>3. ASSUME NEW c \in Client, NEW v \in Version, RestoreDocumentVersion(c, v)
      PROVE  HistoryOf!Next
  <2>1. document_version[v].text \in Text
    BY <1>3 DEF RestoreDocumentVersion, IInv, TypeOK, Written
  <2>2. QED
    BY <1>3, <2>1, SendIsAsked DEF RestoreDocumentVersion
<1>4. CASE UNCHANGED serverVars
  BY <1>4 DEF serverVars, Texts, Saves
<1>5. QED
  BY <1>2, <1>3, <1>4, ReadIsSeen, WriteIsKept, ReplyIsTold, FinishIsLeft DEF Next, ServerStep

\* The document row and the document_version rows of a requirement are one list of texts that
\* saves append to, each at one moment, and next to the version it names if it names one:
\* requirement_patch is atomic, whatever else is saved, restored or broken off meanwhile.
THEOREM RequirementHistoryRefinement ==
    ASSUME IsRequirement
    PROVE  Spec => ImplementsHistory
<1>1. Init => HistoryOf!Init
  <2>1. SUFFICES ASSUME Init
                 PROVE  HistoryOf!Init
    OBVIOUS
  <2>2. PICK text \in Text : document = [ version |-> 1, text |-> text ]
    BY <2>1 DEF Init
  <2>3. Texts = <<text>>
    BY <2>2 DEF Texts
  <2>4. Saves = [ c \in Client |-> Idle ]
    BY <2>1 DEF Init, Saves, Seen, Idle
  <2>5. QED
    BY <2>3, <2>4 DEF HistoryOf!Init, HistoryOf!Idle, Idle, Texts, Saves, Seen
<1>2. IInv /\ [Next]_serverVars => [HistoryOf!Next]_(HistoryOf!vars)
  <2>1. SUFFICES ASSUME IInv, [Next]_serverVars
                 PROVE  HistoryOf!Next \/ UNCHANGED HistoryOf!vars
    OBVIOUS
  <2>2. CASE Texts' = Texts /\ Saves' = Saves
    BY <2>2 DEF HistoryOf!vars, Texts, Saves, Seen
  <2>3. QED
    BY <2>1, <2>2, StepIsHistory
<1>3. QED
  BY <1>1, <1>2, Invariance, PTL DEF Spec, ImplementsHistory, HistoryOf!Spec

--------------------------------------------------------------------------------
(* The note editor (DocumentEditor) *)

\* A page, and the request of its browser.  (While a save is on its way there is room for
\* the GET that a conflict will cause.)
PageOK(e, q) ==
    /\ e \in Editor
    /\ Stored(e.doc.text)
    /\ e.fetched # None => Stored(e.fetched.text)
    /\ e.conflict # None => Stored(e.conflict.text)
    /\ e.state = "saved" => Stored(e.content)
    /\ e.state = "saving" /\ q.pc # "idle" => q.text = e.content
    /\ q.pc # "idle" => e.asks < MaxAsks
    /\ q.pc = "replied" => q.row \in Row /\ Stored(q.row.text)
    /\ q.pc \in {"done", "replied"} => Stored(q.text)

EInv ==
    /\ IInv
    /\ editor \in [Browser -> Editor]
    /\ \A b \in Browser : PageOK(editor[b], request[b])

--------------------------------------------------------------------------------
(* What is stored stays so *)

LEMMA DocumentStored ==
    ASSUME IInv
    PROVE  document \in Row /\ Stored(document.text)
BY DEF IInv, TypeOK, Latest, Stored, Row, Version

LEMMA StoredStays ==
    ASSUME NEW text, Stored(text),
           Len(written) \in Nat,
           Len(written') = Len(written) + 1,
           \A v \in 1..Len(written) : written'[v] = written[v]
    PROVE  Stored(text)'
BY DEF Stored

LEMMA PageStays ==
    ASSUME NEW e, NEW q, PageOK(e, q),
           Len(written) \in Nat,
           Len(written') = Len(written) + 1,
           \A v \in 1..Len(written) : written'[v] = written[v]
    PROVE  PageOK(e, q)'
BY StoredStays DEF PageOK

LEMMA PageSame ==
    ASSUME NEW e, NEW q, PageOK(e, q), written' = written
    PROVE  PageOK(e, q)'
BY DEF PageOK, Stored

\* A save by another client is a write that had just read the document.
LEMMA OtherPreserves ==
    ASSUME IInv, ~IsRequirement, NEW c \in Client, NEW text \in Text,
           Commit(c, document, text), UNCHANGED request
    PROVE  /\ IInv'
           /\ Len(written') = Len(written) + 1
           /\ \A v \in 1..Len(written) : written'[v] = written[v]
<1>1. document \in Row /\ document.version \in Version /\ document.text \in Text
  BY DEF IInv, TypeOK, Row
<1>2. document.version + 1 \in Version
  BY <1>1, VersionsAssumption DEF Commit, Version
<1>3. /\ [ text |-> text, actor |-> c ] \in Written
      /\ [ text |-> document.text, actor |-> c ] \in Written
  BY <1>1 DEF Written
<1>4. /\ written' \in Seq(Written)
      /\ Len(written) \in Nat
      /\ Len(written') = Len(written) + 1
      /\ written'[Len(written) + 1].text = text
      /\ \A v \in 1..Len(written) : written'[v] = written[v]
  BY <1>3 DEF Commit, IInv, TypeOK
<1>5. document' = [ version |-> document.version + 1, text |-> text ]
  BY DEF Commit
<1>6. \A v \in Version : document_version'[v] =
        IF v = document.version /\ document_version[v] = NoSnapshot
        THEN [ text |-> document.text, actor |-> c ] ELSE document_version[v]
  BY <1>1 DEF Commit, Snapshot, IInv, TypeOK
<1>7. TypeOK'
  <2>1. document' \in Row
    BY <1>2, <1>5 DEF Row
  <2>2. document_version' \in [Version -> Written \cup {NoSnapshot}]
    BY <1>1, <1>3 DEF Commit, Snapshot, IInv, TypeOK
  <2> QED  BY <2>1, <2>2, <1>4 DEF IInv, TypeOK
<1>8. Len(written) = document.version /\ document.text = written[document.version].text
  BY DEF IInv, Latest
<1>9. Latest'
  BY <1>4, <1>5, <1>8 DEF Latest
<1>10. SnapshotsFaithful'
  <2> SUFFICES ASSUME NEW v \in Version, document_version'[v] # NoSnapshot
               PROVE  v <= Len(written') /\ document_version'[v].text = written'[v].text
    BY DEF SnapshotsFaithful
  <2>1. v <= Len(written) /\ document_version'[v].text = written[v].text
    BY <1>6, <1>8 DEF IInv, SnapshotsFaithful, Version
  <2> QED  BY <2>1, <1>4 DEF Version
<1>11. ReadsFaithful'
  <2> SUFFICES ASSUME NEW d \in Client, Reading(d)
               PROVE  /\ request[d].row \in Row
                      /\ request[d].row.version <= document'.version
                      /\ request[d].row.text = written'[request[d].row.version].text
    BY DEF ReadsFaithful, Reading
  <2>1. /\ request[d].row \in Row
        /\ request[d].row.version <= document.version
        /\ request[d].row.text = written[request[d].row.version].text
    BY DEF IInv, ReadsFaithful
  <2>2. request[d].row.version \in 1..Len(written)
    BY <2>1, <1>8 DEF Row, Version
  <2> QED  BY <2>1, <2>2, <1>1, <1>4, <1>5 DEF Version
<1>12. NothingRead'
  BY <1>1 DEF IInv, NothingRead
<1> QED  BY <1>4, <1>7, <1>9, <1>10, <1>11, <1>12 DEF IInv, Serial

--------------------------------------------------------------------------------
(* Steps of the page alone *)

PageStep(b) ==
    \/ \E text \in Text : Type(b, text)
    \/ ChangeType(b) \/ TakeServer(b) \/ CloseDialog(b)
    \/ ConflictAnswered(b) \/ ConflictUnanswered(b)
    \/ Refetch(b) \/ Refetched(b)

LEMMA AdoptSound ==
    ASSUME NEW old, NEW new, NEW q, PageOK(new, q)
    PROVE  PageOK(Adopt(old, new), q)
<1>1. CASE Adopt(old, new) = new
  BY <1>1
<1>2. CASE new.state = "saved"
        /\ Adopt(old, new) = [new EXCEPT !.content = new.doc.text, !.base = new.doc.version]
  <2>1. new.doc.text \in Text /\ new.doc.version \in Version
    BY DEF PageOK, Editor, Row
  <2> QED  BY <1>2, <2>1 DEF PageOK, Editor
<1> QED  BY <1>1, <1>2 DEF Adopt

LEMMA PageStepSound ==
    ASSUME EInv, NEW b \in Browser, PageStep(b)
    PROVE  /\ ServerSame
           /\ \E e : editor' = [editor EXCEPT ![b] = e] /\ PageOK(e, request[b])
<1> DEFINE e == editor[b]
<1>1. e = editor[b]
  OBVIOUS
<1> HIDE DEF e
<1>2. PICK q : q = request[b]
  OBVIOUS
<1>3. PageOK(e, q)
  BY <1>1, <1>2 DEF EInv
<1>4. document \in Row /\ Stored(document.text)
  BY DocumentStored DEF EInv
<1>5. ServerSame
  BY DEF PageStep, Type, ChangeType, TakeServer, CloseDialog, ConflictAnswered, ConflictUnanswered,
         Refetch, Refetched
<1>6. ASSUME NEW text \in Text, Type(b, text)
      PROVE  \E f : editor' = [editor EXCEPT ![b] = f] /\ PageOK(f, q)
  <2> DEFINE f == [e EXCEPT !.content = text, !.state = "dirty"]
  <2>1. editor' = [editor EXCEPT ![b] = f]
    BY <1>1, <1>6 DEF Type, EInv
  <2>2. PageOK(f, q)
    BY <1>3 DEF PageOK, Editor
  <2> QED  BY <2>1, <2>2
<1>7. ASSUME TakeServer(b)
      PROVE  \E f : editor' = [editor EXCEPT ![b] = f] /\ PageOK(f, q)
  <2>1. PICK theirs : theirs = e.conflict
    OBVIOUS
  <2> DEFINE f == [e EXCEPT !.doc = theirs, !.content = theirs.text, !.base = theirs.version,
                            !.state = "saved", !.conflict = None]
  <2>2. theirs \in Row /\ Stored(theirs.text) /\ theirs.text \in Text /\ theirs.version \in Version
    BY <1>1, <1>3, <1>7, <2>1 DEF TakeServer, PageOK, Editor, Row
  <2>3. editor' = [editor EXCEPT ![b] = f]
    BY <1>1, <1>7, <2>1 DEF TakeServer
  <2>4. PageOK(f, q)
    BY <1>3, <2>2 DEF PageOK, Editor
  <2> QED  BY <2>3, <2>4
<1>8. ASSUME CloseDialog(b)
      PROVE  \E f : editor' = [editor EXCEPT ![b] = f] /\ PageOK(f, q)
  <2> DEFINE f == [e EXCEPT !.conflict = None]
  <2>1. editor' = [editor EXCEPT ![b] = f]
    BY <1>1, <1>8 DEF CloseDialog, EInv
  <2>2. PageOK(f, q)
    BY <1>3 DEF PageOK, Editor
  <2> QED  BY <2>1, <2>2
<1>9. ASSUME ConflictAnswered(b)
      PROVE  \E f : editor' = [editor EXCEPT ![b] = f] /\ PageOK(f, q)
  <2>1. PICK row : row = document
    OBVIOUS
  <2> DEFINE f == [e EXCEPT !.asks = e.asks - 1, !.conflict = row, !.state = "conflict"]
  <2>2. editor' = [editor EXCEPT ![b] = f]
    BY <1>1, <1>9, <2>1 DEF ConflictAnswered, EInv
  <2>3. e.asks > 0
    BY <1>1, <1>9 DEF ConflictAnswered
  <2>4. e.asks - 1 \in 0..MaxAsks
    BY <1>3, <2>3, EditorAssumption DEF PageOK, Editor, EditorAssumption
  <2>5. f \in Editor
    BY <1>3, <1>4, <2>1, <2>4 DEF PageOK, Editor
  <2>6. /\ f.doc = e.doc /\ f.fetched = e.fetched /\ f.conflict = row
        /\ f.state = "conflict" /\ f.asks = e.asks - 1
    BY <1>3, <2>1 DEF PageOK, Editor
  <2>7. PageOK(f, q)
    BY <1>3, <1>4, <2>1, <2>4, <2>5, <2>6, EditorAssumption DEF PageOK, Editor, EditorAssumption
  <2> QED  BY <2>2, <2>7
<1>10. ASSUME ConflictUnanswered(b)
       PROVE  \E f : editor' = [editor EXCEPT ![b] = f] /\ PageOK(f, q)
  <2> DEFINE f == [e EXCEPT !.asks = @ - 1]
  <2>1. editor' = [editor EXCEPT ![b] = f]
    BY <1>1, <1>10 DEF ConflictUnanswered, EInv
  <2>2. e.asks > 0
    BY <1>1, <1>10 DEF ConflictUnanswered
  <2>3. e.asks - 1 \in 0..MaxAsks
    BY <1>3, <2>2, EditorAssumption DEF PageOK, Editor, EditorAssumption
  <2>4. f \in Editor
    BY <1>3, <2>3 DEF PageOK, Editor
  <2>5. /\ f.doc = e.doc /\ f.fetched = e.fetched /\ f.conflict = e.conflict
        /\ f.state = e.state /\ f.content = e.content /\ f.asks = e.asks - 1
    BY <1>3 DEF PageOK, Editor
  <2>6. PageOK(f, q)
    BY <1>3, <2>4, <2>5, EditorAssumption DEF PageOK, Editor, EditorAssumption
  <2> QED  BY <2>1, <2>6
<1>11. ASSUME Refetch(b)
       PROVE  \E f : editor' = [editor EXCEPT ![b] = f] /\ PageOK(f, q)
  <2>1. PICK row : row = document
    OBVIOUS
  <2> DEFINE f == [e EXCEPT !.fetched = row]
  <2>2. editor' = [editor EXCEPT ![b] = f]
    BY <1>1, <1>11, <2>1 DEF Refetch, EInv
  <2>3. PageOK(f, q)
    BY <1>3, <1>4, <2>1 DEF PageOK, Editor
  <2> QED  BY <2>2, <2>3
<1>12. ASSUME Refetched(b)
       PROVE  \E f : editor' = [editor EXCEPT ![b] = f] /\ PageOK(f, q)
  <2>1. PICK row : row = e.fetched
    OBVIOUS
  <2> DEFINE new == [e EXCEPT !.doc = row, !.fetched = None]
  <2>2. editor' = [editor EXCEPT ![b] = Adopt(e, new)]
    BY <1>1, <1>12, <2>1 DEF Refetched, EInv
  <2>3. row \in Row /\ Stored(row.text)
    BY <1>1, <1>3, <1>12, <2>1 DEF Refetched, PageOK, Editor
  <2>4. PageOK(new, q)
    BY <1>3, <2>3 DEF PageOK, Editor
  <2> QED  BY <2>2, <2>4, AdoptSound
<1>13. ASSUME ChangeType(b)
       PROVE  \E f : editor' = [editor EXCEPT ![b] = f] /\ PageOK(f, q)
  <2> DEFINE f == [e EXCEPT !.heard = ~e.saving]
  <2>1. editor' = [editor EXCEPT ![b] = f]
    BY <1>1, <1>13 DEF ChangeType, EInv
  <2>2. f \in Editor
    BY <1>3 DEF PageOK, Editor
  <2>3. /\ f.doc = e.doc /\ f.fetched = e.fetched /\ f.conflict = e.conflict
        /\ f.state = e.state /\ f.content = e.content /\ f.asks = e.asks
    BY <1>3 DEF PageOK, Editor
  <2>4. PageOK(f, q)
    BY <1>3, <2>2, <2>3 DEF PageOK
  <2> QED  BY <2>1, <2>4
<1> QED
  BY <1>2, <1>5, <1>6, <1>7, <1>8, <1>9, <1>10, <1>11, <1>12, <1>13 DEF PageStep

--------------------------------------------------------------------------------
(* Saves and their answers *)

SaveStep(b) == SaveContent(b) \/ Overwrite(b)

AnswerStep(b) == SaveAnswered(b) \/ SaveConflicts(b) \/ SaveFails(b)

\* A step that moves the request of b on, or leaves it, and turns its page into e.
Moves(b, e, r) ==
    /\ editor' = [editor EXCEPT ![b] = e]
    /\ \/ Turns(b, r)
       \/ r = request[b] /\ ServerSame
    /\ PageOK(e, r)

LEMMA SaveSound ==
    ASSUME EInv, NEW b \in Browser, SaveStep(b)
    PROVE  \E e, r : Moves(b, e, r)
<1> DEFINE e == editor[b]
<1>1. e = editor[b]
  OBVIOUS
<1> HIDE DEF e
<1>2. PICK q : q = request[b]
  OBVIOUS
<1>3. PageOK(e, q) /\ b \in Client
  BY <1>1, <1>2, EditorAssumption DEF EInv, EditorAssumption
<1>4. e \in Editor /\ e.content \in Text /\ e.base \in Version
  BY <1>3 DEF PageOK, Editor
<1>5. ASSUME NEW base \in Version \cup {None}, Send(b, e.content, base),
             UNCHANGED <<document, document_version, written>>
      PROVE  LET r == [pc |-> "sent", text |-> e.content, base |-> base, row |-> None]
             IN  Turns(b, r)
  <2>1. [pc |-> "sent", text |-> e.content, base |-> base, row |-> None] \in Request
    BY <1>4 DEF Request
  <2> QED  BY <1>5, <2>1 DEF Send, Turns
<1>6. CASE SaveContent(b)
  <2> DEFINE f == [e EXCEPT !.saving = TRUE, !.state = "saving"]
             r == [pc |-> "sent", text |-> e.content, base |-> e.base, row |-> None]
  <2>1. editor' = [editor EXCEPT ![b] = f]
    BY <1>1, <1>6 DEF SaveContent, EInv
  <2>2. Turns(b, r) /\ e.asks < MaxAsks
    BY <1>1, <1>4, <1>5, <1>6 DEF SaveContent
  <2>3. PageOK(f, r)
    BY <1>3, <2>2 DEF PageOK, Editor
  <2> QED  BY <2>1, <2>2, <2>3 DEF Moves
<1>7. CASE Overwrite(b)
  <2>1. PICK theirs : theirs = e.conflict
    OBVIOUS
  <2>2. theirs \in Row /\ theirs.version \in Version
    BY <1>1, <1>4, <1>7, <2>1 DEF Overwrite, Editor, Row
  <2> DEFINE f == [e EXCEPT !.base = theirs.version, !.conflict = None,
                            !.saving = TRUE, !.state = IF e.saving THEN e.state ELSE "saving"]
             r == [pc |-> "sent", text |-> e.content, base |-> None, row |-> None]
  <2>3. editor' = [editor EXCEPT ![b] = f]
    BY <1>1, <1>7, <2>1 DEF Overwrite, EInv
  <2>4. CASE e.saving
    <3>1. ServerSame
      BY <1>1, <1>7, <2>4 DEF Overwrite, ServerSame
    <3>2. PageOK(f, q)
      BY <1>3, <2>2, <2>4 DEF PageOK, Editor
    <3> QED  BY <1>2, <2>3, <3>1, <3>2 DEF Moves
  <2>5. CASE ~e.saving
    <3>1. Turns(b, r) /\ e.asks < MaxAsks
      BY <1>1, <1>5, <1>7, <2>5 DEF Overwrite
    <3>2. PageOK(f, r)
      BY <1>3, <2>2, <2>5, <3>1 DEF PageOK, Editor
    <3> QED  BY <2>3, <3>1, <3>2 DEF Moves
  <2> QED  BY <2>4, <2>5
<1> QED  BY <1>6, <1>7 DEF SaveStep

LEMMA AnswerSound ==
    ASSUME EInv, NEW b \in Browser, AnswerStep(b)
    PROVE  \E e, r : Moves(b, e, r)
<1> DEFINE e == editor[b]
<1>1. e = editor[b]
  OBVIOUS
<1> HIDE DEF e
<1>2. PICK q : q = request[b]
  OBVIOUS
<1>3. PageOK(e, q) /\ b \in Client
  BY <1>1, <1>2, EditorAssumption DEF EInv, EditorAssumption
<1>4. Turns(b, Idle)
  BY DEF AnswerStep, SaveAnswered, SaveConflicts, SaveFails, Respond, Turns, Idle
<1>5. CASE SaveAnswered(b)
  <2>1. PICK row : row = q.row
    OBVIOUS
  <2>2. row \in Row /\ Stored(row.text) /\ Stored(q.text) /\ row.version \in Version
    BY <1>2, <1>3, <1>5, <2>1 DEF SaveAnswered, PageOK, Row
  <2>3. PICK new :
          /\ editor' = [editor EXCEPT ![b] = Adopt(e, new)]
          /\ \/ new = [e EXCEPT !.doc = row]
             \/ new = [[[e EXCEPT !.doc = row] EXCEPT !.base = row.version,
                            !.state = IF @ = "saving" THEN "saved" ELSE @]
                       EXCEPT !.saving = FALSE]
    <3> DEFINE cached == [e EXCEPT !.doc = row]
               full == [[cached EXCEPT !.base = row.version,
                            !.state = IF @ = "saving" THEN "saved" ELSE @]
                        EXCEPT !.saving = FALSE]
    <3>1. editor' = [editor EXCEPT ![b] = Saved(e, row)]
      BY <1>1, <1>2, <1>5, <2>1 DEF SaveAnswered
    <3>2. Saved(e, row) = Adopt(e, IF cached.heard THEN full ELSE cached)
      BY DEF Saved, Called, NotSaving
    <3> HIDE DEF cached, full
    <3>3. editor' = [editor EXCEPT ![b] = Adopt(e, full)]
          \/ editor' = [editor EXCEPT ![b] = Adopt(e, cached)]
      BY <3>1, <3>2
    <3> QED  BY <3>3 DEF cached, full
  <2>4. e.state = "saving" => q.text = e.content
    BY <1>2, <1>3, <1>5 DEF SaveAnswered, PageOK
  <2>5. new \in Editor
    BY <1>3, <2>2, <2>3 DEF PageOK, Editor
  <2>6. /\ new.doc = row /\ new.fetched = e.fetched /\ new.conflict = e.conflict
        /\ new.content = e.content /\ new.state \in {e.state, "saved"}
        /\ new.state = "saved" => e.state \in {"saving", "saved"}
    BY <1>3, <2>3 DEF PageOK, Editor
  <2>7. Stored(new.doc.text) /\ (new.state = "saved" => Stored(new.content))
    BY <1>3, <2>2, <2>4, <2>6 DEF PageOK
  <2>8. PageOK(new, Idle)
    BY <1>3, <2>5, <2>6, <2>7 DEF PageOK, Idle
  <2> QED  BY <1>4, <2>3, <2>8, AdoptSound DEF Moves
<1>6. PageOK(e, Idle)
  BY <1>3 DEF PageOK, Idle
<1>7. CASE SaveConflicts(b)
  <2> DEFINE new == [[e EXCEPT !.saving = FALSE] EXCEPT !.asks = e.asks + 1]
  <2>1. editor' = [editor EXCEPT ![b] = IF e.heard THEN new ELSE e]
    BY <1>1, <1>7 DEF SaveConflicts, Called, NotSaving, EInv
  <2>2. e.asks + 1 \in 0..MaxAsks
    BY <1>2, <1>3, <1>7, EditorAssumption DEF SaveConflicts, PageOK, Editor, EditorAssumption
  <2>3. new \in Editor
    BY <1>3, <2>2 DEF PageOK, Editor
  <2>4. /\ new.doc = e.doc /\ new.fetched = e.fetched /\ new.conflict = e.conflict
        /\ new.content = e.content /\ new.state = e.state
    BY <1>3 DEF PageOK, Editor
  <2>5. PageOK(new, Idle)
    BY <1>3, <2>3, <2>4 DEF PageOK, Idle
  <2> QED  BY <1>4, <1>6, <2>1, <2>5 DEF Moves
<1>8. CASE SaveFails(b)
  <2> DEFINE new == [[e EXCEPT !.saving = FALSE] EXCEPT !.state = "error"]
  <2>1. editor' = [editor EXCEPT ![b] = IF e.heard THEN new ELSE e]
    BY <1>1, <1>8 DEF SaveFails, Called, NotSaving, EInv
  <2>2. PageOK(new, Idle)
    BY <1>3 DEF PageOK, Editor, Idle
  <2> QED  BY <1>4, <1>6, <2>1, <2>2 DEF Moves
<1> QED  BY <1>5, <1>7, <1>8 DEF AnswerStep

--------------------------------------------------------------------------------
(* Each kind of step preserves the invariant *)

LEMMA MovePreserves ==
    ASSUME EInv, NEW b \in Browser, NEW e, NEW r, Moves(b, e, r)
    PROVE  EInv'
<1>1. written' = written
  BY DEF Moves, Turns, ServerSame
<1>2. IInv'
  <2>1. CASE Turns(b, r)
    BY <2>1, TurnPreserves, EditorAssumption DEF EInv, EditorAssumption
  <2>2. CASE ServerSame
    BY <2>2 DEF ServerSame, EInv, IInv, TypeOK, Latest, SnapshotsFaithful, ReadsFaithful,
                Serial, NothingRead, HistoryComplete, Reading
  <2> QED  BY <2>1, <2>2 DEF Moves
<1>3. \A c \in Client : request'[c] = IF c = b THEN r ELSE request[c]
  BY DEF Moves, Turns, ServerSame, EInv, IInv, TypeOK
<1>4. editor' \in [Browser -> Editor]
  BY DEF Moves, EInv, PageOK
<1>5. \A c \in Browser : PageOK(editor'[c], request'[c])
  <2> SUFFICES ASSUME NEW c \in Browser PROVE PageOK(editor'[c], request'[c])
    OBVIOUS
  <2>1. c \in Client /\ b \in Client
    BY EditorAssumption DEF EditorAssumption
  <2>2. CASE c = b
    BY <1>3, <2>1, <2>2 DEF Moves, EInv
  <2>3. CASE c # b
    BY <1>3, <2>1, <2>3 DEF Moves, EInv
  <2> QED  BY <2>2, <2>3
<1>6. ASSUME NEW c \in Browser
      PROVE  PageOK(editor[c], request[c])'
  BY <1>1, <1>5, PageSame
<1> QED  BY <1>2, <1>4, <1>6 DEF EInv

\* A write adds a text; the other pages and their requests are left alone.
LEMMA WriteKeepsPages ==
    ASSUME EInv, editor' = editor,
           Len(written') = Len(written) + 1,
           \A v \in 1..Len(written) : written'[v] = written[v],
           NEW c \in Browser, request'[c] = request[c]
    PROVE  PageOK(editor[c], request[c])'
<1>1. PICK e, q : e = editor[c] /\ q = request[c]
  OBVIOUS
<1>2. Len(written) \in Nat
  BY DEF EInv, IInv, TypeOK
<1>3. PageOK(e, q)'
  BY <1>1, <1>2, PageStays DEF EInv
<1> QED  BY <1>1, <1>3

\* The request of a note becomes r, of the same text, and not by a write.
LEMMA ServerTurns ==
    ASSUME EInv, ~IsRequirement, NEW b \in Browser, Read(b) \/ Reply(b)
    PROVE  \E r : Turns(b, r) /\ PageOK(editor[b], r)
<1>1. PICK e, q : e = editor[b] /\ q = request[b]
  OBVIOUS
<1>2. PageOK(e, q) /\ b \in Client /\ TypeOK
  BY <1>1, EditorAssumption DEF EInv, IInv, EditorAssumption
<1>3. q \in Request
  BY <1>1, <1>2, SentTyped DEF Read, Reply
<1>4. document \in Row /\ Stored(document.text)
  BY DocumentStored DEF EInv
<1>5. CASE Read(b)
  <2>1. PICK row : row = document
    OBVIOUS
  <2>2. CASE Stale(q)
    <3> DEFINE r == [q EXCEPT !.pc = "conflict"]
    <3>1. request' = [request EXCEPT ![b] = r]
      BY <1>1, <1>5, <2>2 DEF Read
    <3>2. r \in Request /\ r.pc = "conflict" /\ r.text = q.text
      BY <1>3 DEF Request
    <3>3. Turns(b, r)
      BY <1>5, <3>1, <3>2 DEF Read, Turns
    <3>4. PageOK(e, r)
      BY <1>2, <1>1, <1>5, <3>2 DEF Read, PageOK
    <3> QED  BY <1>1, <3>3, <3>4
  <2>3. CASE ~Stale(q)
    <3> DEFINE r == [q EXCEPT !.pc = "read", !.row = row]
    <3>1. request' = [request EXCEPT ![b] = r]
      BY <1>1, <1>5, <2>1, <2>3 DEF Read
    <3>2. r \in Request /\ r.pc = "read" /\ r.text = q.text /\ r.row = row /\ r.base = q.base
      BY <1>3, <1>4, <2>1 DEF Request
    <3>3. r.base \in Version => r.base = document.version
      BY <2>3, <3>2, VersionsAssumption DEF Stale, Version
    <3>4. Turns(b, r)
      BY <1>5, <2>1, <3>1, <3>2, <3>3 DEF Read, Turns
    <3>5. PageOK(e, r)
      BY <1>2, <1>1, <1>5, <3>2 DEF Read, PageOK
    <3> QED  BY <1>1, <3>4, <3>5
  <2> QED  BY <2>2, <2>3
<1>6. CASE Reply(b)
  <2>1. PICK row : row = document
    OBVIOUS
  <2> DEFINE r == [q EXCEPT !.pc = "replied", !.row = row]
  <2>2. request' = [request EXCEPT ![b] = r]
    BY <1>1, <1>2, <1>6, <2>1 DEF Reply, TypeOK
  <2>3. r \in Request /\ r.pc = "replied" /\ r.text = q.text /\ r.row = row
    BY <1>3, <1>4, <2>1 DEF Request
  <2>4. Turns(b, r)
    BY <1>6, <2>2, <2>3 DEF Reply, Turns
  <2>5. PageOK(e, r)
    BY <1>1, <1>2, <1>4, <1>6, <2>1, <2>3 DEF Reply, PageOK
  <2> QED  BY <1>1, <2>4, <2>5
<1> QED  BY <1>5, <1>6

LEMMA ServerPreserves ==
    ASSUME EInv, ~IsRequirement, NEW b \in Browser, Server(b)
    PROVE  EInv'
<1>1. b \in Client /\ Browser \subseteq Client
  BY EditorAssumption DEF EditorAssumption
<1>2. CASE Read(b) \/ Reply(b)
  <2>1. PICK r : Turns(b, r) /\ PageOK(editor[b], r)
    BY <1>2, ServerTurns
  <2>2. editor' = [editor EXCEPT ![b] = editor[b]]
    BY DEF Server, EInv
  <2>3. Moves(b, editor[b], r)
    BY <2>1, <2>2 DEF Moves
  <2> QED  BY <2>3, MovePreserves
<1>3. CASE Write(b)
  <2>1. IInv'
    BY <1>1, <1>3, WritePreserves DEF EInv
  <2>2. /\ written' \in Seq(Written)
        /\ Len(written') = Len(written) + 1
        /\ written'[Len(written) + 1].text = request[b].text
        /\ \A v \in 1..Len(written) : written'[v] = written[v]
        /\ request'[b].pc = "done"
        /\ \A d \in Client \ {b} : request'[d] = request[d]
    BY <1>1, <1>3, WriteEffect DEF EInv
  <2>3. editor' = editor
    BY DEF Server
  <2>4. ASSUME NEW c \in Browser \ {b}
        PROVE  PageOK(editor[c], request[c])'
    BY <1>1, <2>2, <2>3, WriteKeepsPages
  <2>5. PageOK(editor[b], request[b])'
    <3>1. PICK e, q : e = editor[b] /\ q = request[b]
      OBVIOUS
    <3>2. PICK r : r = request'[b]
      OBVIOUS
    <3>3. Len(written) \in Nat
      BY DEF EInv, IInv, TypeOK
    <3>4. PageOK(e, q)'
      BY <3>1, <3>3, <2>2, PageStays DEF EInv
    <3>5. q \in Request /\ q.pc = "read"
      BY <1>1, <1>3, <3>1, SentTyped DEF Write, EInv, IInv
    <3>6. r = [[q EXCEPT !.pc = "done"] EXCEPT !.row = None]
      BY <1>1, <1>3, <3>1, <3>2 DEF Write, EInv, IInv, TypeOK
    <3>7. r.pc = "done" /\ r.text = q.text
      BY <3>5, <3>6 DEF Request
    <3>8. Stored(q.text)'
      BY <2>2, <3>1, <3>3 DEF Stored
    <3>9. PageOK(e, r)'
      BY <3>4, <3>5, <3>7, <3>8 DEF PageOK
    <3> QED  BY <2>3, <3>1, <3>2, <3>9
  <2> QED  BY <2>1, <2>3, <2>4, <2>5 DEF EInv
<1> QED  BY <1>2, <1>3 DEF Server, ServerStep

LEMMA OtherSavePreserves ==
    ASSUME EInv, ~IsRequirement, NEW c \in Client, NEW text \in Text, OtherSave(c, text)
    PROVE  EInv'
<1>1. /\ IInv'
      /\ Len(written') = Len(written) + 1
      /\ \A v \in 1..Len(written) : written'[v] = written[v]
  BY OtherPreserves DEF OtherSave, EInv
<1>2. editor' = editor /\ request' = request
  BY DEF OtherSave
<1>3. ASSUME NEW b \in Browser
      PROVE  PageOK(editor[b], request[b])'
  BY <1>1, <1>2, WriteKeepsPages
<1> QED  BY <1>1, <1>2, <1>3 DEF EInv

LEMMA EditorStepPreserves ==
    ASSUME EInv, ~IsRequirement, [EditorNext]_vars
    PROVE  EInv'
<1>1. CASE UNCHANGED vars
  <2>1. ServerSame /\ editor' = editor
    BY <1>1 DEF vars, ServerSame
  <2>2. IInv'
    BY <2>1 DEF ServerSame, EInv, IInv, TypeOK, Latest, SnapshotsFaithful, ReadsFaithful,
                Serial, NothingRead, HistoryComplete, Reading
  <2> QED  BY <2>1, <2>2 DEF ServerSame, EInv, PageOK, Stored
<1>2. ASSUME NEW b \in Browser, PageStep(b)
      PROVE  EInv'
  <2>1. PICK e : ServerSame /\ editor' = [editor EXCEPT ![b] = e] /\ PageOK(e, request[b])
    BY <1>2, PageStepSound
  <2>2. Moves(b, e, request[b])
    BY <2>1 DEF Moves
  <2> QED  BY <2>2, MovePreserves
<1>3. ASSUME NEW b \in Browser, SaveStep(b) \/ AnswerStep(b)
      PROVE  EInv'
  BY <1>3, SaveSound, AnswerSound, MovePreserves
<1>4. ASSUME NEW b \in Browser, Server(b)
      PROVE  EInv'
  BY <1>4, ServerPreserves
<1>5. ASSUME NEW c \in Client, NEW text \in Text, OtherSave(c, text)
      PROVE  EInv'
  BY <1>5, OtherSavePreserves
<1>6. ASSUME NEW b \in Browser, TypeChanged(b)
      PROVE  EInv'
  <2>1. b \in Client
    BY EditorAssumption DEF EditorAssumption
  <2>2. document.text \in Text
    BY DocumentStored DEF EInv, Row
  <2>3. OtherSave(b, document.text)
    BY <1>6 DEF TypeChanged, OtherSave
  <2> QED  BY <2>1, <2>2, <2>3, OtherSavePreserves
<1> QED
  BY <1>1, <1>2, <1>3, <1>4, <1>5, <1>6
  DEF EditorNext, PageStep, SaveStep, AnswerStep, Autosave, SaveNow

LEMMA InitEInv ==
    ASSUME EditorInit
    PROVE  EInv
<1>1. IInv
  BY InitIInv DEF EditorInit
<1>2. document \in Row /\ Stored(document.text)
  BY <1>1, DocumentStored
<1>3. PICK row : row = document
  OBVIOUS
<1> DEFINE e == [ doc |-> row, fetched |-> None, content |-> row.text,
                  base |-> row.version, state |-> "saved", saving |-> FALSE,
                  heard |-> TRUE, asks |-> 0, conflict |-> None ]
<1>4. e \in Editor
  BY <1>2, <1>3, EditorAssumption DEF Editor, EditorAssumption, Row
<1>5. editor = [b \in Browser |-> e]
  BY <1>3 DEF EditorInit
<1>6. \A b \in Browser : request[b] = Idle
  BY EditorAssumption DEF EditorInit, Init, EditorAssumption
<1>7. PageOK(e, Idle)
  BY <1>2, <1>3, <1>4, EditorAssumption DEF PageOK, Idle, EditorAssumption
<1> QED  BY <1>1, <1>4, <1>5, <1>6, <1>7 DEF EInv

--------------------------------------------------------------------------------
(* Theorems *)

\* EInv is an invariant of every note and its pages.
THEOREM EditorInvariance ==
    ASSUME ~IsRequirement
    PROVE  EditorSpec => []EInv
<1>1. EInv /\ [EditorNext]_vars => EInv'
  BY EditorStepPreserves
<1> QED  BY <1>1, InitEInv, PTL DEF EditorSpec

\* The state of every page keeps its type: no answer, refetch or conflict shows what is
\* not a row, and the pending GETs stay within their bound.
THEOREM EditorTyped ==
    ASSUME ~IsRequirement
    PROVE  EditorSpec => []EditorTypeOK
<1>1. EInv => EditorTypeOK
  BY DEF EInv, IInv, EditorTypeOK
<1> QED  BY <1>1, EditorInvariance, PTL

\* A page that says "saved" shows a text that some version of the note has had, in
\* whatever order answers, refetches and conflicts come back to it.
THEOREM SavedTextWasStored ==
    ASSUME ~IsRequirement
    PROVE  EditorSpec => []SavedWasStored
<1>1. EInv => SavedWasStored
  BY DEF EInv, PageOK, SavedWasStored
<1> QED  BY <1>1, EditorInvariance, PTL

\* Adopting the server's text replaces a content only if the page called it saved.
LEMMA AdoptReplacesSaved ==
    ASSUME NEW old, NEW new, new \in Editor, Adopt(old, new).content # new.content
    PROVE  new.state = "saved"
BY DEF Adopt

LEMMA OnlyStoredIsReplaced ==
    ASSUME EInv, EditorNext, NEW b \in Browser,
           editor'[b].content # editor[b].content,
           editor'[b].state # "dirty", editor[b].conflict = None
    PROVE  Stored(editor[b].content)
<1>1. PICK e, q : e = editor[b] /\ q = request[b]
  OBVIOUS
<1>2. PageOK(e, q) /\ e \in Editor /\ editor \in [Browser -> Editor]
  BY <1>1 DEF EInv, PageOK
<1>3. CASE Refetched(b)
  <2>1. PICK row : row = e.fetched
    OBVIOUS
  <2> DEFINE new == [e EXCEPT !.doc = row, !.fetched = None]
  <2>2. editor'[b] = Adopt(e, new)
    BY <1>1, <1>2, <1>3, <2>1 DEF Refetched
  <2>3. row \in Row
    BY <1>1, <1>2, <1>3, <2>1 DEF Refetched, Editor
  <2>4. new \in Editor /\ new.content = e.content /\ new.state = e.state
    BY <1>2, <2>3 DEF Editor
  <2> HIDE DEF new
  <2>5. e.state = "saved"
    BY <1>1, <2>2, <2>4, AdoptReplacesSaved
  <2> QED  BY <1>1, <1>2, <2>5 DEF PageOK
<1>4. CASE SaveAnswered(b)
  <2>1. PICK row : row = q.row
    OBVIOUS
  <2>2. PICK new :
          /\ editor'[b] = Adopt(e, new)
          /\ \/ new = [e EXCEPT !.doc = row]
             \/ new = [[[e EXCEPT !.doc = row] EXCEPT !.base = row.version,
                            !.state = IF @ = "saving" THEN "saved" ELSE @]
                       EXCEPT !.saving = FALSE]
    BY <1>1, <1>2, <1>4, <2>1 DEF SaveAnswered, Saved, Called, NotSaving
  <2>3. row \in Row /\ row.version \in Version /\ q.pc = "replied" /\ Stored(q.text)
    BY <1>1, <1>2, <1>4, <2>1 DEF SaveAnswered, PageOK, Row
  <2>4. /\ new \in Editor /\ new.content = e.content
        /\ new.state = "saved" => e.state \in {"saving", "saved"}
    BY <1>2, <2>2, <2>3 DEF Editor
  <2>5. e.state \in {"saving", "saved"}
    BY <1>1, <2>2, <2>4, AdoptReplacesSaved
  <2> QED  BY <1>1, <1>2, <2>3, <2>5 DEF PageOK
<1>5. ASSUME NEW c \in Browser, PageStep(c), ~(c = b /\ Refetched(b))
      PROVE  FALSE
  <2>1. CASE c # b
    BY <1>2, <1>5, <2>1 DEF PageStep, Type, ChangeType, TakeServer, CloseDialog, ConflictAnswered,
       ConflictUnanswered, Refetch, Refetched
  <2>2. CASE c = b /\ \E text \in Text : Type(b, text)
    BY <1>2, <2>2 DEF Type, Editor
  <2>3. ~TakeServer(b)
    BY DEF TakeServer
  <2>4. CASE c = b /\ (ChangeType(b) \/ CloseDialog(b) \/ Refetch(b) \/ ConflictUnanswered(b))
    BY <1>2, <2>4 DEF ChangeType, CloseDialog, Refetch, ConflictUnanswered, Editor
  <2>5. CASE c = b /\ ConflictAnswered(b)
    BY <1>2, <2>5 DEF ConflictAnswered, Editor
  <2> QED  BY <1>5, <2>1, <2>2, <2>3, <2>4, <2>5 DEF PageStep
<1>6. ASSUME NEW c \in Browser, SaveStep(c) \/ AnswerStep(c), ~(c = b /\ SaveAnswered(b))
      PROVE  FALSE
  <2>1. CASE c # b
    BY <1>2, <1>6, <2>1 DEF SaveStep, AnswerStep, SaveContent, Overwrite, SaveAnswered,
       SaveConflicts, SaveFails
  <2>2. CASE c = b /\ SaveContent(b)
    BY <1>2, <2>2 DEF SaveContent, Editor
  <2>3. ~Overwrite(b)
    BY DEF Overwrite
  <2>4. CASE c = b /\ SaveConflicts(b)
    BY <1>2, <2>4 DEF SaveConflicts, Called, NotSaving, Editor
  <2>5. CASE c = b /\ SaveFails(b)
    BY <1>2, <2>5 DEF SaveFails, Called, NotSaving, Editor
  <2> QED  BY <1>6, <2>1, <2>2, <2>3, <2>4, <2>5 DEF SaveStep, AnswerStep
<1>7. ASSUME editor' = editor
      PROVE  FALSE
  BY <1>7
<1> QED
  BY <1>3, <1>4, <1>5, <1>6, <1>7
  DEF EditorNext, PageStep, SaveStep, AnswerStep, Autosave, SaveNow, Server, OtherSave, TypeChanged

\* What was typed is replaced only when it is stored, by typing on, or from the conflict
\* dialog: neither a refetch nor the answer to an earlier save wipes it.
THEOREM TypedIsKept ==
    ASSUME ~IsRequirement
    PROVE  EditorSpec => NothingTypedIsDropped
<1>1. EInv /\ [EditorNext]_vars =>
        [\A b \in Browser :
            /\ editor'[b].content # editor[b].content
            /\ editor'[b].state # "dirty"
            /\ editor[b].conflict = None
            => Stored(editor[b].content)]_vars
  BY OnlyStoredIsReplaced DEF vars
<1> QED  BY <1>1, EditorInvariance, PTL DEF EditorSpec, NothingTypedIsDropped
================================================================================
