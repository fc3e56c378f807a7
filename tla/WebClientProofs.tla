----------------------------- MODULE WebClientProofs -----------------------------
(***************************************************************************)
(* What two parts of the web client store: its controls, for any number of *)
(* records, texts, requests and changes of a colleague, and the bulk       *)
(* changes of the list of requirements, for any number of rows and pages.  *)
(*                                                                         *)
(* A control that is not named in an exception fits one of a few patterns  *)
(* (Fit), and each pattern has an invariant of its own: what is sent is    *)
(* for the record it is sent for (OfRecord), is wanted (Wanted, Follows),  *)
(* and is sent again only when the first request is over (Once).           *)
(*                                                                         *)
(* A bulk change that is running has changed exactly the rows before its   *)
(* next one (Progress); whoever waits for its locks only waits.            *)
(***************************************************************************)
EXTENDS Forms, RequirementsList, FiniteSetTheorems, TLAPS

\* Nothing is sent by leaving a field.
Deliberate(c) == \A way \in c.on : way.by # "leave"

\* The draft follows the cached value, and is sent by leaving it only if it differs.
Follower(c) ==
    /\ c.shows = "follow"
    /\ c.after = "stays"
    /\ c.kept \in {"no", "ifLoaded"}
    /\ ~c.stashed
    /\ \A way \in c.on : way.by = "leave" => "change" \in way.needs

\* The draft goes with the record it is for.
Rooted(c) == c.kept = "no" /\ ~c.stashed

\* What is entered can be sent again only when the first request is over.
Guarded(c) ==
    /\ ~c.stashed
    /\ \A way \in c.on :
        /\ way.by # "pick"
        /\ "text" \in way.needs
    /\ \/ c.after = "closesAtOnce"
       \/ c.after \in {"empties", "closes"} /\ \A way \in c.on : way.waits

Fit(c) ==
    /\ DOMAIN c = {"name", "shows", "on", "after", "kept", "versioned", "asks", "stashed"}
    /\ c.name \in Reverting \/ Deliberate(c) \/ Follower(c)
    /\ c.name \in Carrying \/ Rooted(c)
    /\ c.shows = "blank" => c.name \in Unguarded \/ Guarded(c)

--------------------------------------------------------------------------------
(* Every control fits *)

LEMMA PicksFit ==
    ASSUME NEW name
    PROVE  /\ Fit(Picks(name))
           /\ Fit(PicksOther(name))
           /\ Fit(PicksOnce(name))
           /\ Fit(Asks(name))
           /\ Fit([PicksOther(name) EXCEPT !.asks = TRUE])
           /\ Fit([PicksOnce(name) EXCEPT !.asks = TRUE])
BY DEF Fit, Deliberate, Rooted, Picks, PicksOther, PicksOnce, Asks, Control, Way

LEMMA AddsOnceFit ==
    ASSUME NEW name
    PROVE  /\ Fit(AddsOnce(name))
           /\ Fit([AddsOnce(name) EXCEPT !.after = "closes"])
           /\ Fit([Adds(name) EXCEPT !.after = "closesAtOnce"])
           /\ name \in Carrying => Fit([AddsOnce(name) EXCEPT !.kept = "ifLoaded"])
BY DEF Fit, Deliberate, Rooted, Guarded, Adds, AddsOnce, Control, Way

LEMMA AddsFit ==
    ASSUME NEW name \in Unguarded
    PROVE  Fit(Adds(name))
BY DEF Fit, Deliberate, Rooted, Adds, Control, Way

LEMMA RenamesFit ==
    ASSUME NEW name \in Reverting
    PROVE  /\ Fit(Renames(name))
           /\ Fit(Amends(name))
           /\ name \in Carrying => Fit([Renames(name) EXCEPT !.kept = "ifLoaded"])
BY DEF Fit, Rooted, Renames, Amends, Control, Way

LEMMA PageFit == \A c \in RequirementDetail : Fit(c)
<1>1. Fit(RequirementTitle)
  BY DEF Fit, RequirementTitle, Control, Way, Reverting, Carrying
<1>2. QED
  BY <1>1, PicksFit DEF RequirementDetail, RequirementWatch, RequirementMenu,
     RequirementFiles, MoveToSpace

LEMMA RequirementFit == \A c \in Requirement : Fit(c)
<1>1. \A c \in RequirementFields : Fit(c)
  <2> DEFINE Follows(name) ==
        [Control(name, "follow", {Way("leave", {"change"}, FALSE)}, "stays")
         EXCEPT !.kept = "ifLoaded"]
  <2>1. ASSUME NEW name \in Carrying
        PROVE  Fit(Follows(name))
    BY DEF Fit, Follower, Control, Way
  <2>2. {"RequirementFields.done", "RequirementFields.estimate", "RequirementFields.time"}
            \subseteq Carrying
    BY DEF Carrying
  <2>3. Fit(Follows("RequirementFields.done")) /\ Fit(Follows("RequirementFields.estimate"))
    BY <2>1, <2>2
  <2>4. QED
    BY <2>2, <2>3, PicksFit, AddsOnceFit DEF RequirementFields
<1>2. \A c \in LabelPicker : Fit(c)
  BY PicksFit, AddsOnceFit DEF LabelPicker, Carrying
<1>3. Fit(AddLinkModal)
  BY DEF Fit, Deliberate, Guarded, AddLinkModal, Control, Way, Carrying
<1>4. Fit(RequirementSubreqs)
  BY AddsOnceFit DEF RequirementSubreqs, Carrying
<1>5. Fit(CreateRequirementModal)
  BY AddsOnceFit DEF CreateRequirementModal
<1>6. QED
  BY <1>1, <1>2, <1>3, <1>4, <1>5, PicksFit DEF Requirement, StatusSelect, PrioritySelect,
     ParentPicker, MemberPicker, MemberManager, LinksPanel

LEMMA BoardFit == \A c \in CardQuickEditor \cup CardQuickPanel : Fit(c)
<1>1. \A c \in CardQuickEditor : Fit(c)
  <2> DEFINE title ==
        Control("CardQuickEditor.title", "mount",
              {Way("leave", {"text", "change"}, FALSE), Way("enter", {"text", "change"}, FALSE),
               Way("press", {"text", "change"}, FALSE)}, "closesAtOnce")
  <2>1. Fit(title)
    BY DEF Fit, Rooted, Control, Reverting
  <2>2. QED
    BY <2>1, PicksFit DEF CardQuickEditor
<1>2. \A c \in CardQuickPanel : Fit(c)
  <2> DEFINE title ==
        [ Control("CardQuickPanel.title", "open",
                  {Way("leave", {"text"}, FALSE), Way("enter", {"text"}, FALSE)}, "closes")
          EXCEPT !.kept = "always" ]
      body ==
        [ Control("CardQuickPanel.body", "open", {Way("press", {}, TRUE)}, "closes")
          EXCEPT !.kept = "always", !.versioned = TRUE ]
  <2>1. Fit(title)
    BY DEF Fit, Control, Reverting, Carrying
  <2>2. Fit(body)
    BY DEF Fit, Deliberate, Control, Way, Carrying
  <2>3. QED
    BY <2>1, <2>2, PicksFit DEF CardQuickPanel
<1>3. QED
  BY <1>1, <1>2

LEMMA DocumentsFit == \A c \in Documents : Fit(c)
<1>1. Fit(Control("CommentItem.edit", "open", {Way("press", {"text"}, TRUE)}, "closes"))
  BY DEF Fit, Deliberate, Rooted, Control, Way
<1>2. \A c \in CommentItem : Fit(c)
  BY <1>1, PicksFit DEF CommentItem
<1>3. Fit(CommentComposer)
  BY DEF Fit, Deliberate, CommentComposer, Control, Way, Carrying, Unguarded
<1>4. QED
  BY <1>2, <1>3, PicksFit, AddsOnceFit DEF Documents, VersionHistory, NewDocument,
     NotificationBell, FavButton, DocumentMenu, MoveToFolder, DocumentMarks, DocumentType,
     ArchiveDocument, PromoteDocument

LEMMA AdministrationFit == \A c \in Administration : Fit(c)
<1>1. \A c \in StatusesAdmin \cup TrackersAdmin \cup PrioritiesAdmin : Fit(c)
  BY PicksFit, RenamesFit, AddsFit
     DEF StatusesAdmin, TrackersAdmin, PrioritiesAdmin, Reverting, Unguarded
<1>2. Fit(TransitionsAdmin)
  BY DEF Fit, Deliberate, TransitionsAdmin, Control, Way, Carrying
<1>3. \A c \in AgentsAdmin \cup LabelsAdmin \cup CategoriesAdmin \cup MilestonesAdmin : Fit(c)
  BY PicksFit, RenamesFit, AddsFit
     DEF AgentsAdmin, LabelsAdmin, CategoriesAdmin, MilestonesAdmin, Reverting, Unguarded
<1>4. \A c \in BoardsAdmin : Fit(c)
  <2> DEFINE wip ==
        [ Control("BoardsAdmin.wip", "mount", {Way("leave", {}, FALSE)}, "stays")
          EXCEPT !.kept = "ifLoaded" ]
  <2>1. Fit(wip)
    BY DEF Fit, Control, Reverting, Carrying
  <2>2. "BoardsAdmin.name" \in Reverting \cap Carrying /\ "BoardsAdmin.new" \in Unguarded
    BY DEF Reverting, Carrying, Unguarded
  <2>3. QED
    BY <2>1, <2>2, PicksFit, RenamesFit, AddsFit DEF BoardsAdmin
<1>5. \A c \in UsersAdmin \cup SpaceMembersPanel \cup {SpaceSelector} : Fit(c)
  BY PicksFit, AddsOnceFit DEF UsersAdmin, SpaceMembersPanel, SpaceSelector, Carrying
<1>6. ASSUME NEW name
      PROVE  Fit(Control(name, "follow", {Way("press", {}, TRUE)}, "stays"))
  BY DEF Fit, Deliberate, Rooted, Control, Way
<1>7. \A c \in SpaceSettings \cup Profile : Fit(c)
  BY <1>6, PicksFit, AddsOnceFit DEF SpaceSettings, Profile
<1>8. QED
  BY <1>1, <1>2, <1>3, <1>4, <1>5, <1>7 DEF Administration

\* Every field, choice and form of the client is named in an exception or fits a pattern
\* that keeps what it sends right.
THEOREM EveryControlFits == \A c \in Controls : Fit(c)
BY PageFit, RequirementFit, BoardFit, DocumentsFit, AdministrationFit DEF Controls

LEMMA NamelessFit ==
    ASSUME control \in { Nameless(c) : c \in Controls }
    PROVE  /\ Names \subseteq Reverting \/ Deliberate(control) \/ Follower(control)
           /\ Names \subseteq Carrying \/ Rooted(control)
           /\ control.shows = "blank" => Names \subseteq Unguarded \/ Guarded(control)
<1>1. ASSUME NEW c \in Controls, Nameless(c) = control
      PROVE  /\ c.name \in Reverting \/ Deliberate(control) \/ Follower(control)
             /\ c.name \in Carrying \/ Rooted(control)
             /\ control.shows = "blank" => c.name \in Unguarded \/ Guarded(control)
  <2>1. Fit(c)
    BY EveryControlFits
  <2>2. /\ control.shows = c.shows /\ control.on = c.on /\ control.after = c.after
        /\ control.kept = c.kept /\ control.stashed = c.stashed
    BY <1>1, <2>1 DEF Nameless, Fit
  <2>3. /\ Deliberate(control) <=> Deliberate(c)
        /\ Follower(control) <=> Follower(c)
        /\ Rooted(control) <=> Rooted(c)
    BY <2>2 DEF Deliberate, Follower, Rooted
  <2>4. Guarded(c) => Guarded(control)
    BY <2>2 DEF Guarded
  <2>5. QED
    BY <2>1, <2>2, <2>3, <2>4 DEF Fit
<1>2. \A name \in Names : \E c \in Controls : Nameless(c) = control /\ c.name = name
  BY DEF Names
<1>3. QED
  BY <1>1, <1>2

--------------------------------------------------------------------------------
(* Types *)

MaxVersion == MaxChanges + MaxSends + 1

\* A version is of the first row, of a colleague's change, or of a request that was stored.
Numbered ==
    /\ \A r \in Record : row[r].ver <= 1 + changes + Cardinality(Stored)
    /\ \A i \in DOMAIN sent : sent[i].state \in {"sent", "refused"} => ~sent[i].stored
    /\ \A i \in DOMAIN sent : sent[i].entry <= typed
    /\ draft.entry <= typed
    /\ \A r \in Record : stash[r].entry <= typed
    /\ observer <= Len(sent)
    /\ Len(sent) <= MaxSends

Typed == TypeOK /\ Numbered

LEMMA MountedTyped ==
    ASSUME NEW r \in Record, NEW val \in Texts
    PROVE  Mounted(r, val) \in Draft /\ Mounted(r, val).entry = 0
BY FormsAssumption DEF Mounted, Draft, Texts, FormsAssumption

\* What a step does to the requests made before it.
Lasts(j) ==
    /\ sent'[j].rec = sent[j].rec /\ sent'[j].val = sent[j].val
    /\ sent'[j].of = sent[j].of /\ sent'[j].entry = sent[j].entry
    /\ sent'[j].chosen = sent[j].chosen
    /\ sent[j].stored => sent'[j].stored

LEMMA IntervalCount ==
    ASSUME NEW n \in Nat
    PROVE  IsFiniteSet(1..n) /\ Cardinality(1..n) = n
<1>1. \A a, b \in Int : /\ IsFiniteSet(a..b)
                        /\ Cardinality(a..b) = IF a > b THEN 0 ELSE b - a + 1
  BY FS_Interval
<1>2. 1 \in Int /\ n \in Int /\ (IF 1 > n THEN 0 ELSE n - 1 + 1) = n
  OBVIOUS
<1>3. QED
  BY <1>1, <1>2, Zenon

LEMMA StoredFinite ==
    ASSUME sent \in Seq(Request), Len(sent) <= MaxSends, MaxSends \in Nat
    PROVE  IsFiniteSet(Stored) /\ Cardinality(Stored) \in Nat
                /\ Cardinality(Stored) <= MaxSends
<1> PICK n \in Nat : n = Len(sent)
  OBVIOUS
<1>1. IsFiniteSet(1..n) /\ Cardinality(1..n) = n
  BY IntervalCount
<1>2. Stored \subseteq 1..n
  BY DEF Stored
<1>3. IsFiniteSet(Stored) /\ Cardinality(Stored) <= Cardinality(1..n)
  BY <1>1, <1>2, FS_Subset
<1>4. Cardinality(Stored) \in Nat
  BY <1>3, FS_CardinalityType
<1>5. QED
  BY <1>1, <1>3, <1>4

LEMMA VersionInRange ==
    ASSUME Typed, NEW r \in Record
    PROVE  row[r].ver \in 1..MaxVersion /\ cache[r].ver \in 1..MaxVersion
BY FormsAssumption DEF Typed, TypeOK, Row, MaxVersion

LEMMA MutateTyped ==
    ASSUME Typed,
           NEW r \in Record, NEW val \in Texts, NEW chosen \in BOOLEAN, NEW of \in Record,
           NEW entry \in 0..MaxTyped, entry <= typed, Mutate(r, val, chosen, of, entry)
    PROVE  /\ sent' \in Seq(Request)
           /\ Len(sent') = Len(sent) + 1
           /\ Len(sent') <= MaxSends
           /\ \A j \in DOMAIN sent : sent'[j] = sent[j]
           /\ LET q == sent'[Len(sent')]
              IN  /\ q.rec = r /\ q.val = val /\ q.chosen = chosen /\ q.of = of
                  /\ q.entry = entry /\ ~q.stored /\ q.state = "sent"
           /\ Stored' = Stored
<1> DEFINE q == [ rec |-> r, val |-> val, ver |-> cache[r].ver, chosen |-> chosen, of |-> of,
                  entry |-> entry, stored |-> FALSE, state |-> "sent" ]
<1>1. q \in Request
  BY VersionInRange, FormsAssumption DEF FormsAssumption, Request, MaxVersion
<1>2. sent \in Seq(Request) /\ Len(sent) \in Nat /\ Len(sent) < MaxSends
  BY DEF Typed, TypeOK, Mutate
<1>3. sent' = Append(sent, q)
  BY DEF Mutate
<1>4. q.rec = r /\ q.val = val /\ q.chosen = chosen /\ q.of = of /\ q.entry = entry
        /\ ~q.stored /\ q.state = "sent"
  OBVIOUS
<1> HIDE DEF q
<1>5. /\ sent' \in Seq(Request)
      /\ Len(sent') = Len(sent) + 1
      /\ DOMAIN sent = 1..Len(sent) /\ DOMAIN sent' = 1..(Len(sent) + 1)
      /\ \A j \in DOMAIN sent : sent'[j] = sent[j]
      /\ sent'[Len(sent) + 1] = q
  BY <1>1, <1>2, <1>3
<1>6. Stored' = Stored
  BY <1>2, <1>4, <1>5 DEF Stored
<1>7. QED
  BY <1>2, <1>4, <1>5, <1>6, FormsAssumption DEF FormsAssumption

LEMMA BecomesTyped ==
    ASSUME Typed, NEW i \in DOMAIN sent, NEW state \in {"refused", "answered", "lost"},
           Becomes(i, state)
    PROVE  /\ sent' \in Seq(Request)
           /\ Len(sent') = Len(sent)
           /\ DOMAIN sent' = DOMAIN sent
           /\ \A j \in DOMAIN sent :
                /\ Lasts(j)
                /\ sent'[j].stored = sent[j].stored
                /\ sent'[j].state = IF j = i THEN state ELSE sent[j].state
           /\ Stored' = Stored
<1>1. sent \in Seq(Request) /\ sent[i] \in Request
  BY DEF Typed, TypeOK
<1> DEFINE q == [sent[i] EXCEPT !.state = state]
<1>2. /\ q \in Request /\ q.rec = sent[i].rec /\ q.val = sent[i].val /\ q.of = sent[i].of
      /\ q.entry = sent[i].entry /\ q.chosen = sent[i].chosen /\ q.stored = sent[i].stored
      /\ q.state = state
  BY <1>1 DEF Request
<1>3. sent' = [sent EXCEPT ![i] = q]
  BY DEF Becomes
<1> HIDE DEF q
<1>4. /\ sent' \in Seq(Request) /\ Len(sent') = Len(sent) /\ DOMAIN sent' = DOMAIN sent
      /\ \A j \in DOMAIN sent : sent'[j] = IF j = i THEN q ELSE sent[j]
  BY <1>1, <1>2, <1>3
<1>5. \A j \in DOMAIN sent : /\ Lasts(j)
                             /\ sent'[j].stored = sent[j].stored
                             /\ sent'[j].state = IF j = i THEN state ELSE sent[j].state
  BY <1>2, <1>4 DEF Lasts
<1>6. Stored' = Stored
  BY <1>4, <1>5 DEF Stored
<1>7. QED
  BY <1>4, <1>5, <1>6

LEMMA StoreTyped ==
    ASSUME Typed, NEW i \in DOMAIN sent, Store(i)
    PROVE  /\ sent' \in Seq(Request)
           /\ Len(sent') = Len(sent)
           /\ DOMAIN sent' = DOMAIN sent
           /\ \A j \in DOMAIN sent :
                /\ Lasts(j)
                /\ sent'[j].stored = (j = i \/ sent[j].stored)
                /\ sent'[j].state = IF j = i THEN "stored" ELSE sent[j].state
           /\ Stored' = Stored \cup {i}
           /\ i \notin Stored
<1>1. sent \in Seq(Request) /\ sent[i] \in Request
  BY DEF Typed, TypeOK
<1> DEFINE q == [sent[i] EXCEPT !.state = "stored", !.stored = TRUE]
<1>2. /\ q \in Request /\ q.rec = sent[i].rec /\ q.val = sent[i].val /\ q.of = sent[i].of
      /\ q.entry = sent[i].entry /\ q.chosen = sent[i].chosen /\ q.stored = TRUE
      /\ q.state = "stored"
  BY <1>1 DEF Request
<1>3. sent' = [sent EXCEPT ![i] = q]
  BY <1>1 DEF Store
<1> HIDE DEF q
<1>4. /\ sent' \in Seq(Request) /\ Len(sent') = Len(sent) /\ DOMAIN sent' = DOMAIN sent
      /\ \A j \in DOMAIN sent : sent'[j] = IF j = i THEN q ELSE sent[j]
  BY <1>1, <1>2, <1>3
<1>5. \A j \in DOMAIN sent :
            /\ Lasts(j)
            /\ sent'[j].state = IF j = i THEN "stored" ELSE sent[j].state
  BY <1>2, <1>4 DEF Lasts
<1>6. \A j \in DOMAIN sent : sent[j].stored \in BOOLEAN
  <2>1. \A j \in DOMAIN sent : sent[j] \in Request
    BY <1>1
  <2>2. QED
    BY <2>1 DEF Request
<1>7. \A j \in DOMAIN sent : sent'[j].stored = (j = i \/ sent[j].stored)
  BY <1>2, <1>4, <1>6
<1>8. i \notin Stored
  BY DEF Typed, Numbered, Stored, Store
<1>9. Stored' = Stored \cup {i}
  BY <1>4, <1>7 DEF Stored
<1>10. QED
  BY <1>4, <1>5, <1>7, <1>8, <1>9

LEMMA TypedAtFirst == Init => Typed
<1> SUFFICES ASSUME Init
             PROVE  Typed
  OBVIOUS
<1>1. PICK val \in Text : row = [r \in Record |-> [val |-> val, ver |-> 1]]
  BY DEF Init
<1>2. 1 \in 1..(MaxChanges + MaxSends + 1)
  BY FormsAssumption DEF FormsAssumption
<1>3. row \in [Record -> Row] /\ cache = row
  BY <1>1, <1>2 DEF Row, Init
<1>4. \A r \in Record : cache[r].val \in Texts
  BY <1>1, <1>3 DEF Texts
<1>5. draft \in Draft /\ draft.entry = 0
  BY <1>4, MountedTyped DEF Init
<1>6. stash \in [Record -> Draft] /\ \A r \in Record : stash[r].entry = 0
  BY <1>4, MountedTyped DEF Init
<1>7. TypeOK
  BY <1>3, <1>5, <1>6, FormsAssumption DEF Init, TypeOK, FormsAssumption
<1>8. sent = <<>> /\ Stored = {}
  BY DEF Init, Stored
<1>9. Cardinality(Stored) = 0
  BY <1>8, FS_EmptySet
<1>10. Numbered
  BY <1>1, <1>5, <1>6, <1>8, <1>9, FormsAssumption DEF Init, Numbered, FormsAssumption
<1>11. QED
  BY <1>7, <1>10 DEF Typed

\* Of a step of the user or the browser that leaves the server and the requests alone.
LEMMA LocalTyped ==
    ASSUME Typed, UNCHANGED <<control, row, sent, changes>>,
           cache' \in [Record -> Row], shown' \in Record, open' \in BOOLEAN,
           draft' \in Draft, draft'.entry <= typed',
           stash' \in [Record -> Draft], \A r \in Record : stash'[r].entry <= typed',
           asked' \in {<<>>} \cup Record \X Text,
           observer' \in {0, observer},
           typed' \in 0..MaxTyped, typed <= typed',
           turns' \in 0..MaxTurns
    PROVE  Typed'
<1>1. Stored' = Stored
  BY DEF Stored
<1>2. sent \in Seq(Request) /\ Len(sent) \in Nat /\ observer \in 0..MaxSends
  BY DEF Typed, TypeOK
<1>3. TypeOK'
  BY <1>2, FormsAssumption DEF FormsAssumption, Typed, TypeOK
<1>4. \A i \in DOMAIN sent : sent[i].entry <= typed'
  <2>1. ASSUME NEW i \in DOMAIN sent
        PROVE  sent[i].entry \in Nat /\ sent[i].entry <= typed
    <3>1. sent[i] \in Request
      BY <1>2
    <3>2. QED
      BY <3>1 DEF Request, Typed, Numbered
  <2>2. QED
    BY <2>1 DEF Typed, TypeOK
<1>5. Numbered'
  BY <1>1, <1>2, <1>4 DEF Typed, Numbered
<1>6. QED
  BY <1>3, <1>5 DEF Typed

\* Of a step that sends one more request.
LEMMA MutatingTyped ==
    ASSUME Typed,
           NEW r \in Record, NEW val \in Texts, NEW chosen \in BOOLEAN, NEW of \in Record,
           NEW entry \in 0..MaxTyped, entry <= typed, Mutate(r, val, chosen, of, entry),
           observer' \in {0, Len(sent')}, open' \in BOOLEAN,
           asked' \in {<<>>} \cup Record \X Text,
           UNCHANGED <<control, row, cache, shown, draft, stash, typed, turns, changes>>
    PROVE  Typed'
<1>1. /\ sent' \in Seq(Request)
      /\ Len(sent') = Len(sent) + 1
      /\ Len(sent') <= MaxSends
      /\ \A j \in DOMAIN sent : sent'[j] = sent[j]
      /\ sent'[Len(sent')].entry = entry /\ ~sent'[Len(sent')].stored
      /\ Stored' = Stored
  BY MutateTyped
<1>2. sent \in Seq(Request) /\ Len(sent) \in Nat
  BY DEF Typed, TypeOK
<1>3. TypeOK'
  BY <1>1, <1>2, FormsAssumption DEF FormsAssumption, Typed, TypeOK
<1>4. \A j \in DOMAIN sent' : j \in DOMAIN sent \/ j = Len(sent')
  BY <1>1, <1>2
<1>5. Numbered'
  BY <1>1, <1>2, <1>4 DEF Typed, Numbered
<1>6. QED
  BY <1>3, <1>5 DEF Typed

\* Of a step of a request that is not the one to store it.
LEMMA BecomingTyped ==
    ASSUME Typed, NEW i \in DOMAIN sent, NEW state \in {"refused", "answered", "lost"},
           Becomes(i, state), state = "refused" => sent[i].state = "sent",
           open' \in BOOLEAN, draft' \in Draft, draft'.entry <= typed,
           stash' \in [Record -> Draft], \A r \in Record : stash'[r].entry <= typed,
           UNCHANGED <<control, row, cache, shown, asked, observer, typed, turns, changes>>
    PROVE  Typed'
<1>1. /\ sent' \in Seq(Request)
      /\ Len(sent') = Len(sent)
      /\ DOMAIN sent' = DOMAIN sent
      /\ \A j \in DOMAIN sent :
           /\ Lasts(j)
           /\ sent'[j].stored = sent[j].stored
           /\ sent'[j].state = IF j = i THEN state ELSE sent[j].state
      /\ Stored' = Stored
  BY BecomesTyped
<1>2. TypeOK'
  BY <1>1 DEF Typed, TypeOK
<1>3. \A j \in DOMAIN sent : sent'[j].entry = sent[j].entry
  BY <1>1 DEF Lasts
<1>4. Numbered'
  BY <1>1, <1>3 DEF Typed, Numbered
<1>5. QED
  BY <1>2, <1>4 DEF Typed

LEMMA StoreKeepsTypes ==
    ASSUME Typed, NEW i \in DOMAIN sent, Store(i)
    PROVE  Typed'
<1>1. /\ sent' \in Seq(Request)
      /\ Len(sent') = Len(sent)
      /\ DOMAIN sent' = DOMAIN sent
      /\ \A j \in DOMAIN sent :
           /\ Lasts(j)
           /\ sent'[j].state = IF j = i THEN "stored" ELSE sent[j].state
           /\ sent'[j].stored = (j = i \/ sent[j].stored)
      /\ Stored' = Stored \cup {i}
      /\ i \notin Stored
  BY StoreTyped
<1>2. /\ UNCHANGED <<control, cache, shown, open, draft, stash, asked, observer, typed, turns,
                     changes>>
      /\ sent[i] \in Request
      /\ sent[i].rec \in Record /\ sent[i].val \in Texts
  <2>1. sent[i] \in Request
    BY DEF Typed, TypeOK
  <2>2. QED
    BY <2>1 DEF Store, Request
<1>3. /\ IsFiniteSet(Stored) /\ Cardinality(Stored) \in Nat
      /\ Cardinality(Stored') = Cardinality(Stored) + 1
      /\ Cardinality(Stored') <= MaxSends
  <2>1. sent \in Seq(Request) /\ Len(sent) <= MaxSends /\ MaxSends \in Nat
    BY FormsAssumption DEF FormsAssumption, Typed, TypeOK, Numbered
  <2>2. IsFiniteSet(Stored) /\ Cardinality(Stored) \in Nat
    BY <2>1, StoredFinite
  <2>3. Cardinality(Stored \cup {i}) = Cardinality(Stored) + 1
    BY <1>1, <2>2, FS_AddElement
  <2>4. Stored \cup {i} \subseteq 1..Len(sent)
    BY <2>1 DEF Stored
  <2>5. Cardinality(Stored \cup {i}) <= MaxSends
    <3> PICK n \in Nat : n = Len(sent)
      BY <2>1
    <3>1. IsFiniteSet(1..n) /\ Cardinality(1..n) = n
      BY IntervalCount
    <3>2. Cardinality(Stored \cup {i}) <= Cardinality(1..n)
      BY <2>4, <3>1, FS_Subset
    <3>3. QED
      BY <2>1, <2>2, <2>3, <3>1, <3>2
  <2>6. QED
    BY <1>1, <2>2, <2>3, <2>5
<1>4. ASSUME NEW r \in Record
      PROVE  row'[r] \in Row /\ row'[r].ver <= 1 + changes' + Cardinality(Stored')
  <2>1. /\ row[r] \in Row /\ row[r].ver \in Nat /\ changes \in 0..MaxChanges
        /\ row[r].ver <= 1 + changes + Cardinality(Stored)
    BY FormsAssumption DEF FormsAssumption, Typed, TypeOK, Numbered, Row
  <2>2. CASE row'[r] = row[r]
    BY <1>2, <1>3, <2>1, <2>2
  <2>3. CASE r = sent[i].rec /\ sent[i].val # Blank
                /\ row'[r] = [val |-> sent[i].val, ver |-> row[r].ver + 1]
    <3>1. row'[r].ver = row[r].ver + 1 /\ sent[i].val \in Text
      BY <1>2, <2>3 DEF Texts
    <3>2. row'[r].ver <= 1 + changes' + Cardinality(Stored')
      BY <1>2, <1>3, <2>1, <3>1
    <3>3. row[r].ver + 1 \in 1..(MaxChanges + MaxSends + 1)
      BY <1>2, <1>3, <2>1, <3>1, <3>2, FormsAssumption DEF FormsAssumption
    <3>4. QED
      BY <2>3, <3>1, <3>2, <3>3 DEF Row
  <2>4. QED
    BY <1>2, <2>2, <2>3 DEF Store, Typed, TypeOK
<1>5. row' \in [Record -> Row]
  <2>1. row' = [r \in Record |-> row'[r]]
    BY <1>2 DEF Store, Typed, TypeOK
  <2>2. QED
    BY <1>4, <2>1
<1>6. TypeOK'
  BY <1>1, <1>2, <1>5 DEF Typed, TypeOK
<1>7. \A j \in DOMAIN sent : sent'[j].entry = sent[j].entry
  BY <1>1 DEF Lasts
<1>8. ASSUME NEW j \in DOMAIN sent', sent'[j].state \in {"sent", "refused"}
      PROVE  ~sent'[j].stored
  <2>1. j # i /\ sent'[j].state = sent[j].state
    BY <1>1, <1>8
  <2>2. QED
    BY <1>1, <1>8, <2>1 DEF Typed, Numbered
<1>9. Numbered'
  BY <1>1, <1>2, <1>4, <1>7, <1>8 DEF Typed, Numbered
<1>10. QED
  BY <1>6, <1>9 DEF Typed

LEMMA ColleagueTyped ==
    ASSUME Typed, NEW r \in Record, NEW val \in Text, Colleague(r, val)
    PROVE  Typed'
<1>1. /\ changes < MaxChanges /\ changes' = changes + 1 /\ changes \in Nat
      /\ row' = [row EXCEPT ![r] = [val |-> val, ver |-> row[r].ver + 1]]
      /\ UNCHANGED <<control, cache, shown, open, draft, stash, asked, sent, observer, typed,
                     turns>>
      /\ Stored' = Stored
  BY FormsAssumption DEF FormsAssumption, Colleague, Typed, TypeOK, Stored
<1>2. Cardinality(Stored) \in Nat /\ Cardinality(Stored) <= MaxSends
  BY StoredFinite, FormsAssumption DEF FormsAssumption, Typed, TypeOK, Numbered
<1>3. ASSUME NEW s \in Record
      PROVE  row'[s] \in Row /\ row'[s].ver <= 1 + changes' + Cardinality(Stored')
  <2>1. /\ row[s] \in Row /\ row[s].ver \in Nat /\ row \in [Record -> Row]
        /\ row[s].ver <= 1 + changes + Cardinality(Stored)
    BY FormsAssumption DEF FormsAssumption, Typed, TypeOK, Numbered, Row
  <2>2. CASE s # r
    BY <1>1, <1>2, <2>1, <2>2
  <2>3. CASE s = r
    <3>1. row'[s] = [val |-> val, ver |-> row[s].ver + 1]
      BY <1>1, <2>1, <2>3
    <3>2. row[s].ver + 1 \in 1..(MaxChanges + MaxSends + 1)
      BY <1>1, <1>2, <2>1, FormsAssumption DEF FormsAssumption
    <3>3. QED
      BY <1>1, <1>2, <2>1, <3>1, <3>2 DEF Row
  <2>4. QED
    BY <2>2, <2>3
<1>4. row' \in [Record -> Row]
  <2>1. row' = [s \in Record |-> row'[s]]
    BY <1>1 DEF Typed, TypeOK
  <2>2. QED
    BY <1>3, <2>1
<1>5. TypeOK'
  BY <1>1, <1>4, FormsAssumption DEF FormsAssumption, Typed, TypeOK
<1>6. Numbered'
  BY <1>1, <1>3 DEF Typed, Numbered
<1>7. QED
  BY <1>5, <1>6 DEF Typed

LEMMA TypedStays == Typed /\ [Next]_vars => Typed'
<1> SUFFICES ASSUME Typed, [Next]_vars
             PROVE  Typed'
  OBVIOUS
<1>1. /\ row \in [Record -> Row] /\ cache \in [Record -> Row] /\ shown \in Record
      /\ open \in BOOLEAN /\ draft \in Draft /\ stash \in [Record -> Draft]
      /\ asked \in {<<>>} \cup Record \X Text
      /\ sent \in Seq(Request) /\ observer \in 0..MaxSends
      /\ typed \in 0..MaxTyped /\ turns \in 0..MaxTurns
      /\ draft.entry <= typed /\ \A r \in Record : stash[r].entry <= typed
  BY DEF Typed, TypeOK, Numbered
<1>2. /\ draft.text \in Texts /\ draft.of \in Record /\ draft.entry \in 0..MaxTyped
      /\ draft.written \in BOOLEAN
  BY <1>1 DEF Draft
<1>3. \A r \in Record : cache[r].val \in Texts /\ row[r].val \in Texts
  BY <1>1 DEF Row, Texts
<1>4. Blank \in Texts /\ Text \subseteq Texts
  BY DEF Texts
<1>5. \A r \in Record : stash[r] \in Draft
  BY <1>1
<1> DEFINE new(r) == Mounted(r, cache[r].val)
<1>6. \A r \in Record : new(r) \in Draft /\ new(r).entry = 0
  BY <1>3, MountedTyped
<1>7. typed \in Nat /\ turns \in Nat /\ MaxTyped \in Nat /\ MaxTurns \in Nat
  BY <1>1, FormsAssumption DEF FormsAssumption
<1>8. CASE UNCHANGED vars
  <2>1. UNCHANGED <<control, row, sent, changes>>
    BY <1>8 DEF vars
  <2>2. /\ cache' = cache /\ shown' = shown /\ open' = open /\ draft' = draft /\ stash' = stash
        /\ asked' = asked /\ observer' = observer /\ typed' = typed /\ turns' = turns
    BY <1>8 DEF vars
  <2>3. QED
    BY <1>1, <1>7, <2>1, <2>2, LocalTyped
<1>9. CASE Edit
  <2> DEFINE text == IF control.shows = "blank" THEN Blank ELSE cache[shown].val
             d == [new(shown) EXCEPT !.text = text]
  <2>1. d \in Draft /\ d.entry = 0
    BY <1>1, <1>3, <1>4, <1>6 DEF Draft
  <2>2. draft' = d /\ open' = TRUE
        /\ UNCHANGED <<control, row, cache, shown, stash, asked, sent, observer, typed, turns,
                       changes>>
    BY <1>9 DEF Edit
  <2> HIDE DEF d
  <2>3. QED
    BY <1>1, <1>7, <2>1, <2>2, LocalTyped
<1>10. ASSUME NEW val \in Texts, Type(val)
       PROVE  Typed'
  <2>1. /\ typed < MaxTyped /\ typed' = typed + 1
        /\ UNCHANGED <<control, row, cache, shown, open, stash, asked, sent, observer, turns,
                       changes>>
    BY <1>10 DEF Type
  <2>2. typed' \in 0..MaxTyped /\ typed <= typed'
    BY <1>7, <2>1
  <2>3. draft' \in Draft /\ draft'.entry = typed'
    BY <1>1, <1>2, <1>10, <2>1, <2>2 DEF Type, Draft
  <2>4. \A r \in Record : stash[r].entry <= typed'
    <3>1. \A r \in Record : stash[r].entry \in Nat
      BY <1>5 DEF Draft
    <3>2. QED
      BY <1>1, <1>7, <2>1, <3>1
  <2>5. draft'.entry <= typed'
    BY <2>2, <2>3
  <2>6. QED
    BY <1>1, <2>1, <2>2, <2>3, <2>4, <2>5, LocalTyped
<1>11. CASE Cancel
  <2>1. /\ open' \in BOOLEAN
        /\ UNCHANGED <<control, row, cache, shown, draft, stash, asked, sent, observer, typed,
                       turns, changes>>
    BY <1>11 DEF Cancel
  <2>2. QED
    BY <1>1, <1>7, <2>1, LocalTyped
<1>12. ASSUME NEW way \in control.on, Send(way)
       PROVE  Typed'
  <2> DEFINE chosen == draft.written \/ way.by # "leave"
  <2>1. /\ Mutate(shown, draft.text, chosen, draft.of, draft.entry)
        /\ open' \in BOOLEAN /\ observer' \in {0, Len(sent')}
        /\ UNCHANGED <<control, row, cache, shown, draft, stash, asked, typed, turns, changes>>
    BY <1>1, <1>12 DEF Send
  <2>2. chosen \in BOOLEAN
    OBVIOUS
  <2> HIDE DEF chosen
  <2>3. QED
    BY <1>1, <1>2, <2>1, <2>2, MutatingTyped
<1>13. ASSUME NEW way \in control.on, NEW val \in Text, Choose(way, val)
       PROVE  Typed'
  <2>1. UNCHANGED <<control, row, cache, shown, open, draft, stash, typed, turns, changes>>
    BY <1>13 DEF Choose
  <2>2. CASE control.asks
    <3>1. asked' = <<shown, val>> /\ UNCHANGED <<sent, observer>>
      BY <1>13, <2>2 DEF Choose
    <3>2. QED
      BY <1>1, <1>7, <2>1, <3>1, LocalTyped
  <2>3. CASE ~control.asks
    <3>1. Mutate(shown, val, TRUE, shown, 0) /\ observer' = Len(sent') /\ asked' = asked
      BY <1>13, <2>3 DEF Choose
    <3>2. 0 \in 0..MaxTyped /\ 0 <= typed /\ TRUE \in BOOLEAN
      BY <1>7
    <3>3. QED
      BY <1>1, <1>4, <2>1, <3>1, <3>2, MutatingTyped
  <2>4. QED
    BY <2>2, <2>3
<1>14. ASSUME NEW yes \in BOOLEAN, Confirm(yes)
       PROVE  Typed'
  <2>1. /\ asked # <<>> /\ asked' = <<>>
        /\ UNCHANGED <<control, row, cache, shown, open, draft, stash, typed, turns, changes>>
    BY <1>14 DEF Confirm
  <2>2. CASE yes
    <3>1. PICK r \in Record, val \in Text : asked = <<r, val>>
      BY <1>1, <2>1
    <3>2. Mutate(r, val, TRUE, r, 0) /\ observer' = Len(sent')
      BY <1>14, <2>2, <3>1 DEF Confirm
    <3>3. 0 \in 0..MaxTyped /\ 0 <= typed /\ TRUE \in BOOLEAN
      BY <1>7
    <3>4. QED
      BY <1>1, <1>4, <2>1, <3>2, <3>3, MutatingTyped
  <2>3. CASE ~yes
    <3>1. UNCHANGED <<sent, observer>>
      BY <1>14, <2>3 DEF Confirm
    <3>2. QED
      BY <1>1, <1>7, <2>1, <3>1, LocalTyped
  <2>4. QED
    BY <2>2, <2>3
<1>15. ASSUME NEW i \in DOMAIN sent, Store(i)
       PROVE  Typed'
  BY <1>15, StoreKeepsTypes
<1>16. ASSUME NEW i \in DOMAIN sent, Refuse(i)
       PROVE  Typed'
  <2>1. /\ sent[i].state = "sent" /\ Becomes(i, "refused")
        /\ UNCHANGED <<control, row, cache, shown, open, draft, stash, asked, observer, typed,
                       turns, changes>>
    BY <1>16 DEF Refuse
  <2>2. QED
    BY <1>1, <2>1, BecomingTyped
<1>17. ASSUME NEW i \in DOMAIN sent, Lose(i)
       PROVE  Typed'
  <2>1. /\ Becomes(i, "lost")
        /\ UNCHANGED <<control, row, cache, shown, open, draft, stash, asked, observer, typed,
                       turns, changes>>
    BY <1>17 DEF Lose
  <2>2. QED
    BY <1>1, <2>1, BecomingTyped
<1>18. ASSUME NEW i \in DOMAIN sent, Answer(i)
       PROVE  Typed'
  <2> PICK s : s = sent[i].rec
    OBVIOUS
  <2> DEFINE blank == Mounted(shown, Blank)
             clean == Mounted(s, Blank)
  <2>1. /\ Becomes(i, "answered") /\ open' \in BOOLEAN
        /\ UNCHANGED <<control, row, cache, shown, asked, observer, typed, turns, changes>>
        /\ \/ draft' = blank /\ stash' = [stash EXCEPT ![s] = clean]
           \/ UNCHANGED <<draft, stash>>
    BY <1>1, <1>18 DEF Answer
  <2>2. sent[i] \in Request
    BY <1>1
  <2>3. s \in Record
    BY <2>2 DEF Request
  <2>4. blank \in Draft /\ clean \in Draft /\ blank.entry = 0 /\ clean.entry = 0
    BY <1>1, <1>4, <2>3, MountedTyped
  <2> HIDE DEF blank, clean
  <2>5. /\ draft' \in Draft /\ draft'.entry <= typed
        /\ stash' \in [Record -> Draft] /\ \A r \in Record : stash'[r].entry <= typed
    BY <1>1, <1>7, <2>1, <2>4
  <2>6. QED
    BY <2>1, <2>5, BecomingTyped
<1>19. ASSUME NEW r \in Record, Refetch(r)
       PROVE  Typed'
  <2>1. /\ cache' = [cache EXCEPT ![r] = row[r]]
        /\ \/ draft' = Mounted(r, row[r].val)
           \/ draft' = [draft EXCEPT !.written = draft.written /\ ~Shared(r)]
        /\ UNCHANGED <<control, row, shown, open, stash, asked, sent, observer, typed, turns,
                       changes>>
    BY <1>19 DEF Refetch
  <2>2. cache' \in [Record -> Row]
    BY <1>1, <2>1
  <2>3. Mounted(r, row[r].val) \in Draft /\ Mounted(r, row[r].val).entry = 0
    BY <1>3, MountedTyped
  <2>4. (draft.written /\ ~Shared(r)) \in BOOLEAN
    OBVIOUS
  <2>5. draft' \in Draft /\ draft'.entry \in {0, draft.entry}
    BY <1>1, <2>1, <2>3, <2>4 DEF Draft
  <2>6. draft'.entry <= typed
    BY <1>1, <1>7, <2>5
  <2>7. QED
    BY <1>1, <1>7, <2>1, <2>2, <2>5, <2>6, LocalTyped
<1>20. ASSUME NEW r \in Record, NEW val \in Text, Colleague(r, val)
       PROVE  Typed'
  BY <1>20, ColleagueTyped
<1>21. ASSUME NEW r \in Record, NEW keep \in BOOLEAN, Turn(r, keep)
       PROVE  Typed'
  <2>1. /\ turns < MaxTurns /\ turns' = turns + 1 /\ shown' = r
        /\ UNCHANGED <<control, row, cache, asked, sent, typed, changes>>
        /\ open' \in BOOLEAN /\ observer' \in {0, observer}
        /\ draft' \in {draft, stash[r], new(r)}
        /\ stash' \in {stash, [stash EXCEPT ![shown] = draft],
                       [stash EXCEPT ![shown] = draft, ![r] = draft]}
    BY <1>1, <1>21 DEF Turn, Staying
  <2>2. turns' \in 0..MaxTurns
    BY <1>7, <2>1
  <2>3. draft' \in Draft /\ draft'.entry <= typed
    BY <1>1, <1>5, <1>6, <1>7, <2>1
  <2>4. stash' \in [Record -> Draft] /\ \A s \in Record : stash'[s].entry <= typed
    BY <1>1, <2>1
  <2>5. QED
    BY <1>1, <1>7, <2>1, <2>2, <2>3, <2>4, LocalTyped
<1>22. QED
  BY <1>8, <1>9, <1>10, <1>11, <1>12, <1>13, <1>14, <1>15, <1>16, <1>17, <1>18, <1>19, <1>20,
     <1>21 DEF Next

--------------------------------------------------------------------------------
(* What a step does to the requests *)

\* A choice, or the answer to a question, is sent for the record it was made for.
Decided(j) ==
    /\ sent'[j].chosen
    /\ sent'[j].of = sent'[j].rec
    /\ sent'[j].entry = 0

\* What is sent of the draft.
Drafted(j, way) ==
    /\ Send(way)
    /\ sent'[j].rec = shown /\ sent'[j].of = draft.of
    /\ sent'[j].val = draft.text /\ sent'[j].entry = draft.entry
    /\ draft.written \/ way.by # "leave" => sent'[j].chosen

LEMMA Newcomers ==
    ASSUME Typed, [Next]_vars
    PROVE  /\ control' = control
           /\ \A j \in DOMAIN sent : j \in DOMAIN sent' /\ Lasts(j)
           /\ \A j \in DOMAIN sent' : j \notin DOMAIN sent =>
                /\ j = Len(sent) + 1
                /\ ~sent'[j].stored
                /\ Decided(j) \/ \E way \in control.on : Drafted(j, way)
<1> DEFINE Goal ==
           /\ control' = control
           /\ \A j \in DOMAIN sent : j \in DOMAIN sent' /\ Lasts(j)
           /\ \A j \in DOMAIN sent' : j \notin DOMAIN sent =>
                /\ j = Len(sent) + 1
                /\ ~sent'[j].stored
                /\ Decided(j) \/ \E way \in control.on : Drafted(j, way)
<1>1. /\ sent \in Seq(Request) /\ Len(sent) \in Nat /\ draft \in Draft /\ shown \in Record
      /\ asked \in {<<>>} \cup Record \X Text
      /\ typed \in Nat /\ draft.entry <= typed
  BY FormsAssumption DEF FormsAssumption, Typed, TypeOK, Numbered
<1>2. /\ draft.text \in Texts /\ draft.of \in Record /\ draft.entry \in 0..MaxTyped
      /\ draft.written \in BOOLEAN /\ 0 \in 0..MaxTyped /\ 0 <= typed /\ Text \subseteq Texts
  BY <1>1, FormsAssumption DEF FormsAssumption, Draft, Texts
<1>3. ASSUME sent' = sent, control' = control
      PROVE  Goal
  BY <1>3 DEF Lasts
<1>4. ASSUME NEW r \in Record, NEW val \in Texts, NEW chosen \in BOOLEAN, NEW of \in Record,
             NEW entry \in 0..MaxTyped, entry <= typed, Mutate(r, val, chosen, of, entry)
      PROVE  /\ \A j \in DOMAIN sent : j \in DOMAIN sent' /\ Lasts(j)
             /\ \A j \in DOMAIN sent' : j \notin DOMAIN sent =>
                    /\ j = Len(sent) + 1 /\ ~sent'[j].stored
                    /\ sent'[j].rec = r /\ sent'[j].val = val /\ sent'[j].of = of
                    /\ sent'[j].entry = entry /\ sent'[j].chosen = chosen
  <2>1. /\ sent' \in Seq(Request)
        /\ Len(sent') = Len(sent) + 1
        /\ \A j \in DOMAIN sent : sent'[j] = sent[j]
        /\ LET q == sent'[Len(sent')]
           IN  /\ q.rec = r /\ q.val = val /\ q.chosen = chosen /\ q.of = of
               /\ q.entry = entry /\ ~q.stored /\ q.state = "sent"
    BY <1>4, MutateTyped
  <2>2. DOMAIN sent = 1..Len(sent) /\ DOMAIN sent' = 1..(Len(sent) + 1)
    BY <1>1, <2>1
  <2>3. QED
    BY <1>1, <2>1, <2>2 DEF Lasts
<1>5. ASSUME NEW way \in control.on, Send(way)
      PROVE  Goal
  <2> DEFINE chosen == draft.written \/ way.by # "leave"
  <2>1. Mutate(shown, draft.text, chosen, draft.of, draft.entry) /\ control' = control
    BY <1>5 DEF Send
  <2>2. chosen \in BOOLEAN /\ (chosen <=> draft.written \/ way.by # "leave")
    OBVIOUS
  <2> HIDE DEF chosen
  <2>3. /\ \A j \in DOMAIN sent : j \in DOMAIN sent' /\ Lasts(j)
        /\ \A j \in DOMAIN sent' : j \notin DOMAIN sent =>
                    /\ j = Len(sent) + 1 /\ ~sent'[j].stored
                    /\ sent'[j].rec = shown /\ sent'[j].val = draft.text
                    /\ sent'[j].of = draft.of
                    /\ sent'[j].entry = draft.entry /\ sent'[j].chosen = chosen
    BY <1>1, <1>2, <1>4, <2>1, <2>2
  <2>4. QED
    BY <1>5, <2>1, <2>2, <2>3 DEF Drafted
<1>6. ASSUME NEW way \in control.on, NEW val \in Text, Choose(way, val)
      PROVE  Goal
  <2>1. CASE control.asks
    BY <1>3, <1>6, <2>1 DEF Choose
  <2>2. CASE ~control.asks
    <3>1. Mutate(shown, val, TRUE, shown, 0) /\ control' = control
      BY <1>6, <2>2 DEF Choose
    <3>2. /\ \A j \in DOMAIN sent : j \in DOMAIN sent' /\ Lasts(j)
          /\ \A j \in DOMAIN sent' : j \notin DOMAIN sent =>
                    /\ j = Len(sent) + 1 /\ ~sent'[j].stored
                    /\ sent'[j].rec = shown /\ sent'[j].val = val /\ sent'[j].of = shown
                    /\ sent'[j].entry = 0 /\ sent'[j].chosen = TRUE
      BY <1>1, <1>2, <1>4, <3>1
    <3>3. QED
      BY <3>1, <3>2 DEF Decided
  <2>3. QED
    BY <2>1, <2>2
<1>7. ASSUME NEW yes \in BOOLEAN, Confirm(yes)
      PROVE  Goal
  <2>1. CASE ~yes
    BY <1>3, <1>7, <2>1 DEF Confirm
  <2>2. CASE yes
    <3>1. PICK r \in Record, val \in Text : asked = <<r, val>>
      BY <1>1, <1>7 DEF Confirm
    <3>2. Mutate(r, val, TRUE, r, 0) /\ control' = control
      BY <1>7, <2>2, <3>1 DEF Confirm
    <3>3. /\ \A j \in DOMAIN sent : j \in DOMAIN sent' /\ Lasts(j)
          /\ \A j \in DOMAIN sent' : j \notin DOMAIN sent =>
                    /\ j = Len(sent) + 1 /\ ~sent'[j].stored
                    /\ sent'[j].rec = r /\ sent'[j].val = val /\ sent'[j].of = r
                    /\ sent'[j].entry = 0 /\ sent'[j].chosen = TRUE
      BY <1>1, <1>2, <1>4, <3>2
    <3>4. QED
      BY <3>2, <3>3 DEF Decided
  <2>3. QED
    BY <2>1, <2>2
<1>8. ASSUME NEW i \in DOMAIN sent, Store(i) \/ Refuse(i) \/ Answer(i) \/ Lose(i)
      PROVE  Goal
  <2>1. control' = control
    BY <1>8 DEF Store, Refuse, Answer, Lose
  <2>2. DOMAIN sent' = DOMAIN sent /\ \A j \in DOMAIN sent : Lasts(j)
    <3>1. CASE Store(i)
      BY <3>1, StoreTyped
    <3>2. ASSUME NEW state \in {"refused", "answered", "lost"}, Becomes(i, state)
          PROVE  DOMAIN sent' = DOMAIN sent /\ \A j \in DOMAIN sent : Lasts(j)
      BY <3>2, BecomesTyped
    <3>3. QED
      BY <1>8, <3>1, <3>2 DEF Refuse, Answer, Lose
  <2>3. QED
    BY <2>1, <2>2
<1>9. CASE \/ Edit \/ Cancel \/ UNCHANGED vars
           \/ \E val \in Texts : Type(val)
           \/ \E r \in Record : Refetch(r)
           \/ \E r \in Record, val \in Text : Colleague(r, val)
           \/ \E r \in Record, keep \in BOOLEAN : Turn(r, keep)
  <2>1. sent' = sent /\ control' = control
    BY <1>9 DEF Edit, Cancel, vars, Type, Refetch, Colleague, Turn
  <2>2. QED
    BY <1>3, <2>1
<1>10. QED
  BY <1>5, <1>6, <1>7, <1>8, <1>9 DEF Next

\* Where a step leaves the draft and the record that is shown.
LEMMA DraftStep ==
    ASSUME [Next]_vars
    PROVE  \/ UNCHANGED <<draft, shown, cache>>
           \/ Edit
           \/ \E val \in Texts : Type(val)
           \/ \E i \in DOMAIN sent : Answer(i)
           \/ \E r \in Record : Refetch(r)
           \/ \E r \in Record, keep \in BOOLEAN : Turn(r, keep)
BY DEF Next, vars, Cancel, Send, Choose, Confirm, Store, Refuse, Lose, Colleague

--------------------------------------------------------------------------------
(* What is sent is for the record it is sent for *)

OfRecord ==
    Rooted(control) =>
        /\ draft.of = shown
        /\ \A i \in DOMAIN sent : sent[i].of = sent[i].rec

LEMMA OfRecordStays ==
    ASSUME Typed, [Next]_vars, OfRecord
    PROVE  OfRecord'
<1>1. control' = control
  BY Newcomers
<1> SUFFICES ASSUME Rooted(control)
             PROVE  /\ draft'.of = shown'
                    /\ \A i \in DOMAIN sent' : sent'[i].of = sent'[i].rec
  BY <1>1 DEF OfRecord, Rooted
<1>2. /\ draft.of = shown
      /\ \A i \in DOMAIN sent : sent[i].of = sent[i].rec
      /\ draft \in Draft
  BY DEF OfRecord, Typed, TypeOK
<1>3. ASSUME NEW i \in DOMAIN sent'
      PROVE  sent'[i].of = sent'[i].rec
  <2>1. CASE i \in DOMAIN sent
    BY <1>2, <2>1, Newcomers DEF Lasts
  <2>2. CASE i \notin DOMAIN sent
    BY <1>2, <1>3, <2>2, Newcomers DEF Decided, Drafted
  <2>3. QED
    BY <2>1, <2>2
<1>4. draft'.of = shown'
  <2>1. CASE UNCHANGED <<draft, shown, cache>>
    BY <1>2, <2>1
  <2>2. CASE Edit
    BY <2>2 DEF Edit, Mounted
  <2>3. ASSUME NEW val \in Texts, Type(val)
        PROVE  draft'.of = shown'
    BY <1>2, <2>3 DEF Type
  <2>4. ASSUME NEW i \in DOMAIN sent, Answer(i)
        PROVE  draft'.of = shown'
    BY <1>2, <2>4 DEF Answer, Mounted
  <2>5. ASSUME NEW r \in Record, Refetch(r)
        PROVE  draft'.of = shown'
    <3>1. shown' = shown /\ \/ r = shown /\ draft' = Mounted(r, row[r].val)
                            \/ draft' = [draft EXCEPT !.written = @ /\ ~Shared(r)]
      BY <2>5 DEF Refetch
    <3>2. QED
      BY <1>2, <3>1 DEF Mounted, Draft
  <2>6. ASSUME NEW r \in Record, NEW keep \in BOOLEAN, Turn(r, keep)
        PROVE  draft'.of = shown'
    <3>1. keep = FALSE
      BY <2>6 DEF Turn, Keeps, Rooted
    <3>2. draft' = Mounted(r, cache[r].val) /\ shown' = r
      BY <2>6, <3>1 DEF Turn, Rooted
    <3>3. QED
      BY <3>2 DEF Mounted
  <2>7. QED
    BY <2>1, <2>2, <2>3, <2>4, <2>5, <2>6, DraftStep
<1>5. QED
  BY <1>3, <1>4

--------------------------------------------------------------------------------
(* What is sent is wanted *)

Wanted == Deliberate(control) => \A i \in DOMAIN sent : sent[i].chosen

LEMMA WantedStays ==
    ASSUME Typed, [Next]_vars, Wanted
    PROVE  Wanted'
<1>1. control' = control
  BY Newcomers
<1> SUFFICES ASSUME Deliberate(control), NEW i \in DOMAIN sent'
             PROVE  sent'[i].chosen
  BY <1>1 DEF Wanted, Deliberate
<1>2. CASE i \in DOMAIN sent
  BY <1>2, Newcomers DEF Wanted, Lasts
<1>3. CASE i \notin DOMAIN sent
  BY <1>3, Newcomers DEF Decided, Drafted, Deliberate
<1>4. QED
  BY <1>2, <1>3

\* The text was stored for the record by the user's own wish.
Wrote(j, rec, val, entry) ==
    /\ sent[j].stored /\ sent[j].chosen
    /\ sent[j].rec = rec /\ sent[j].val = val /\ sent[j].entry = entry

\* A draft that nobody wrote, or that has been shared since, is the cached value or the
\* text of a request that was stored; and so is what is sent of it.
Follows ==
    Follower(control) =>
        /\ draft.written => draft.entry # 0
        /\ ~draft.written /\ draft.entry = 0 => draft.text = cache[shown].val
        /\ ~draft.written /\ draft.entry # 0 =>
            \E j \in DOMAIN sent : Wrote(j, draft.of, draft.text, draft.entry)
        /\ \A i \in DOMAIN sent :
            sent[i].entry = draft.entry /\ draft.entry # 0 =>
                sent[i].val = draft.text /\ sent[i].of = draft.of
        /\ \A i \in DOMAIN sent :
            sent[i].chosen \/ \E j \in DOMAIN sent :
                j < i /\ Wrote(j, sent[i].of, sent[i].val, sent[i].entry)

LEMMA FollowsStays ==
    ASSUME Typed, [Next]_vars, Follows
    PROVE  Follows'
<1>1. control' = control
  BY Newcomers
<1> SUFFICES ASSUME Follower(control)
             PROVE  Follows'
  BY <1>1 DEF Follows, Follower
<1>2. /\ draft.written => draft.entry # 0
      /\ ~draft.written /\ draft.entry = 0 => draft.text = cache[shown].val
      /\ ~draft.written /\ draft.entry # 0 =>
            \E j \in DOMAIN sent : Wrote(j, draft.of, draft.text, draft.entry)
      /\ \A i \in DOMAIN sent :
            sent[i].entry = draft.entry /\ draft.entry # 0 =>
                sent[i].val = draft.text /\ sent[i].of = draft.of
      /\ \A i \in DOMAIN sent :
            sent[i].chosen \/ \E j \in DOMAIN sent :
                j < i /\ Wrote(j, sent[i].of, sent[i].val, sent[i].entry)
  BY DEF Follows
<1>3. /\ sent \in Seq(Request) /\ Len(sent) \in Nat /\ draft \in Draft /\ shown \in Record
      /\ typed \in Nat /\ draft.entry \in Nat /\ draft.entry <= typed
      /\ draft.written \in BOOLEAN
      /\ \A i \in DOMAIN sent : i <= Len(sent)
      /\ \A i \in DOMAIN sent : sent[i].entry <= typed
  BY FormsAssumption DEF FormsAssumption, Typed, TypeOK, Numbered, Draft
<1>4. \A j \in DOMAIN sent : j \in DOMAIN sent' /\ Lasts(j)
  BY Newcomers
<1>5. \A j \in DOMAIN sent' : j \notin DOMAIN sent =>
            /\ j = Len(sent) + 1
            /\ Decided(j) \/ \E way \in control.on : Drafted(j, way)
  BY Newcomers
<1>6. ASSUME NEW j \in DOMAIN sent, NEW rec, NEW val, NEW entry, Wrote(j, rec, val, entry)
      PROVE  Wrote(j, rec, val, entry)'
  BY <1>4, <1>6 DEF Wrote, Lasts
<1>7. ASSUME NEW i \in DOMAIN sent'
      PROVE  sent'[i].chosen \/ \E j \in DOMAIN sent' :
                j < i /\ Wrote(j, sent[i].of, sent[i].val, sent[i].entry)'
  <2>1. CASE i \in DOMAIN sent
    <3> PICK of, val, entry : of = sent[i].of /\ val = sent[i].val /\ entry = sent[i].entry
      OBVIOUS
    <3>1. sent'[i].of = of /\ sent'[i].val = val /\ sent'[i].entry = entry
            /\ sent'[i].chosen = sent[i].chosen
      BY <1>4, <2>1 DEF Lasts
    <3>2. CASE ~sent[i].chosen
      <4>1. PICK j \in DOMAIN sent : j < i /\ Wrote(j, of, val, entry)
        BY <1>2, <2>1, <3>2
      <4>2. Wrote(j, of, val, entry)' /\ j \in DOMAIN sent'
        BY <1>4, <1>6, <4>1
      <4>3. QED
        BY <3>1, <4>1, <4>2
    <3>3. QED
      BY <3>1, <3>2
  <2>2. CASE i \notin DOMAIN sent /\ ~sent'[i].chosen
    <3>1. PICK way \in control.on : Drafted(i, way)
      BY <1>5, <2>2 DEF Decided
    <3>2. ~draft.written /\ way.by = "leave" /\ draft.text # cache[shown].val
      BY <2>2, <3>1 DEF Drafted, Send, Allowed, Follower
    <3>3. draft.entry # 0
      BY <1>2, <3>2
    <3> PICK of, val, entry : of = draft.of /\ val = draft.text /\ entry = draft.entry
      OBVIOUS
    <3>4. PICK j \in DOMAIN sent : Wrote(j, of, val, entry)
      BY <1>2, <3>2, <3>3
    <3>5. Wrote(j, of, val, entry)' /\ j \in DOMAIN sent'
      BY <1>4, <1>6, <3>4
    <3>6. j < i
      BY <1>3, <1>5, <2>2
    <3>7. sent'[i].of = of /\ sent'[i].val = val /\ sent'[i].entry = entry
      BY <3>1 DEF Drafted
    <3>8. QED
      BY <3>5, <3>6, <3>7
  <2>3. QED
    BY <2>1, <2>2
\* The draft is that of a component that has just been mounted.
<1>8. ASSUME draft'.entry = 0, ~draft'.written, draft'.text = cache'[shown'].val
      PROVE  Follows'
  BY <1>7, <1>8 DEF Follows
\* The draft stays, but that it may have been shared.
<1>9. ASSUME draft'.text = draft.text, draft'.of = draft.of, draft'.entry = draft.entry,
             draft'.written => draft.written,
             ~draft.written => cache'[shown'].val = cache[shown].val,
             draft.written /\ ~draft'.written =>
                \E j \in DOMAIN sent : Wrote(j, draft.of, draft.text, draft.entry)
      PROVE  Follows'
  <2> PICK of, val, entry : of = draft.of /\ val = draft.text /\ entry = draft.entry
    OBVIOUS
  <2>1. draft'.written => draft'.entry # 0
    BY <1>2, <1>9
  <2>2. ~draft'.written /\ draft'.entry = 0 => draft'.text = cache'[shown'].val
    BY <1>2, <1>9
  <2>3. ASSUME ~draft'.written, draft'.entry # 0
        PROVE  \E j \in DOMAIN sent' : Wrote(j, draft.of, draft.text, draft.entry)'
    <3>1. PICK j \in DOMAIN sent : Wrote(j, of, val, entry)
      BY <1>2, <1>9, <2>3
    <3>2. Wrote(j, of, val, entry)' /\ j \in DOMAIN sent'
      BY <1>4, <1>6, <3>1
    <3>3. QED
      BY <1>9, <3>2
  <2>4. ASSUME NEW i \in DOMAIN sent', sent'[i].entry = draft'.entry, draft'.entry # 0
        PROVE  sent'[i].val = draft'.text /\ sent'[i].of = draft'.of
    <3>1. CASE i \in DOMAIN sent
      BY <1>2, <1>4, <1>9, <2>4, <3>1 DEF Lasts
    <3>2. CASE i \notin DOMAIN sent
      BY <1>5, <1>9, <2>4, <3>2 DEF Decided, Drafted
    <3>3. QED
      BY <3>1, <3>2
  <2>5. QED
    BY <1>7, <2>1, <2>2, <2>3, <2>4 DEF Follows
<1>10. CASE UNCHANGED <<draft, shown, cache>>
  <2>1. /\ draft'.text = draft.text /\ draft'.of = draft.of /\ draft'.entry = draft.entry
        /\ draft'.written = draft.written /\ cache'[shown'].val = cache[shown].val
    BY <1>10
  <2>2. QED
    BY <1>9, <2>1
<1>11. CASE Edit
  <2>1. draft' = [Mounted(shown, cache[shown].val) EXCEPT !.text = cache[shown].val]
            /\ cache' = cache /\ shown' = shown
    BY <1>11 DEF Edit, Follower
  <2>2. draft'.entry = 0 /\ ~draft'.written /\ draft'.text = cache'[shown'].val
    BY <2>1 DEF Mounted
  <2>3. QED
    BY <1>8, <2>2
<1>12. ASSUME NEW val \in Texts, Type(val)
       PROVE  Follows'
  <2>1. sent' = sent /\ draft'.entry = typed + 1 /\ draft'.written
    BY <1>12 DEF Type
  <2>2. \A i \in DOMAIN sent' : sent'[i].entry # draft'.entry
    <3>1. \A i \in DOMAIN sent : sent[i].entry \in Nat
      <4>1. \A i \in DOMAIN sent : sent[i] \in Request
        BY <1>3
      <4>2. QED
        BY <4>1 DEF Request
    <3>2. QED
      BY <1>3, <2>1, <3>1
  <2>3. draft'.entry # 0
    BY <1>3, <2>1
  <2>4. QED
    BY <1>7, <2>1, <2>2, <2>3 DEF Follows
<1>13. ASSUME NEW i \in DOMAIN sent, Answer(i)
       PROVE  Follows'
  <2>1. UNCHANGED <<draft, shown, cache>>
    BY <1>13 DEF Answer, Follower
  <2>2. QED
    BY <1>10, <2>1
<1>14. ASSUME NEW r \in Record, Refetch(r)
       PROVE  Follows'
  <2>1. shown' = shown /\ cache' = [cache EXCEPT ![r] = row[r]]
            /\ cache \in [Record -> Row]
    BY <1>14 DEF Refetch, Typed, TypeOK
  <2>2. CASE r = shown /\ cache[r].val # row[r].val
    <3>1. draft' = Mounted(r, row[r].val)
      BY <1>14, <2>2 DEF Refetch, Follower
    <3>2. draft'.entry = 0 /\ ~draft'.written /\ draft'.text = cache'[shown'].val
      BY <2>1, <2>2, <3>1 DEF Mounted, Follower
    <3>3. QED
      BY <1>8, <3>2
  <2>3. CASE ~(r = shown /\ cache[r].val # row[r].val)
    <3>1. draft' = [draft EXCEPT !.written = @ /\ ~Shared(r)]
      BY <1>14, <2>3 DEF Refetch
    <3>2. /\ draft'.text = draft.text /\ draft'.of = draft.of /\ draft'.entry = draft.entry
          /\ draft'.written <=> draft.written /\ ~Shared(r)
      BY <1>3, <3>1 DEF Draft
    <3>3. cache'[shown'].val = cache[shown].val
      BY <1>3, <2>1, <2>3
    <3>4. ASSUME draft.written, Shared(r)
          PROVE  \E j \in DOMAIN sent : Wrote(j, draft.of, draft.text, draft.entry)
      <4>1. PICK i \in DOMAIN sent : /\ sent[i].stored /\ sent[i].rec = draft.of
                                     /\ sent[i].entry = draft.entry
        BY <3>4 DEF Shared
      <4>2. sent[i].val = draft.text /\ sent[i].of = draft.of
        BY <1>2, <3>4, <4>1
      <4>3. QED
        BY <1>2, <4>1, <4>2 DEF Wrote
    <3>5. QED
      BY <1>9, <3>2, <3>3, <3>4
  <2>4. QED
    BY <2>2, <2>3
<1>15. ASSUME NEW r \in Record, NEW keep \in BOOLEAN, Turn(r, keep)
       PROVE  Follows'
  <2>1. shown' = r /\ cache' = cache
    BY <1>15 DEF Turn
  <2>2. CASE draft' = Mounted(r, cache[r].val)
    <3>1. draft'.entry = 0 /\ ~draft'.written /\ draft'.text = cache'[shown'].val
      BY <2>1, <2>2 DEF Mounted, Follower
    <3>2. QED
      BY <1>8, <3>1
  <2>3. CASE draft' = draft /\ cache[r].val = cache[shown].val
    <3>1. /\ draft'.text = draft.text /\ draft'.of = draft.of /\ draft'.entry = draft.entry
          /\ draft'.written = draft.written /\ cache'[shown'].val = cache[shown].val
      BY <2>1, <2>3
    <3>2. QED
      BY <1>9, <3>1
  <2>4. \/ draft' = Mounted(r, cache[r].val)
        \/ draft' = draft /\ cache[r].val = cache[shown].val
    <3>1. CASE keep
      <4>1. control.kept # "no"
        <5>1. keep \in Keeps[control.kept]
          BY <1>15 DEF Turn
        <5>2. Keeps["no"] = {FALSE}
          BY DEF Keeps
        <5>3. QED
          BY <3>1, <5>1, <5>2
      <4>2. QED
        BY <1>15, <3>1, <4>1 DEF Turn, Staying, Follower
    <3>2. CASE ~keep
      BY <1>15, <3>2 DEF Turn, Follower
    <3>3. QED
      BY <3>1, <3>2
  <2>5. QED
    BY <2>2, <2>3, <2>4
<1>16. QED
  BY <1>10, <1>11, <1>12, <1>13, <1>14, <1>15, DraftStep

--------------------------------------------------------------------------------
(* What is written once is stored once *)

Over(i) == sent[i].state = "lost" \/ (sent[i].state = "answered" /\ ~sent[i].stored)

\* The observer waits for the request: as long as it does, Pending keeps the form.
Waiting(i) == observer = i /\ sent[i].state \in {"sent", "stored", "refused"}

\* A form that is open and holds a text: whatever was sent of it is over, or awaited.
Once ==
    control.shows = "blank" /\ Guarded(control) =>
        /\ asked = <<>>
        /\ control.after = "closesAtOnce" => observer = 0
        /\ draft.text # Blank => draft.entry # 0
        /\ \A i \in DOMAIN sent : sent[i].entry # 0
        /\ open => \A i \in DOMAIN sent :
                        sent[i].entry = draft.entry => Over(i) \/ Waiting(i)
        /\ \A i, j \in DOMAIN sent : i < j /\ sent[i].entry = sent[j].entry => Over(i)

LEMMA Mutations ==
    ASSUME Typed,
           \/ \E way \in control.on : Send(way) \/ \E val \in Text : Choose(way, val)
           \/ \E yes \in BOOLEAN : Confirm(yes)
    PROVE  \/ sent' = sent
           \/ \E r \in Record, val \in Texts, chosen \in BOOLEAN, of \in Record,
                 entry \in 0..MaxTyped : entry <= typed /\ Mutate(r, val, chosen, of, entry)
<1>1. /\ draft.text \in Texts /\ draft.of \in Record /\ draft.entry \in 0..MaxTyped
      /\ draft.entry <= typed /\ shown \in Record /\ Text \subseteq Texts
      /\ asked \in {<<>>} \cup Record \X Text
      /\ 0 \in 0..MaxTyped /\ 0 <= typed
  BY FormsAssumption DEF FormsAssumption, Typed, TypeOK, Numbered, Draft, Texts
<1>2. ASSUME NEW way \in control.on, Send(way)
      PROVE  \E r \in Record, val \in Texts, chosen \in BOOLEAN, of \in Record,
                 entry \in 0..MaxTyped : entry <= typed /\ Mutate(r, val, chosen, of, entry)
  <2>1. PICK chosen \in BOOLEAN : Mutate(shown, draft.text, chosen, draft.of, draft.entry)
    BY <1>2 DEF Send
  <2>2. QED
    BY <1>1, <2>1
<1>3. ASSUME NEW way \in control.on, NEW val \in Text, Choose(way, val), sent' # sent
      PROVE  Mutate(shown, val, TRUE, shown, 0)
  BY <1>3 DEF Choose
<1>4. ASSUME NEW yes \in BOOLEAN, Confirm(yes), sent' # sent
      PROVE  \E r \in Record, val \in Text : Mutate(r, val, TRUE, r, 0)
  <2>1. PICK r \in Record, val \in Text : asked = <<r, val>>
    BY <1>1, <1>4 DEF Confirm
  <2>2. QED
    BY <1>4, <2>1 DEF Confirm
<1>5. QED
  BY <1>1, <1>2, <1>3, <1>4

LEMMA OverStays ==
    ASSUME Typed, [Next]_vars, NEW i \in DOMAIN sent, Over(i)
    PROVE  Over(i)'
<1>1. sent[i].state \in {"lost", "answered"}
  BY DEF Over
<1>2. CASE sent' = sent
  BY <1>2 DEF Over
<1>3. CASE \E r \in Record, val \in Texts, chosen \in BOOLEAN, of \in Record,
                entry \in 0..MaxTyped : entry <= typed /\ Mutate(r, val, chosen, of, entry)
  <2>1. sent'[i] = sent[i]
    BY <1>3, MutateTyped
  <2>2. QED
    BY <2>1 DEF Over
<1>4. ASSUME NEW k \in DOMAIN sent, Store(k)
      PROVE  Over(i)'
  <2>1. k # i
    BY <1>1, <1>4 DEF Store
  <2>2. sent'[i].state = sent[i].state /\ (sent'[i].stored = (i = k \/ sent[i].stored))
    BY <1>4, <2>1, StoreTyped
  <2>3. QED
    BY <2>1, <2>2 DEF Over
<1>5. ASSUME NEW k \in DOMAIN sent, NEW state \in {"refused", "answered", "lost"},
             Becomes(k, state), sent[k].state \in {"sent", "stored", "refused"}
      PROVE  Over(i)'
  <2>1. k # i
    BY <1>1, <1>5
  <2>2. sent'[i].state = sent[i].state /\ sent'[i].stored = sent[i].stored
    BY <1>5, <2>1, BecomesTyped
  <2>3. QED
    BY <2>2 DEF Over
<1>6. ASSUME NEW k \in DOMAIN sent, Refuse(k) \/ Answer(k) \/ Lose(k)
      PROVE  Over(i)'
  BY <1>5, <1>6 DEF Refuse, Answer, Lose
<1>7. CASE \E way \in control.on : Send(way) \/ \E val \in Text : Choose(way, val)
  BY <1>2, <1>3, <1>7, Mutations
<1>8. CASE \E yes \in BOOLEAN : Confirm(yes)
  BY <1>2, <1>3, <1>8, Mutations
<1>9. CASE \/ Edit \/ Cancel \/ UNCHANGED vars
           \/ \E val \in Texts : Type(val)
           \/ \E r \in Record : Refetch(r)
           \/ \E r \in Record, val \in Text : Colleague(r, val)
           \/ \E r \in Record, keep \in BOOLEAN : Turn(r, keep)
  <2>1. sent' = sent
    BY <1>9 DEF Edit, Cancel, vars, Type, Refetch, Colleague, Turn
  <2>2. QED
    BY <1>2, <2>1
<1>10. QED
  BY <1>4, <1>6, <1>7, <1>8, <1>9 DEF Next

LEMMA OnceStays ==
    ASSUME Typed, [Next]_vars, Once
    PROVE  Once'
<1>1. control' = control
  BY Newcomers
<1> SUFFICES ASSUME control.shows = "blank", Guarded(control)
             PROVE  Once'
  BY <1>1 DEF Once, Guarded
<1>2. /\ asked = <<>>
      /\ control.after = "closesAtOnce" => observer = 0
      /\ draft.text # Blank => draft.entry # 0
      /\ \A i \in DOMAIN sent : sent[i].entry # 0
      /\ open => \A i \in DOMAIN sent : sent[i].entry = draft.entry => Over(i) \/ Waiting(i)
      /\ \A i, j \in DOMAIN sent : i < j /\ sent[i].entry = sent[j].entry => Over(i)
  BY DEF Once
<1>3. /\ sent \in Seq(Request) /\ Len(sent) \in Nat /\ draft \in Draft /\ shown \in Record
      /\ typed \in Nat /\ draft.entry \in Nat /\ open \in BOOLEAN
      /\ \A i \in DOMAIN sent : i \in Nat /\ i <= Len(sent)
      /\ \A i \in DOMAIN sent : sent[i].entry <= typed
  BY FormsAssumption DEF FormsAssumption, Typed, TypeOK, Numbered, Draft
<1>4. /\ \A way \in control.on : way.by # "pick" /\ "text" \in way.needs
      /\ \/ control.after = "closesAtOnce"
         \/ /\ control.after \in {"empties", "closes"}
            /\ \A way \in control.on : way.waits
  BY DEF Guarded
<1>5. \A j \in DOMAIN sent : j \in DOMAIN sent' /\ Lasts(j)
  BY Newcomers
\* A step that sends nothing: the requests need no more than their own state.
<1>6. ASSUME DOMAIN sent' = DOMAIN sent, asked' = asked, observer' \in {0, observer},
             draft'.text # Blank => draft'.entry # 0,
             open' => \A i \in DOMAIN sent :
                        sent[i].entry = draft'.entry => Over(i)' \/ Waiting(i)'
      PROVE  Once'
  <2>1. \A i \in DOMAIN sent : sent'[i].entry = sent[i].entry
    BY <1>5 DEF Lasts
  <2>2. \A i \in DOMAIN sent : Over(i) => Over(i)'
    BY OverStays
  <2>3. \A i, j \in DOMAIN sent' : i < j /\ sent'[i].entry = sent'[j].entry => Over(i)'
    BY <1>2, <1>6, <2>1, <2>2
  <2>4. \A i \in DOMAIN sent' : sent'[i].entry # 0
    BY <1>2, <1>6, <2>1
  <2>5. open' => \A i \in DOMAIN sent' :
                    sent'[i].entry = draft'.entry => Over(i)' \/ Waiting(i)'
    BY <1>6, <2>1
  <2>6. QED
    BY <1>1, <1>2, <1>6, <2>3, <2>4, <2>5 DEF Once
\* The draft is that of a component that has just been mounted.
<1>7. ASSUME DOMAIN sent' = DOMAIN sent, asked' = asked, observer' \in {0, observer},
             draft'.text = Blank, draft'.entry = 0
      PROVE  Once'
  BY <1>2, <1>6, <1>7
\* The draft stays, and the request that is waited for is not answered.
<1>8. ASSUME sent' = sent, asked' = asked, draft'.text = draft.text,
             draft'.entry = draft.entry, open' => open, observer' = observer
      PROVE  Once'
  <2>1. \A i \in DOMAIN sent : Waiting(i) => Waiting(i)'
    BY <1>8 DEF Waiting
  <2>2. \A i \in DOMAIN sent : Over(i) => Over(i)'
    BY OverStays
  <2>3. QED
    BY <1>2, <1>6, <1>8, <2>1, <2>2
<1>9. CASE UNCHANGED vars
  BY <1>8, <1>9 DEF vars
<1>10. CASE Edit
  BY <1>7, <1>10 DEF Edit, Mounted
<1>11. CASE Cancel
  BY <1>8, <1>11 DEF Cancel
<1>12. ASSUME NEW val \in Texts, Type(val)
       PROVE  Once'
  <2>1. UNCHANGED <<sent, asked, observer>> /\ draft'.entry = typed + 1
    BY <1>12 DEF Type
  <2>2. \A i \in DOMAIN sent : sent[i].entry # draft'.entry
    <3>1. \A i \in DOMAIN sent : sent[i].entry \in Nat
      <4>1. \A i \in DOMAIN sent : sent[i] \in Request
        BY <1>3
      <4>2. QED
        BY <4>1 DEF Request
    <3>2. QED
      BY <1>3, <2>1, <3>1
  <2>3. draft'.entry # 0
    BY <1>3, <2>1
  <2>4. QED
    BY <1>6, <2>1, <2>2, <2>3
<1>13. ASSUME NEW way \in control.on, Send(way)
       PROVE  Once'
  <2> DEFINE chosen == draft.written \/ way.by # "leave"
  <2>1. /\ open /\ Allowed(way, draft.text)
        /\ Mutate(shown, draft.text, chosen, draft.of, draft.entry)
        /\ UNCHANGED <<draft, asked>>
    BY <1>13 DEF Send
  <2>2. draft.text # Blank /\ draft.entry # 0
    BY <1>2, <1>4, <2>1 DEF Allowed
  <2>3. /\ draft.text \in Texts /\ draft.of \in Record /\ draft.entry \in 0..MaxTyped
        /\ draft.entry <= typed /\ chosen \in BOOLEAN
    BY <1>3 DEF Draft, Typed, Numbered
  <2> HIDE DEF chosen
  <2>4. /\ sent' \in Seq(Request) /\ Len(sent') = Len(sent) + 1
        /\ \A j \in DOMAIN sent : sent'[j] = sent[j]
        /\ sent'[Len(sent')].entry = draft.entry /\ sent'[Len(sent')].state = "sent"
    BY <1>3, <2>1, <2>3, MutateTyped
  <2> PICK n \in Nat : n = Len(sent)
    BY <1>3
  <2>5. /\ DOMAIN sent = 1..n /\ DOMAIN sent' = 1..(n + 1)
        /\ \A j \in 1..n : sent'[j] = sent[j]
        /\ sent'[n + 1].entry = draft.entry /\ sent'[n + 1].state = "sent"
    BY <1>3, <2>4
  <2>6. \A i \in 1..n : Over(i) => Over(i)'
    BY <2>5, OverStays
\* The last request of this text is over, or the editor would have been closed by it.
  <2>7. \A i \in 1..n : sent[i].entry = draft.entry => Over(i)
    <3> SUFFICES ASSUME NEW i \in 1..n, sent[i].entry = draft.entry, Waiting(i)
                 PROVE  Over(i)
      BY <1>2, <2>1, <2>5
    <3>1. i # 0 /\ observer = i /\ Pending
      BY DEF Waiting, Pending
    <3>2. ~way.waits
      BY <2>1, <3>1 DEF Allowed
    <3>3. QED
      BY <1>2, <1>4, <3>1, <3>2
  <2>8. /\ control.after = "closesAtOnce" => observer' = 0 /\ ~open'
        /\ control.after # "closesAtOnce" => observer' = n + 1 /\ open' = open
    BY <1>13, <2>4 DEF Send
  <2>9. ASSUME NEW i \in DOMAIN sent', open', sent'[i].entry = draft'.entry
        PROVE  Over(i)' \/ Waiting(i)'
    <3>1. CASE i = n + 1
      BY <2>5, <2>8, <2>9, <3>1 DEF Waiting
    <3>2. CASE i \in 1..n
      BY <2>1, <2>5, <2>6, <2>7, <2>9, <3>2
    <3>3. QED
      BY <2>5, <3>1, <3>2
  <2>10. ASSUME NEW i \in DOMAIN sent', NEW j \in DOMAIN sent',
                i < j, sent'[i].entry = sent'[j].entry
         PROVE  Over(i)'
    <3>1. i \in 1..n
      BY <2>5, <2>10
    <3>2. CASE j = n + 1
      BY <2>5, <2>6, <2>7, <2>10, <3>1, <3>2
    <3>3. CASE j \in 1..n
      BY <1>2, <2>5, <2>6, <2>10, <3>1, <3>3
    <3>4. QED
      BY <2>5, <3>2, <3>3
  <2>11. \A i \in DOMAIN sent' : sent'[i].entry # 0
    BY <1>2, <2>2, <2>5
  <2>12. QED
    BY <1>1, <1>2, <2>1, <2>8, <2>9, <2>10, <2>11 DEF Once
<1>14. ASSUME NEW way \in control.on, NEW val \in Text, Choose(way, val)
       PROVE  Once'
  BY <1>4, <1>14 DEF Choose
<1>15. ASSUME NEW yes \in BOOLEAN, Confirm(yes)
       PROVE  Once'
  BY <1>2, <1>15 DEF Confirm
\* A request goes on: those that are waited for are waited for, or over.
<1>16. ASSUME DOMAIN sent' = DOMAIN sent,
              UNCHANGED <<asked, draft, observer>>, open' => open,
              \A i \in DOMAIN sent : Waiting(i) => Waiting(i)' \/ Over(i)'
       PROVE  Once'
  <2>1. \A i \in DOMAIN sent : Over(i) => Over(i)'
    BY OverStays
  <2>2. QED
    BY <1>2, <1>6, <1>16, <2>1
<1>17. ASSUME NEW k \in DOMAIN sent, Store(k)
       PROVE  Once'
  <2>1. /\ DOMAIN sent' = DOMAIN sent
        /\ \A i \in DOMAIN sent : sent'[i].state = IF i = k THEN "stored" ELSE sent[i].state
    BY <1>17, StoreTyped
  <2>2. UNCHANGED <<asked, draft, observer, open>>
    BY <1>17 DEF Store
  <2>3. QED
    BY <1>16, <2>1, <2>2 DEF Waiting
<1>18. ASSUME NEW k \in DOMAIN sent, Refuse(k)
       PROVE  Once'
  <2>1. Becomes(k, "refused") /\ UNCHANGED <<asked, draft, observer, open>>
    BY <1>18 DEF Refuse
  <2>2. /\ DOMAIN sent' = DOMAIN sent
        /\ \A i \in DOMAIN sent : sent'[i].state = IF i = k THEN "refused" ELSE sent[i].state
    BY <2>1, BecomesTyped
  <2>3. QED
    BY <1>16, <2>1, <2>2 DEF Waiting
<1>19. ASSUME NEW k \in DOMAIN sent, Lose(k)
       PROVE  Once'
  <2>1. Becomes(k, "lost") /\ UNCHANGED <<asked, draft, observer, open>>
    BY <1>19 DEF Lose
  <2>2. /\ DOMAIN sent' = DOMAIN sent
        /\ \A i \in DOMAIN sent : sent'[i].state = IF i = k THEN "lost" ELSE sent[i].state
    BY <2>1, BecomesTyped
  <2>3. QED
    BY <1>16, <2>1, <2>2 DEF Waiting, Over
<1>20. ASSUME NEW k \in DOMAIN sent, Answer(k)
       PROVE  Once'
  <2>1. /\ Becomes(k, "answered") /\ sent[k].state \in {"stored", "refused"}
        /\ UNCHANGED <<asked, observer>>
    BY <1>20 DEF Answer
  <2>2. /\ DOMAIN sent' = DOMAIN sent
        /\ \A i \in DOMAIN sent :
                /\ sent'[i].state = IF i = k THEN "answered" ELSE sent[i].state
                /\ sent'[i].stored = sent[i].stored
    BY <2>1, BecomesTyped
  <2>3. CASE sent[k].state = "stored" /\ observer = k
    <3>1. control.after \in {"empties", "closes"}
      BY <1>2, <1>3, <1>4, <2>3
    <3>2. CASE control.after = "empties"
      <4>1. draft' = Mounted(shown, Blank)
        BY <1>20, <2>3, <3>2 DEF Answer
      <4>2. QED
        BY <1>7, <2>1, <2>2, <4>1 DEF Mounted
    <3>3. CASE control.after = "closes"
      <4>1. ~open' /\ draft' = draft
        BY <1>20, <2>3, <3>3 DEF Answer
      <4>2. QED
        BY <1>2, <1>6, <2>1, <2>2, <4>1
    <3>4. QED
      BY <3>1, <3>2, <3>3
  <2>4. CASE ~(sent[k].state = "stored" /\ observer = k)
    <3>1. draft' = draft /\ open' = open
      BY <1>3, <1>20, <2>4 DEF Answer
    <3>2. ASSUME NEW i \in DOMAIN sent, Waiting(i)
          PROVE  Waiting(i)' \/ Over(i)'
      <4>1. CASE i # k
        BY <2>1, <2>2, <3>2, <4>1 DEF Waiting
      <4>2. CASE i = k
        <5>1. sent[k].state = "refused"
          BY <2>1, <2>4, <3>2, <4>2 DEF Waiting
        <5>2. ~sent[k].stored
          BY <5>1 DEF Typed, Numbered
        <5>3. QED
          BY <2>2, <4>2, <5>2 DEF Over
      <4>3. QED
        BY <4>1, <4>2
    <3>3. QED
      BY <1>16, <2>1, <2>2, <3>1, <3>2
  <2>5. QED
    BY <2>3, <2>4
<1>21. ASSUME NEW r \in Record, Refetch(r)
       PROVE  Once'
  <2>1. /\ draft' = [draft EXCEPT !.written = @ /\ ~Shared(r)]
        /\ UNCHANGED <<sent, asked, open, observer>>
    BY <1>21 DEF Refetch
  <2>2. draft'.text = draft.text /\ draft'.entry = draft.entry
    BY <1>3, <2>1 DEF Draft
  <2>3. QED
    BY <1>8, <2>1, <2>2
<1>22. ASSUME NEW r \in Record, NEW val \in Text, Colleague(r, val)
       PROVE  Once'
  BY <1>8, <1>22 DEF Colleague
<1>23. ASSUME NEW r \in Record, NEW keep \in BOOLEAN, Turn(r, keep)
       PROVE  Once'
  <2>1. sent' = sent /\ asked' = asked
    BY <1>23 DEF Turn
  <2>2. CASE keep
    <3>1. draft' = draft /\ open' = open /\ observer' = observer
      BY <1>23, <2>2 DEF Turn, Staying
    <3>2. QED
      BY <1>8, <2>1, <3>1
  <2>3. CASE ~keep
    <3>1. draft' = Mounted(r, cache[r].val) /\ observer' = 0
      BY <1>23, <2>3 DEF Turn, Guarded
    <3>2. draft'.text = Blank /\ draft'.entry = 0
      BY <3>1 DEF Mounted
    <3>3. QED
      BY <1>7, <2>1, <3>1, <3>2
  <2>4. QED
    BY <2>2, <2>3
<1>24. QED
  BY <1>9, <1>10, <1>11, <1>12, <1>13, <1>14, <1>15, <1>17, <1>18, <1>19, <1>20, <1>21, <1>22,
     <1>23 DEF Next

--------------------------------------------------------------------------------
(* The theorems *)

IInv == Typed /\ OfRecord /\ Wanted /\ Follows /\ Once

\* Whatever the control, and however many records, texts, requests and changes there are,
\* a form satisfies the invariant of its pattern.
THEOREM Invariance == Spec => []IInv
<1>1. Init => IInv
  <2> SUFFICES ASSUME Init
               PROVE  OfRecord /\ Wanted /\ Follows /\ Once
    BY TypedAtFirst DEF IInv
  <2>1. /\ sent = <<>> /\ asked = <<>> /\ observer = 0
        /\ draft = Mounted(shown, cache[shown].val)
    BY DEF Init
  <2>2. QED
    BY <2>1 DEF OfRecord, Wanted, Follows, Follower, Once, Mounted
<1>2. IInv /\ [Next]_vars => IInv'
  BY TypedStays, OfRecordStays, WantedStays, FollowsStays, OnceStays DEF IInv
<1>3. QED
  BY <1>1, <1>2, PTL DEF Spec

\* Versions stay in their range, and the requests, the drafts and the drafts that are kept
\* aside keep their types.
THEOREM TypeCorrect == Spec => []TypeOK
<1>1. IInv => TypeOK
  BY DEF IInv, Typed
<1>2. QED
  BY <1>1, Invariance, PTL

\* What a control stores was written by the user or sent by a decision of theirs, and for
\* the record it is stored in, apart from the controls that are named.
THEOREM OnlyChosenIsStored == Spec => []StoredWasChosen
<1>1. IInv => StoredWasChosen
  <2> SUFFICES ASSUME IInv, NEW i \in Stored
               PROVE  IF sent[i].of = sent[i].rec
                      THEN sent[i].chosen \/ SentAgain(i) \/ Names \subseteq Reverting
                      ELSE Names \subseteq Carrying
    BY DEF StoredWasChosen
  <2>1. i \in DOMAIN sent
    BY DEF Stored
  <2>2. /\ Names \subseteq Reverting \/ Deliberate(control) \/ Follower(control)
        /\ Names \subseteq Carrying \/ Rooted(control)
    BY NamelessFit DEF IInv, Typed, TypeOK
  <2>3. CASE sent[i].of # sent[i].rec
    BY <2>1, <2>2, <2>3 DEF IInv, OfRecord
  <2>4. CASE sent[i].of = sent[i].rec /\ Deliberate(control)
    BY <2>1, <2>4 DEF IInv, Wanted
  <2>5. CASE sent[i].of = sent[i].rec /\ Follower(control) /\ ~sent[i].chosen
    <3>1. PICK j \in DOMAIN sent : j < i /\ Wrote(j, sent[i].of, sent[i].val, sent[i].entry)
      BY <2>1, <2>5 DEF IInv, Follows
    <3>2. SentAgain(i)
      BY <2>5, <3>1 DEF SentAgain, Wrote, Stored, Follower
    <3>3. QED
      BY <2>5, <3>2
  <2>6. QED
    BY <2>2, <2>3, <2>4, <2>5
<1>2. QED
  BY <1>1, Invariance, PTL

\* What is written once into a form that creates is stored once, or an answer was lost;
\* apart from the forms that are named.
THEOREM EntriesAreStoredOnce == Spec => []OneEntryOneRecord
<1>1. IInv => OneEntryOneRecord
  <2> SUFFICES ASSUME IInv, NEW i \in Stored, NEW j \in Stored,
                      control.shows = "blank", i < j, sent[i].entry = sent[j].entry
               PROVE  sent[i].state = "lost" \/ Names \subseteq Unguarded
    BY DEF OneEntryOneRecord
  <2>1. i \in DOMAIN sent /\ j \in DOMAIN sent /\ sent[i].stored
    BY DEF Stored
  <2>2. Names \subseteq Unguarded \/ Guarded(control)
    BY NamelessFit DEF IInv, Typed, TypeOK
  <2>3. ASSUME Guarded(control)
        PROVE  sent[i].state = "lost"
    BY <2>1, <2>3 DEF IInv, Once, Over
  <2>4. QED
    BY <2>2, <2>3
<1>2. QED
  BY <1>1, Invariance, PTL

--------------------------------------------------------------------------------
(* The list of requirements: its lists *)

\* The lists are the sequences of different requirements: none is longer than Req.
LEMMA ListsAreInjective ==
    ASSUME NEW seq
    PROVE  seq \in Lists <=> seq \in Seq(Req) /\ IsInjective(seq)
<1>1. ASSUME seq \in Lists
      PROVE  seq \in Seq(Req) /\ IsInjective(seq)
  <2>1. PICK n \in 0..Cardinality(Req) : seq \in [1..n -> Req]
    BY <1>1 DEF Lists
  <2>2. Cardinality(Req) \in Nat
    BY FS_CardinalityType, ListAssumption DEF ListAssumption
  <2>3. n \in Nat
    BY <2>2
  <2>4. QED
    BY <1>1, <2>1, <2>3 DEF Lists
<1>2. ASSUME seq \in Seq(Req), IsInjective(seq)
      PROVE  seq \in Lists
  <2>1. PICK n \in Nat : n = Len(seq) /\ seq \in [1..n -> Req]
    BY <1>2
  <2>2. seq \in Injection(1..n, Req)
    BY <1>2, <2>1 DEF Injection
  <2>3. Cardinality(1..n) <= Cardinality(Req)
    BY <2>2, FS_Injection, ListAssumption DEF ListAssumption
  <2>4. Cardinality(1..n) = n
    BY IntervalCount
  <2>5. Cardinality(Req) \in Nat
    BY FS_CardinalityType, ListAssumption DEF ListAssumption
  <2>6. n \in 0..Cardinality(Req)
    BY <2>3, <2>4, <2>5
  <2>7. QED
    BY <1>2, <2>1, <2>6 DEF Lists
<1>3. QED
  BY <1>1, <1>2

LEMMA EmptyList == <<>> \in Lists
<1>1. <<>> \in Seq(Req) /\ IsInjective(<<>>)
  BY DEF IsInjective
<1>2. QED
  BY <1>1, ListsAreInjective

LEMMA AppendToList ==
    ASSUME NEW seq \in Lists, NEW r \in Req, r \notin Sets(seq)
    PROVE  Append(seq, r) \in Lists
<1>1. seq \in Seq(Req) /\ IsInjective(seq)
  BY ListsAreInjective
<1>2. PICK n \in Nat : n = Len(seq) /\ DOMAIN seq = 1..n
  BY <1>1
<1>3. PICK new : new = Append(seq, r)
  OBVIOUS
<1>4. /\ new \in Seq(Req) /\ DOMAIN new = 1..(n + 1)
      /\ \A i \in 1..n : new[i] = seq[i]
      /\ new[n + 1] = r
  BY <1>1, <1>2, <1>3
<1>5. \A i \in 1..n : seq[i] # r
  BY <1>2 DEF Sets
<1>6. IsInjective(new)
  BY <1>1, <1>2, <1>4, <1>5 DEF IsInjective
<1>7. QED
  BY <1>3, <1>4, <1>6, ListsAreInjective

LEMMA ConcatOfLists ==
    ASSUME NEW a \in Lists, NEW b \in Lists, Sets(a) \cap Sets(b) = {}
    PROVE  a \o b \in Lists
<1>1. a \in Seq(Req) /\ IsInjective(a) /\ b \in Seq(Req) /\ IsInjective(b)
  BY ListsAreInjective
<1>2. PICK m \in Nat, n \in Nat : /\ m = Len(a) /\ DOMAIN a = 1..m
                                  /\ n = Len(b) /\ DOMAIN b = 1..n
  BY <1>1
<1>3. PICK new : new = a \o b
  OBVIOUS
<1>4. /\ new \in Seq(Req) /\ DOMAIN new = 1..(m + n)
      /\ \A i \in 1..(m + n) : new[i] = IF i <= m THEN a[i] ELSE b[i - m]
  BY <1>1, <1>2, <1>3
<1>5. \A i \in 1..m, j \in 1..n : a[i] # b[j]
  BY <1>2 DEF Sets
<1>6. ASSUME NEW i \in 1..(m + n), NEW j \in 1..(m + n), new[i] = new[j]
      PROVE  i = j
  <2>1. CASE i <= m /\ j <= m
    <3>1. i \in 1..m /\ j \in 1..m
      BY <2>1
    <3>2. a[i] = a[j]
      BY <1>4, <1>6, <2>1
    <3>3. QED
      BY <1>1, <1>2, <3>1, <3>2, Zenon DEF IsInjective
  <2>2. CASE i > m /\ j > m
    <3>1. i - m \in 1..n /\ j - m \in 1..n
      BY <2>2
    <3>2. new[i] = b[i - m] /\ new[j] = b[j - m]
      BY <1>4, <2>2
    <3>3. i - m = j - m
      BY <1>1, <1>2, <1>6, <3>1, <3>2, Zenon DEF IsInjective
    <3>4. QED
      BY <3>3
  <2>3. CASE i <= m /\ j > m
    <3>1. i \in 1..m /\ j - m \in 1..n /\ a[i] = b[j - m]
      BY <1>2, <1>4, <1>6, <2>3
    <3>2. QED
      BY <1>5, <3>1
  <2>4. CASE i > m /\ j <= m
    <3>1. j \in 1..m /\ i - m \in 1..n /\ a[j] = b[i - m]
      BY <1>2, <1>4, <1>6, <2>4
    <3>2. QED
      BY <1>5, <3>1
  <2>5. QED
    BY <1>2, <2>1, <2>2, <2>3, <2>4
<1>7. IsInjective(new)
  BY <1>4, <1>6 DEF IsInjective
<1>8. QED
  BY <1>3, <1>4, <1>7, ListsAreInjective

\* A page of a list.
LEMMA PageOfList ==
    ASSUME NEW seq \in Lists, NEW m \in Nat \ {0}, NEW n \in 0..Len(seq)
    PROVE  SubSeq(seq, m, n) \in Lists
<1>1. seq \in Seq(Req) /\ IsInjective(seq) /\ Len(seq) \in Nat /\ DOMAIN seq = 1..Len(seq)
  BY ListsAreInjective
<1>2. PICK page : page = SubSeq(seq, m, n)
  OBVIOUS
<1>3. PICK k \in Nat : k = IF m <= n THEN n - m + 1 ELSE 0
  <2>1. n \in Nat /\ m \in Nat
    BY <1>1
  <2>2. (IF m <= n THEN n - m + 1 ELSE 0) \in Nat
    BY <2>1
  <2>3. QED
    BY <2>2
<1>4. /\ page \in Seq(Req) /\ DOMAIN page = 1..k
      /\ \A i \in 1..k : m + i - 1 \in 1..Len(seq) /\ page[i] = seq[m + i - 1]
  BY <1>1, <1>2, <1>3
<1>5. ASSUME NEW i \in 1..k, NEW j \in 1..k, page[i] = page[j]
      PROVE  i = j
  <2>1. m + i - 1 = m + j - 1
    BY <1>1, <1>4, <1>5 DEF IsInjective
  <2>2. QED
    BY <1>3, <2>1
<1>6. IsInjective(page)
  BY <1>4, <1>5 DEF IsInjective
<1>7. QED
  BY <1>2, <1>4, <1>6, ListsAreInjective

LEMMA ListLength ==
    ASSUME NEW seq \in Lists
    PROVE  Len(seq) \in 0..Cardinality(Req) /\ DOMAIN seq = 1..Len(seq) /\ seq \in Seq(Req)
<1>1. PICK n \in 0..Cardinality(Req) : seq \in [1..n -> Req]
  BY DEF Lists
<1>2. Cardinality(Req) \in Nat
  BY FS_CardinalityType, ListAssumption DEF ListAssumption
<1>3. n \in Nat
  BY <1>2
<1>4. QED
  BY <1>1, <1>3

--------------------------------------------------------------------------------
(* The list of requirements: its bulk changes *)

\* Until it ends, a bulk change has changed the rows before the next one of ids.
Progress(t) ==
    /\ t.phase = "sent" => t.at = 1 /\ t.wrote = {}
    /\ t.phase = "running" =>
        /\ t.at <= Len(t.ids) + 1
        /\ t.wrote = { t.ids[i] : i \in 1..(t.at - 1) }
    /\ t.phase = "committed" => t.wrote = Sets(t.ids)
    /\ t.phase = "refused" => t.wrote = {}

BulkOK(t) == t # None => t \in BulkState /\ Progress(t)

LInv == ListTypeOK /\ \A b \in Bulk : BulkOK(tx[b])

\* What a state of the page owes besides its bulk changes.
PageOK ==
    /\ order \in Lists
    /\ closed \subseteq Req
    /\ openOnly \in BOOLEAN
    /\ offset \in Nat
    /\ listed \in [items : Lists, total : Nat]
    /\ selected \in Lists

TxOK ==
    /\ tx \in [Bulk -> BulkState \cup {None}]
    /\ \A b \in Bulk : BulkOK(tx[b])

LEMMA InvParts == LInv <=> PageOK /\ TxOK
  BY DEF LInv, PageOK, TxOK, ListTypeOK

\* A step of one bulk change leaves the others as they are.
LEMMA OneBulk ==
    ASSUME TxOK, NEW b \in Bulk, NEW t, BulkOK(t), tx' = [tx EXCEPT ![b] = t]
    PROVE  TxOK'
<1>1. t \in BulkState \cup {None}
  BY DEF BulkOK
<1>2. tx' \in [Bulk -> BulkState \cup {None}]
  BY <1>1 DEF TxOK
<1>3. ASSUME NEW o \in Bulk
      PROVE  BulkOK(tx[o])'
  <2>1. tx'[o] = IF o = b THEN t ELSE tx[o]
    BY DEF TxOK
  <2>2. PICK u : u = tx'[o]
    OBVIOUS
  <2>3. BulkOK(u)
    BY <2>1, <2>2 DEF TxOK
  <2>4. QED
    BY <2>2, <2>3 DEF BulkOK, Progress
<1>4. QED
  BY <1>2, <1>3 DEF TxOK

LEMMA BulkTyped ==
    ASSUME TxOK, NEW b \in Bulk, tx[b] # None
    PROVE  tx[b] \in BulkState /\ Progress(tx[b])
  BY DEF TxOK, BulkOK

LEMMA SentOK ==
    ASSUME NEW ids \in Lists \ {<<>>}
    PROVE  BulkOK([ids |-> ids, at |-> 1, wrote |-> {}, phase |-> "sent"])
<1>1. PICK t : t = [ids |-> ids, at |-> 1, wrote |-> {}, phase |-> "sent"]
  OBVIOUS
<1>2. Cardinality(Req) \in Nat
  BY FS_CardinalityType, ListAssumption DEF ListAssumption
<1>3. t \in BulkState
  BY <1>1, <1>2 DEF BulkState
<1>4. QED
  BY <1>1, <1>3 DEF BulkOK, Progress

LEMMA SendStep ==
    ASSUME LInv, NEW b \in Bulk, NEW ids \in Lists \ {<<>>}, SendBulk(b, ids)
    PROVE  LInv'
<1>1. TxOK'
  BY InvParts, SentOK, OneBulk DEF SendBulk
<1>2. PageOK'
  BY InvParts DEF SendBulk, PageOK
<1>3. QED
  BY <1>1, <1>2, InvParts DEF LInv, PageOK, TxOK, ListTypeOK

LEMMA BeginStep ==
    ASSUME LInv, NEW b \in Bulk, BeginBulk(b)
    PROVE  LInv'
<1>1. PICK t : t = [tx[b] EXCEPT !.phase =
                        IF Sets(tx[b].ids) \subseteq Sets(order) THEN "running" ELSE "refused"]
  OBVIOUS
<1>2. tx' = [tx EXCEPT ![b] = t]
  BY <1>1 DEF BeginBulk
<1>3. PICK o : o = tx[b]
  OBVIOUS
<1>4. o \in BulkState /\ Progress(o) /\ o.phase = "sent"
  BY <1>3, BulkTyped, InvParts DEF BeginBulk
<1>5. t \in BulkState
  BY <1>1, <1>3, <1>4 DEF BulkState
<1>6. Len(t.ids) \in Nat /\ t.at = 1 /\ t.wrote = {} /\ t.phase \in {"running", "refused"}
  BY <1>1, <1>3, <1>4, <1>5, ListLength DEF BulkState, Progress
<1>7. { t.ids[i] : i \in 1..(t.at - 1) } = {}
  BY <1>6
<1>8. BulkOK(t)
  BY <1>5, <1>6, <1>7 DEF BulkOK, Progress
<1>9. TxOK'
  BY <1>2, <1>8, InvParts, OneBulk
<1>10. PageOK'
  BY InvParts DEF BeginBulk, PageOK
<1>11. QED
  BY <1>9, <1>10 DEF LInv, PageOK, TxOK, ListTypeOK

LEMMA FailureOK ==
    ASSUME LInv, NEW b \in Bulk, tx[b] # None
    PROVE  BulkOK(AfterFailure(b))
  BY BulkTyped, InvParts DEF AfterFailure, BulkOK, BulkState, Progress

LEMMA FailureStep ==
    ASSUME LInv, NEW b \in Bulk, tx[b] # None, tx' = [tx EXCEPT ![b] = AfterFailure(b)],
           UNCHANGED <<order, closed, openOnly, offset, listed, selected>>
    PROVE  LInv'
<1>1. TxOK'
  BY InvParts, FailureOK, OneBulk
<1>2. PageOK'
  BY InvParts DEF PageOK
<1>3. QED
  BY <1>1, <1>2 DEF LInv, PageOK, TxOK, ListTypeOK

\* The row that is changed next is the first that has not been.
LEMMA ChangeStep ==
    ASSUME LInv, NEW b \in Bulk, ChangeNext(b)
    PROVE  LInv'
<1>1. PICK o : o = tx[b]
  OBVIOUS
<1>2. o # None /\ o.phase = "running" /\ o.at \in DOMAIN o.ids
  BY <1>1 DEF ChangeNext, Unfinished, Running
<1>3. o \in BulkState /\ Progress(o)
  BY <1>1, <1>2, BulkTyped, InvParts
<1>4. PICK ids, at : ids = o.ids /\ at = o.at
  OBVIOUS
<1>5. ids \in Lists
  BY <1>3, <1>4 DEF BulkState
<1>6. /\ Len(ids) \in 0..Cardinality(Req)
      /\ DOMAIN ids = 1..Len(ids)
      /\ ids \in Seq(Req)
      /\ Cardinality(Req) \in Nat
  BY <1>5, ListLength, FS_CardinalityType, ListAssumption DEF ListAssumption
<1>7. at \in Nat /\ at >= 1 /\ at <= Len(ids) /\ ids[at] \in Req
  BY <1>2, <1>4, <1>6
<1>8. o.wrote = { ids[i] : i \in 1..(at - 1) }
  BY <1>2, <1>3, <1>4 DEF Progress
<1>9. { ids[i] : i \in 1..(at - 1) } \cup {ids[at]} = { ids[i] : i \in 1..at }
  <2>1. 1..at = 1..(at - 1) \cup {at}
    BY <1>7
  <2>2. QED
    BY <2>1
<1>10. PICK t : t = [o EXCEPT !.wrote = o.wrote \cup {ids[at]}, !.at = at + 1]
  OBVIOUS
<1>11. tx' = [tx EXCEPT ![b] = t]
  BY <1>1, <1>4, <1>10 DEF ChangeNext, NextRow
<1>12. /\ t.ids = ids /\ t.at = at + 1 /\ t.phase = "running"
       /\ t.wrote = { ids[i] : i \in 1..at }
  BY <1>2, <1>3, <1>4, <1>8, <1>9, <1>10 DEF BulkState
<1>13. t \in BulkState
  <2>1. at + 1 \in 1..(Cardinality(Req) + 1)
    BY <1>6, <1>7
  <2>2. o.wrote \cup {ids[at]} \subseteq Req
    BY <1>3, <1>7 DEF BulkState
  <2>3. QED
    BY <1>3, <1>10, <2>1, <2>2 DEF BulkState
<1>14. at + 1 <= Len(ids) + 1 /\ (at + 1) - 1 = at
  BY <1>6, <1>7
<1>15. BulkOK(t)
  BY <1>12, <1>13, <1>14 DEF BulkOK, Progress
<1>16. TxOK'
  BY <1>11, <1>15, InvParts, OneBulk
<1>17. PageOK'
  BY InvParts DEF ChangeNext, PageOK
<1>18. QED
  BY <1>16, <1>17 DEF LInv, PageOK, TxOK, ListTypeOK

\* Committed is what has gone through all of ids.
LEMMA CommitStep ==
    ASSUME LInv, NEW b \in Bulk, CommitBulk(b)
    PROVE  LInv'
<1>1. PICK o : o = tx[b]
  OBVIOUS
<1>2. o # None /\ o.phase = "running" /\ o.at \notin DOMAIN o.ids
  BY <1>1 DEF CommitBulk, Unfinished, Running
<1>3. o \in BulkState /\ Progress(o)
  BY <1>1, <1>2, BulkTyped, InvParts
<1>4. PICK ids, at : ids = o.ids /\ at = o.at
  OBVIOUS
<1>5. ids \in Lists /\ at \in 1..(Cardinality(Req) + 1)
  BY <1>3, <1>4 DEF BulkState
<1>6. /\ Len(ids) \in Nat
      /\ DOMAIN ids = 1..Len(ids)
      /\ Cardinality(Req) \in Nat
  BY <1>5, ListLength, FS_CardinalityType, ListAssumption DEF ListAssumption
<1>7. at \in Nat /\ at <= Len(ids) + 1 /\ at >= 1
  BY <1>2, <1>3, <1>4, <1>5, <1>6 DEF Progress
<1>8. at = Len(ids) + 1
  BY <1>2, <1>4, <1>6, <1>7
<1>9. o.wrote = { ids[i] : i \in 1..(at - 1) }
  BY <1>2, <1>3, <1>4 DEF Progress
<1>10. o.wrote = Sets(ids)
  BY <1>6, <1>8, <1>9 DEF Sets
<1>11. PICK t : t = [o EXCEPT !.phase = "committed"]
  OBVIOUS
<1>12. tx' = [tx EXCEPT ![b] = t]
  BY <1>1, <1>11 DEF CommitBulk
<1>13. t \in BulkState
  BY <1>3, <1>11 DEF BulkState
<1>14. BulkOK(t)
  BY <1>3, <1>4, <1>10, <1>11, <1>13 DEF BulkOK, Progress, BulkState
<1>15. TxOK'
  BY <1>12, <1>14, InvParts, OneBulk
<1>16. PICK written \in Only(o.ids, o.wrote \cap Sets(order)),
            others \in Only(order, Req \ o.wrote) : order' = written \o others
  BY <1>1 DEF CommitBulk
<1>17. written \in Lists /\ others \in Lists /\ Sets(written) \cap Sets(others) = {}
  BY <1>16 DEF Only
<1>18. order' \in Lists
  BY <1>16, <1>17, ConcatOfLists
<1>19. closed' \subseteq Req
  <2>1. closed \subseteq Req /\ o.wrote \subseteq Req
    BY <1>3, InvParts DEF PageOK, BulkState
  <2>2. closed' \in {closed, closed \cup (o.wrote \cap Sets(order))}
    BY <1>1 DEF CommitBulk
  <2>3. QED
    BY <2>1, <2>2
<1>20. PageOK'
  BY <1>18, <1>19, InvParts DEF CommitBulk, PageOK
<1>21. QED
  BY <1>15, <1>20 DEF LInv, PageOK, TxOK, ListTypeOK

LEMMA AnswerStep ==
    ASSUME LInv, NEW b \in Bulk, BulkAnswered(b)
    PROVE  LInv'
<1>1. BulkOK(None)
  BY DEF BulkOK
<1>2. TxOK'
  BY <1>1, InvParts, OneBulk DEF BulkAnswered
<1>3. selected' \in Lists
  BY EmptyList, InvParts DEF BulkAnswered, PageOK
<1>4. PageOK'
  BY <1>3, InvParts DEF BulkAnswered, PageOK
<1>5. QED
  BY <1>2, <1>4 DEF LInv, PageOK, TxOK, ListTypeOK

LEMMA ServerStep ==
    ASSUME LInv, NEW b \in Bulk, Server(b)
    PROVE  LInv'
<1>1. CASE BeginBulk(b)
  BY <1>1, BeginStep
<1>2. CASE ChangeNext(b)
  BY <1>2, ChangeStep
<1>3. CASE ChangeFails(b)
  <2>1. tx[b] # None
    BY <1>3 DEF ChangeFails, Unfinished, Running
  <2>2. QED
    BY <1>3, <2>1, FailureStep DEF ChangeFails
<1>4. CASE Deadlock(b)
  <2>1. tx[b] # None
    BY <1>4 DEF Deadlock, WaitsFor, Unfinished, Running
  <2>2. QED
    BY <1>4, <2>1, FailureStep DEF Deadlock
<1>5. CASE CommitBulk(b)
  BY <1>5, CommitStep
<1>6. CASE BulkAnswered(b)
  BY <1>6, AnswerStep
<1>7. QED
  BY <1>1, <1>2, <1>3, <1>4, <1>5, <1>6 DEF Server

--------------------------------------------------------------------------------
(* The list of requirements: the page *)

\* A step of the page leaves the bulk changes alone.
LEMMA PageStep ==
    ASSUME LInv, UNCHANGED tx, PageOK'
    PROVE  LInv'
<1>1. TxOK'
  BY InvParts DEF TxOK, BulkOK, Progress
<1>2. QED
  BY <1>1 DEF LInv, PageOK, TxOK, ListTypeOK

LEMMA AnswersAreTyped ==
    ASSUME LInv
    PROVE  ListRequirements \subseteq [items : Lists, total : Nat]
<1>1. SUFFICES ASSUME NEW all \in Only(order, Matching)
               PROVE  [ items |-> SubSeq(all, offset + 1,
                                         IF offset + PageSize < Len(all) THEN offset + PageSize
                                         ELSE Len(all)),
                        total |-> Len(all) ] \in [items : Lists, total : Nat]
  BY DEF ListRequirements
<1>2. all \in Lists /\ Len(all) \in Nat
  BY <1>1, ListLength DEF Only
<1>3. offset \in Nat /\ PageSize \in Nat
  BY ListAssumption DEF LInv, ListTypeOK, ListAssumption
<1>4. PICK n : n = IF offset + PageSize < Len(all) THEN offset + PageSize ELSE Len(all)
  OBVIOUS
<1>5. n \in 0..Len(all) /\ offset + 1 \in Nat \ {0}
  BY <1>2, <1>3, <1>4
<1>6. SubSeq(all, offset + 1, n) \in Lists
  BY <1>2, <1>5, PageOfList
<1>7. QED
  BY <1>2, <1>4, <1>6

LEMMA ParamsStep ==
    ASSUME LInv, NEW filter \in BOOLEAN, NEW at \in Nat, SetParams(filter, at)
    PROVE  LInv'
<1>1. PageOK'
  BY InvParts DEF SetParams, PageOK
<1>2. QED
  BY <1>1, PageStep DEF SetParams

LEMMA MarkStep ==
    ASSUME LInv, NEW marks \in Lists, Mark(marks)
    PROVE  LInv'
<1>1. PageOK'
  BY InvParts DEF Mark, PageOK
<1>2. QED
  BY <1>1, PageStep DEF Mark

LEMMA ToggleStep ==
    ASSUME LInv, Toggle
    PROVE  LInv'
<1>1. listed.items \in Lists /\ selected \in Lists
  BY DEF LInv, ListTypeOK
<1>2. PICK r \in Sets(listed.items) :
        \E marks \in IF r \in Sets(selected) THEN Only(selected, Req \ {r})
                     ELSE {Append(selected, r)} : Mark(marks)
  BY DEF Toggle
<1>3. r \in Req
  BY <1>1, <1>2, ListLength DEF Sets
<1>4. CASE r \in Sets(selected)
  <2>1. PICK marks \in Only(selected, Req \ {r}) : Mark(marks)
    BY <1>2, <1>4
  <2>2. QED
    BY <2>1, MarkStep DEF Only
<1>5. CASE r \notin Sets(selected)
  <2>1. Mark(Append(selected, r))
    BY <1>2, <1>5
  <2>2. Append(selected, r) \in Lists
    BY <1>1, <1>3, <1>5, AppendToList
  <2>3. QED
    BY <2>1, <2>2, MarkStep
<1>6. QED
  BY <1>4, <1>5

\* A row that someone else touches moves to the front or leaves.
LEMMA OthersStep ==
    ASSUME LInv, NEW r \in Req, OthersChange(r)
    PROVE  LInv'
<1>1. PICK others \in Only(order, Req \ {r}) : order' \in {<<r>> \o others, others}
  BY DEF OthersChange
<1>2. others \in Lists /\ r \notin Sets(others)
  BY <1>1 DEF Only
<1>3. PICK one : one = <<r>>
  OBVIOUS
<1>4. one \in Lists /\ Sets(one) = {r}
  <2>1. one \in Seq(Req) /\ DOMAIN one = {1} /\ one[1] = r
    BY <1>3
  <2>2. IsInjective(one)
    BY <2>1 DEF IsInjective
  <2>3. QED
    BY <2>1, <2>2, ListsAreInjective DEF Sets
<1>5. one \o others \in Lists
  BY <1>2, <1>4, ConcatOfLists
<1>6. order' \in Lists
  BY <1>1, <1>2, <1>3, <1>5
<1>7. PageOK'
  BY <1>6, InvParts DEF OthersChange, PageOK
<1>8. QED
  BY <1>7, PageStep DEF OthersChange

LEMMA ListInitOK == ListInit => LInv
<1>1. SUFFICES ASSUME ListInit
               PROVE  LInv
  OBVIOUS
<1>2. /\ order \in Lists /\ closed \subseteq Req /\ openOnly \in BOOLEAN /\ offset = 0
      /\ selected \in Lists
  BY <1>1, EmptyList DEF ListInit
<1>3. TxOK
  BY <1>1 DEF ListInit, TxOK, BulkOK
<1>4. PICK all \in Only(order, Matching) :
        listed = [ items |-> SubSeq(all, offset + 1,
                                    IF offset + PageSize < Len(all) THEN offset + PageSize
                                    ELSE Len(all)),
                   total |-> Len(all) ]
  BY <1>1 DEF ListInit, ListRequirements
<1>5. all \in Lists /\ Len(all) \in Nat
  BY <1>4, ListLength DEF Only
<1>6. offset \in Nat /\ PageSize \in Nat
  BY <1>2, ListAssumption DEF ListAssumption
<1>7. PICK n : n = IF offset + PageSize < Len(all) THEN offset + PageSize ELSE Len(all)
  OBVIOUS
<1>8. n \in 0..Len(all) /\ offset + 1 \in Nat \ {0}
  BY <1>5, <1>6, <1>7
<1>9. SubSeq(all, offset + 1, n) \in Lists
  BY <1>5, <1>8, PageOfList
<1>10. listed \in [items : Lists, total : Nat]
  BY <1>4, <1>5, <1>7, <1>9
<1>11. QED
  BY <1>2, <1>3, <1>6, <1>10 DEF LInv, TxOK, ListTypeOK

LEMMA ListNextOK ==
    ASSUME LInv, [ListNext]_listVars
    PROVE  LInv'
<1>1. offset \in Nat /\ openOnly \in BOOLEAN /\ listed.items \in Lists /\ selected \in Lists
      /\ PageSize \in Nat
  BY ListAssumption DEF LInv, ListTypeOK, ListAssumption
<1>2. CASE Load
  <2>1. PageOK'
    BY <1>2, AnswersAreTyped, InvParts DEF Load, PageOK
  <2>2. QED
    BY <1>2, <2>1, PageStep DEF Load
<1>3. CASE SetFilter
  BY <1>3, ParamsStep DEF SetFilter
<1>4. CASE NextPage
  BY <1>1, <1>4, ParamsStep DEF NextPage
<1>5. CASE PreviousPage
  <2>1. (IF offset < PageSize THEN 0 ELSE offset - PageSize) \in Nat
    BY <1>1
  <2>2. QED
    BY <1>1, <1>5, <2>1, ParamsStep DEF PreviousPage
<1>6. CASE Toggle
  BY <1>6, ToggleStep
<1>7. CASE SelectAll
  BY <1>1, <1>7, EmptyList, MarkStep DEF SelectAll
<1>8. CASE CancelMarks
  BY <1>8, EmptyList, MarkStep DEF CancelMarks
<1>9. CASE RunBulk
  BY <1>1, <1>9, SendStep DEF RunBulk, Bulk
<1>10. CASE \E b \in Bulk : Server(b)
  BY <1>10, ServerStep
<1>11. CASE \E b \in Other : OthersBulk(b)
  BY <1>11, SendStep DEF OthersBulk, Bulk
<1>12. CASE \E r \in Req : OthersChange(r)
  BY <1>12, OthersStep
<1>13. CASE UNCHANGED listVars
  <2>1. PageOK'
    BY <1>13, InvParts DEF listVars, PageOK
  <2>2. QED
    BY <1>13, <2>1, PageStep DEF listVars
<1>14. QED
  BY <1>2, <1>3, <1>4, <1>5, <1>6, <1>7, <1>8, <1>9, <1>10, <1>11, <1>12, <1>13 DEF ListNext

\* What holds of the list page and of the bulk changes at every moment.
THEOREM ListInvariance == ListSpec => []LInv
<1>1. QED
  BY ListInitOK, ListNextOK, PTL DEF ListSpec

\* Every list that the page keeps is one of different rows, and a bulk change never counts
\* past its rows.
THEOREM ListTyped == ListSpec => []ListTypeOK
<1>1. LInv => ListTypeOK
  BY DEF LInv
<1>2. QED
  BY <1>1, ListInvariance, PTL

\* A bulk change that succeeded changed every row it was sent for, one that failed none,
\* for any number of rows and of other pages whose changes hold some of them.
THEOREM BulkWholeOrNot == ListSpec => []BulkIsAllOrNothing
<1>1. ASSUME LInv
      PROVE  BulkIsAllOrNothing
  <2>1. ASSUME NEW b \in Bulk, tx[b] # None
        PROVE  CASE tx[b].phase = "committed" -> tx[b].wrote = Sets(tx[b].ids)
                 [] tx[b].phase = "refused"   -> tx[b].wrote = {}
                 [] OTHER                     -> TRUE
    <3>1. PICK t : t = tx[b]
      OBVIOUS
    <3>2. Progress(t)
      BY <1>1, <2>1, <3>1, BulkTyped, InvParts
    <3>3. QED
      BY <3>1, <3>2 DEF Progress
  <2>2. QED
    BY <2>1 DEF BulkIsAllOrNothing
<1>2. QED
  BY <1>1, ListInvariance, PTL
================================================================================
