-------------------------------- MODULE Forms --------------------------------
(***************************************************************************)
(* One control of the web client (Controls) at work: a browser, the        *)
(* records that its page can show, and a colleague.  Controls that differ  *)
(* by their name only do the same: they are looked at together.            *)
(*                                                                         *)
(* What the control shows is the cached value or a draft; it sends         *)
(* requests whose answers may come late, after other requests, after the   *)
(* page shows another record, or never.  The question is whether what is   *)
(* stored is what the user chose, for the record it is stored in, and as   *)
(* often.                                                                  *)
(***************************************************************************)
EXTENDS Controls, Naturals, Sequences

CONSTANTS
    Record, Text,
    Blank,       \* the empty text
    MaxSends, MaxTyped, MaxTurns, MaxChanges

ASSUME FormsAssumption == Blank \notin Text /\ MaxSends \in Nat /\ MaxTyped \in Nat
                            /\ MaxTurns \in Nat /\ MaxChanges \in Nat

VARIABLES
    control,    \* the control, nameless: it does not change
    row,        \* database: value and version of each record
    cache,      \* what react-query has of them
    shown,      \* the record that the page shows
    open,       \* the editor is open
    draft,      \* the text, the record it is for, whether the user wrote it, its number
    stash,      \* the drafts in sessionStorage
    asked,      \* the choice that confirmDialog asks about, if any
    sent,       \* the requests
    observer,   \* the last request of the mounted hook: only its callbacks run
    typed, turns,
    changes     \* how often the colleague has changed a record

vars ==
    << control, row, cache, shown, open, draft, stash, asked, sent, observer, typed, turns,
       changes >>

\* What controls that differ by their name only have in common.
Nameless(c) == [c EXCEPT !.name = ""]
Names == { c.name : c \in {c \in Controls : Nameless(c) = control} }

Texts == Text \cup {Blank}
Draft == [text : Texts, of : Record, written : BOOLEAN, entry : 0..MaxTyped]
Row == [val : Text, ver : 1..(MaxChanges + MaxSends + 1)]
Request ==
    [ rec : Record, val : Texts, ver : 1..(MaxChanges + MaxSends + 1), chosen : BOOLEAN,
      of : Record, entry : 0..MaxTyped, stored : BOOLEAN,
      state : {"sent", "stored", "refused", "answered", "lost"} ]

TypeOK ==
    /\ control \in { Nameless(c) : c \in Controls }
    /\ row \in [Record -> Row]
    /\ cache \in [Record -> Row]
    /\ shown \in Record
    /\ open \in BOOLEAN
    /\ draft \in Draft
    /\ stash \in [Record -> Draft]
    /\ asked \in {<<>>} \cup Record \X Text
    /\ sent \in Seq(Request)
    /\ observer \in 0..MaxSends
    /\ typed \in 0..MaxTyped
    /\ turns \in 0..MaxTurns
    /\ changes \in 0..MaxChanges

\* The draft of a component that has just been mounted.
Mounted(r, val) ==
    [ text |-> IF control.shows \in {"mount", "follow"} THEN val ELSE Blank,
      of |-> r, written |-> FALSE, entry |-> 0 ]

Init ==
    /\ control \in { Nameless(c) : c \in Controls }
    /\ \E val \in Text : row = [r \in Record |-> [val |-> val, ver |-> 1]]
    /\ cache = row
    /\ shown \in Record
    /\ open = (control.shows # "open")
    /\ draft = Mounted(shown, cache[shown].val)
    /\ stash = [r \in Record |-> Mounted(r, cache[r].val)]
    /\ asked = <<>>
    /\ sent = <<>>
    /\ observer = 0
    /\ typed = 0
    /\ turns = 0
    /\ changes = 0

--------------------------------------------------------------------------------
(* The user *)

Edit ==
    /\ ~open
    /\ open' = TRUE
    /\ draft' = [ Mounted(shown, cache[shown].val) EXCEPT
                    !.text = IF control.shows = "blank" THEN Blank ELSE cache[shown].val ]
    /\ UNCHANGED << control, row, cache, shown, stash, asked, sent, observer, typed,
                    turns, changes >>

\* Each text that the user writes is a new entry.
Type(val) ==
    /\ open
    /\ control.shows # "stored"
    /\ typed < MaxTyped
    /\ val # draft.text
    /\ typed' = typed + 1
    /\ draft' = [ text |-> val, written |-> TRUE, entry |-> typed + 1,
                  of |-> IF control.shows = "blank" /\ draft.text = Blank
                         THEN shown ELSE draft.of ]
    /\ UNCHANGED <<control, row, cache, shown, open, stash, asked, sent, observer, turns, changes>>

\* Escape, a button, or leaving it unchanged.
Cancel ==
    /\ open
    /\ control.shows = "open"
    /\ open' = FALSE
    /\ UNCHANGED << control, row, cache, shown, draft, stash, asked, sent, observer, typed,
                    turns, changes >>

Pending == observer # 0 /\ sent[observer].state \in {"sent", "stored", "refused"}

Allowed(way, val) ==
    /\ way.waits => ~Pending
    /\ "text" \in way.needs => val # Blank
    /\ "change" \in way.needs => val # cache[shown].val

\* mutate: the request goes out with the cached version.
Mutate(r, val, chosen, of, entry) ==
    /\ Len(sent) < MaxSends
    /\ sent' = Append(sent,
            [ rec |-> r, val |-> val, ver |-> cache[r].ver, chosen |-> chosen, of |-> of,
              entry |-> entry, stored |-> FALSE, state |-> "sent" ])

Choose(way, val) ==
    /\ way.by = "pick"
    /\ Allowed(way, val)
    /\ IF control.asks
       THEN /\ asked = <<>>
            /\ asked' = <<shown, val>>
            /\ UNCHANGED <<sent, observer>>
       ELSE /\ Mutate(shown, val, TRUE, shown, 0)
            /\ observer' = Len(sent')
            /\ UNCHANGED asked
    /\ UNCHANGED <<control, row, cache, shown, open, draft, stash, typed, turns, changes>>

\* confirmDialog is answered: the choice goes to the record it was asked about.
Confirm(yes) ==
    /\ asked # <<>>
    /\ asked' = <<>>
    /\ IF yes THEN /\ Mutate(asked[1], asked[2], TRUE, asked[1], 0)
                   /\ observer' = Len(sent')
              ELSE UNCHANGED <<sent, observer>>
    /\ UNCHANGED <<control, row, cache, shown, open, draft, stash, typed, turns, changes>>

\* Leaving a field sends what it holds; a key or a button is a decision to.
Send(way) ==
    /\ open
    /\ way.by # "pick"
    /\ Allowed(way, draft.text)
    /\ Mutate(shown, draft.text, draft.written \/ way.by # "leave", draft.of, draft.entry)
    /\ IF control.after = "closesAtOnce"
       THEN open' = FALSE /\ observer' = 0
       ELSE observer' = Len(sent') /\ UNCHANGED open
    /\ UNCHANGED <<control, row, cache, shown, draft, stash, asked, typed, turns, changes>>

--------------------------------------------------------------------------------
(* The server *)

Becomes(i, state) == sent' = [sent EXCEPT ![i].state = state]

\* A creation adds a record; a change of a versioned value must be of the present one.
Store(i) ==
    LET q == sent[i]
    IN  /\ q.state = "sent"
        /\ control.versioned => q.ver = row[q.rec].ver
        /\ row' = IF control.shows = "blank" \/ q.val = Blank THEN row
                  ELSE [row EXCEPT ![q.rec] = [val |-> q.val, ver |-> @.ver + 1]]
        /\ sent' = [sent EXCEPT ![i].state = "stored", ![i].stored = TRUE]
        /\ UNCHANGED << control, cache, shown, open, draft, stash, asked, observer, typed,
                        turns, changes >>

\* A conflict, or whatever else the handlers check: the role, a closed requirement, ...
Refuse(i) ==
    /\ sent[i].state = "sent"
    /\ Becomes(i, "refused")
    /\ UNCHANGED << control, row, cache, shown, open, draft, stash, asked, observer, typed,
                    turns, changes >>

Colleague(r, val) ==
    /\ row[r].val # val
    /\ changes < MaxChanges
    /\ changes' = changes + 1
    /\ row' = [row EXCEPT ![r] = [val |-> val, ver |-> @.ver + 1]]
    /\ UNCHANGED <<control, cache, shown, open, draft, stash, asked, sent, observer, typed, turns>>

--------------------------------------------------------------------------------
(* The browser *)

\* onSuccess of mutate: only of the last request of a hook that is still mounted.
Answer(i) ==
    LET ends == sent[i].state = "stored" /\ observer = i
    IN  /\ sent[i].state \in {"stored", "refused"}
        /\ Becomes(i, "answered")
        /\ open' = (open /\ ~(ends /\ control.after = "closes"))
        /\ IF ends /\ control.after = "empties"
           THEN /\ draft' = Mounted(shown, Blank)
                /\ stash' = [stash EXCEPT ![sent[i].rec] = Mounted(sent[i].rec, Blank)]
           ELSE UNCHANGED <<draft, stash>>
        /\ UNCHANGED <<control, row, cache, shown, asked, observer, typed, turns, changes>>

\* The request or its answer is lost: an error like any other.
Lose(i) ==
    /\ sent[i].state \in {"sent", "stored"}
    /\ Becomes(i, "lost")
    /\ UNCHANGED << control, row, cache, shown, open, draft, stash, asked, observer, typed,
                    turns, changes >>

\* What the user wrote has been stored: from the next answer on, it is no change any more.
Shared(r) ==
    r = draft.of /\ \E i \in DOMAIN sent :
        sent[i].stored /\ sent[i].rec = r /\ sent[i].entry = draft.entry

\* The cached value changes, and the effect of a control that follows it sets the draft.
Refetch(r) ==
    /\ cache[r] # row[r]
    /\ cache' = [cache EXCEPT ![r] = row[r]]
    /\ draft' = IF r = shown /\ control.shows = "follow" /\ cache[r].val # row[r].val
                THEN Mounted(r, row[r].val)
                ELSE [draft EXCEPT !.written = @ /\ ~Shared(r)]
    /\ UNCHANGED <<control, row, shown, open, stash, asked, sent, observer, typed, turns, changes>>

Keeps == [ no |-> {FALSE}, ifLoaded |-> BOOLEAN, whileLoading |-> BOOLEAN, always |-> {TRUE} ]

\* The draft that stays: an effect may set it to the value of the other record.
Staying(r) ==
    IF control.shows = "follow" /\ control.kept = "ifLoaded" /\ cache[r].val # cache[shown].val
    THEN Mounted(r, cache[r].val) ELSE draft

\* The page turns to another record.  A component that stays keeps its state, and its
\* draft is stored as the other's; one that is mounted anew takes up the draft stored.
Turn(r, keep) ==
    /\ turns < MaxTurns
    /\ r # shown
    /\ keep \in Keeps[control.kept]
    /\ turns' = turns + 1
    /\ shown' = r
    /\ IF keep
       THEN /\ draft' = Staying(r)
            /\ stash' = IF control.stashed
                        THEN [stash EXCEPT ![shown] = draft, ![r] = draft] ELSE stash
            /\ UNCHANGED <<open, observer>>
       ELSE /\ draft' = IF control.stashed THEN stash[r] ELSE Mounted(r, cache[r].val)
            /\ stash' = IF control.stashed THEN [stash EXCEPT ![shown] = draft] ELSE stash
            /\ open' = (control.shows # "open")
            /\ observer' = 0
    /\ UNCHANGED <<control, row, cache, asked, sent, typed, changes>>

--------------------------------------------------------------------------------

Next ==
    \/ Edit \/ Cancel
    \/ \E val \in Texts : Type(val)
    \/ \E way \in control.on : Send(way) \/ \E val \in Text : Choose(way, val)
    \/ \E yes \in BOOLEAN : Confirm(yes)
    \/ \E i \in DOMAIN sent : Store(i) \/ Refuse(i) \/ Answer(i) \/ Lose(i)
    \/ \E r \in Record : Refetch(r)
    \/ \E r \in Record, val \in Text : Colleague(r, val)
    \/ \E r \in Record, keep \in BOOLEAN : Turn(r, keep)

Spec == Init /\ [][Next]_vars

--------------------------------------------------------------------------------
(* Properties *)

\* Controls that send a draft nobody wrote when their field is left: it has been mounted,
\* or opened, before a colleague changed the value, and the guard takes the difference
\* for a change of the user's.
Reverting ==
    { "RequirementDetail.title", "CardQuickPanel.title", "CardQuickEditor.title",
      "StatusesAdmin.name", "TrackersAdmin.name", "TrackersAdmin.icon",
      "TrackersAdmin.template", "PrioritiesAdmin.name", "PrioritiesAdmin.weight",
      "LabelsAdmin.name", "CategoriesAdmin.name", "CategoriesAdmin.description",
      "MilestonesAdmin.name", "BoardsAdmin.name", "BoardsAdmin.wip" }

\* Controls that stay when the page turns to another record, with the draft for the first.
Carrying ==
    { "RequirementDetail.title", "CardQuickPanel.title", "CardQuickPanel.body",
      "RequirementFields.done", "RequirementFields.estimate", "RequirementFields.time",
      "LabelPicker.new", "AddLinkModal", "RequirementSubreqs.new", "CommentComposer",
      "TransitionsAdmin", "BoardsAdmin.name", "BoardsAdmin.wip", "SpaceMembersPanel.add" }

\* Forms that can be sent again while the first request is under way.
Unguarded ==
    { "CommentComposer", "StatusesAdmin.new", "TrackersAdmin.new", "PrioritiesAdmin.new",
      "AgentsAdmin.new", "LabelsAdmin.new", "CategoriesAdmin.new", "MilestonesAdmin.new",
      "BoardsAdmin.new" }

Stored == { i \in DOMAIN sent : sent[i].stored }

\* A control that follows the value does not notice that a colleague has put back the one
\* that is cached: it keeps the text that the user has sent, and may send it again.
SentAgain(i) ==
    /\ control.shows = "follow"
    /\ \E j \in Stored :
        /\ j < i /\ sent[j].chosen
        /\ sent[j].rec = sent[i].rec /\ sent[j].val = sent[i].val
        /\ sent[j].entry = sent[i].entry

\* What is stored was written by the user or sent by a decision of theirs, and for the
\* record it is stored in; apart from the controls named above.
StoredWasChosen ==
    \A i \in Stored :
        IF sent[i].of = sent[i].rec
        THEN sent[i].chosen \/ SentAgain(i) \/ Names \subseteq Reverting
        ELSE Names \subseteq Carrying

\* What the user writes once into a form creates one record, unless an answer was lost;
\* apart from the forms named above.
OneEntryOneRecord ==
    \A i, j \in Stored :
        control.shows = "blank" /\ i < j /\ sent[i].entry = sent[j].entry =>
            sent[i].state = "lost" \/ Names \subseteq Unguarded
================================================================================
