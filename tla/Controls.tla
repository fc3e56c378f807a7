------------------------------- MODULE Controls -------------------------------
(***************************************************************************)
(* The controls by which the pages and components of the web client change *)
(* something: fields, choices, and forms that create.  A control states    *)
(* where its value comes from, what sends it and under which guard, and    *)
(* what the answer does to it.                                             *)
(***************************************************************************)

\* A way to send: by leaving the field, by Enter, by a button or by a choice; needs a
\* text, or one that differs from what is cached; waits while the last request is pending.
Way(by, needs, waits) == [by |-> by, needs |-> needs, waits |-> waits]

\* shows: "stored", the cached value; "mount", a draft set when the component is
\*   mounted (defaultValue, useState); "open", one set when the user opens the editor;
\*   "follow", one that an effect sets whenever the cached value changes; "blank", the
\*   draft of something new.
\* after: what a successful answer does ("closesAtOnce": the component is gone when the
\*   request is sent).
\* kept: whether the component stays when the page turns to another record: "no",
\*   "ifLoaded" (the other is cached), "whileLoading" (the draft stays until the other
\*   has come), "always".
\* versioned: the request carries the cached version.  asks: by confirmDialog.
\* stashed: the draft is in sessionStorage, under the record it is for.
Control(name, shows, on, after) ==
    [ name |-> name, shows |-> shows, on |-> on, after |-> after,
      kept |-> "no", versioned |-> FALSE, asks |-> FALSE, stashed |-> FALSE ]

\* A select, a checkbox, a button.
Picks(name) == Control(name, "stored", {Way("pick", {}, FALSE)}, "stays")

\* One that leaves a choice of the present value alone, or is disabled while it is saved.
PicksOther(name) == Control(name, "stored", {Way("pick", {"change"}, TRUE)}, "stays")
PicksOnce(name) == Control(name, "stored", {Way("pick", {}, TRUE)}, "stays")

Asks(name) == [Picks(name) EXCEPT !.asks = TRUE]

\* <input defaultValue onBlur>: a name must not be empty.
Renames(name) == Control(name, "mount", {Way("leave", {"text", "change"}, FALSE)}, "stays")
Amends(name) == Control(name, "mount", {Way("leave", {"change"}, FALSE)}, "stays")

\* A form that creates, with or without a guard against a second press.
Adds(name) == Control(name, "blank", {Way("press", {"text"}, FALSE)}, "empties")
AddsOnce(name) == Control(name, "blank", {Way("press", {"text"}, TRUE)}, "empties")

--------------------------------------------------------------------------------
(* pages/RequirementDetail: title and header; its description is RequirementPage *)

RequirementTitle ==
    [ Control("RequirementDetail.title", "open",
              {Way("leave", {"text", "change"}, FALSE), Way("enter", {"text", "change"}, FALSE)},
              "closes")
      EXCEPT !.kept = "always" ]

RequirementWatch == Picks("RequirementDetail.watch")

RequirementMenu == {Picks("RequirementDetail.clone"), Asks("RequirementDetail.archive")}

RequirementFiles == Asks("RequirementDetail.files")

MoveToSpace == PicksOnce("RequirementDetail.move")

RequirementDetail == {RequirementTitle, RequirementWatch, RequirementFiles, MoveToSpace}
                        \cup RequirementMenu

--------------------------------------------------------------------------------
(* components/requirement, members *)

StatusSelect == [PicksOther("StatusSelect") EXCEPT !.asks = TRUE]

PrioritySelect == PicksOther("PrioritySelect")

ParentPicker == Picks("ParentPicker")

\* Mutant: without the effects on the cached values.
RequirementFields_NoEffects ==
    { Picks("RequirementFields.picks"), Amends("RequirementFields.done"),
      Amends("RequirementFields.estimate"),
      [AddsOnce("RequirementFields.time") EXCEPT !.kept = "ifLoaded"] }

\* Category, milestone, dates, labels, removal of an entry; the slider, let go of; the
\* estimate; a time entry.
RequirementFields ==
    LET Follows(name) ==
            [Control(name, "follow", {Way("leave", {"change"}, FALSE)}, "stays")
             EXCEPT !.kept = "ifLoaded"]
    IN  { Picks("RequirementFields.picks"), Follows("RequirementFields.done"),
          Follows("RequirementFields.estimate"),
          [AddsOnce("RequirementFields.time") EXCEPT !.kept = "ifLoaded"] }

LabelPicker ==
    {Picks("LabelPicker.toggle"), [AddsOnce("LabelPicker.new") EXCEPT !.kept = "ifLoaded"]}

MemberPicker == Picks("MemberPicker")

MemberManager == Picks("MemberManager")

AddLinkModal ==
    [ Control("AddLinkModal", "blank", {Way("press", {"text"}, TRUE)}, "closes")
      EXCEPT !.kept = "ifLoaded" ]

LinksPanel == Picks("LinksPanel.remove")

RequirementSubreqs == [AddsOnce("RequirementSubreqs.new") EXCEPT !.kept = "ifLoaded"]

\* Mutant: the buttons are not disabled while the requirement is created.
CreateRequirementModal_Again == Adds("CreateRequirementModal")

\* Both buttons wait.  Enter sends nothing: the form has several fields and no submit button.
CreateRequirementModal == AddsOnce("CreateRequirementModal")

Requirement ==
    { StatusSelect, PrioritySelect, ParentPicker, MemberPicker, MemberManager, AddLinkModal,
      LinksPanel, RequirementSubreqs, CreateRequirementModal }
        \cup RequirementFields \cup LabelPicker

--------------------------------------------------------------------------------
(* components/board *)

\* The textarea is mounted with the title; the backdrop, Enter and the button send it and
\* close at once.
CardQuickEditor ==
    { Control("CardQuickEditor.title", "mount",
              {Way("leave", {"text", "change"}, FALSE), Way("enter", {"text", "change"}, FALSE),
               Way("press", {"text", "change"}, FALSE)}, "closesAtOnce"),
      Picks("CardQuickEditor.picks"), Asks("CardQuickEditor.status"),
      Asks("CardQuickEditor.archive") }

\* Mounted for as long as the board is; it keeps both drafts from card to card.
CardQuickPanel ==
    { [ Control("CardQuickPanel.title", "open",
                {Way("leave", {"text"}, FALSE), Way("enter", {"text"}, FALSE)}, "closes")
        EXCEPT !.kept = "always" ],
      [ Control("CardQuickPanel.body", "open", {Way("press", {}, TRUE)}, "closes")
        EXCEPT !.kept = "always", !.versioned = TRUE ],
      Picks("CardQuickPanel.picks") }

--------------------------------------------------------------------------------
(* components/comments, documents, notifications; pages/DocumentsList, DocumentEditor *)

CommentItem ==
    { Control("CommentItem.edit", "open", {Way("press", {"text"}, TRUE)}, "closes"),
      Asks("CommentItem.remove") }

\* The button waits; Ctrl+Enter does not.
CommentComposer ==
    [ Control("CommentComposer", "blank",
              {Way("press", {"text"}, TRUE), Way("enter", {"text"}, FALSE)}, "empties")
      EXCEPT !.kept = "ifLoaded", !.stashed = TRUE ]

VersionHistory == [PicksOnce("VersionHistory.restore") EXCEPT !.asks = TRUE]

NotificationBell == Picks("NotificationBell.read")

\* The title of a new document is asked for in a dialog that closes with the answer.
NewDocument == [Adds("DocumentsList.new") EXCEPT !.after = "closesAtOnce"]

FavButton == Picks("DocumentsList.favorite")

DocumentMenu == {Picks("DocumentsList.restore"), Asks("DocumentsList.archive")}

MoveToFolder == Picks("DocumentsList.move")

DocumentMarks == Picks("DocumentEditor.marks")

DocumentType == Picks("DocumentEditor.type")

ArchiveDocument == Asks("DocumentEditor.archive")

PromoteDocument == PicksOnce("DocumentEditor.promote")

Documents ==
    { CommentComposer, VersionHistory, NotificationBell, NewDocument, FavButton, MoveToFolder,
      DocumentMarks, DocumentType, ArchiveDocument, PromoteDocument }
        \cup CommentItem \cup DocumentMenu

--------------------------------------------------------------------------------
(* components/admin; pages/SpaceSettings, SpaceSelector, Profile *)

StatusesAdmin ==
    { Picks("StatusesAdmin.picks"), Renames("StatusesAdmin.name"), Asks("StatusesAdmin.remove"),
      Adds("StatusesAdmin.new") }

TrackersAdmin ==
    { Picks("TrackersAdmin.picks"), Renames("TrackersAdmin.name"), Amends("TrackersAdmin.icon"),
      Amends("TrackersAdmin.template"), Adds("TrackersAdmin.new") }

PrioritiesAdmin ==
    { Picks("PrioritiesAdmin.picks"), Renames("PrioritiesAdmin.name"),
      Amends("PrioritiesAdmin.weight"), Adds("PrioritiesAdmin.new") }

\* The rules of a tracker, edited in a copy; the copy of one stays while another loads.
TransitionsAdmin ==
    [ Control("TransitionsAdmin", "follow", {Way("press", {"change"}, TRUE)}, "stays")
      EXCEPT !.kept = "whileLoading" ]

AgentsAdmin ==
    {Picks("AgentsAdmin.active"), Asks("AgentsAdmin.rotate"), Adds("AgentsAdmin.new")}

LabelsAdmin ==
    { Picks("LabelsAdmin.color"), Renames("LabelsAdmin.name"), Asks("LabelsAdmin.remove"),
      Adds("LabelsAdmin.new") }

CategoriesAdmin ==
    { Renames("CategoriesAdmin.name"), Amends("CategoriesAdmin.description"),
      Asks("CategoriesAdmin.remove"), Adds("CategoriesAdmin.new") }

MilestonesAdmin ==
    { Renames("MilestonesAdmin.name"), Picks("MilestonesAdmin.picks"),
      Asks("MilestonesAdmin.remove"), Adds("MilestonesAdmin.new") }

\* The rows are those of a column on any board: the key is the status.  The limit is sent
\* whenever its field is left.
BoardsAdmin ==
    { [Renames("BoardsAdmin.name") EXCEPT !.kept = "ifLoaded"],
      [Control("BoardsAdmin.wip", "mount", {Way("leave", {}, FALSE)}, "stays")
       EXCEPT !.kept = "ifLoaded"],
      Picks("BoardsAdmin.picks"), Adds("BoardsAdmin.new") }

UsersAdmin ==
    {AddsOnce("UsersAdmin.new"), Picks("UsersAdmin.picks"), Asks("UsersAdmin.password")}

SpaceMembersPanel ==
    { [AddsOnce("SpaceMembersPanel.add") EXCEPT !.kept = "ifLoaded"],
      Picks("SpaceMembersPanel.role"), Asks("SpaceMembersPanel.remove") }

SpaceSettings ==
    { Control("SpaceSettings.general", "follow", {Way("press", {}, TRUE)}, "stays"),
      Picks("SpaceSettings.archive") }

SpaceSelector == [AddsOnce("SpaceSelector.new") EXCEPT !.after = "closes"]

Profile ==
    { Control("Profile.user", "follow", {Way("press", {}, TRUE)}, "stays"),
      AddsOnce("Profile.password") }

Administration ==
    StatusesAdmin \cup TrackersAdmin \cup PrioritiesAdmin \cup {TransitionsAdmin}
        \cup AgentsAdmin \cup LabelsAdmin \cup CategoriesAdmin \cup MilestonesAdmin
        \cup BoardsAdmin \cup UsersAdmin \cup SpaceMembersPanel \cup SpaceSettings
        \cup {SpaceSelector} \cup Profile

--------------------------------------------------------------------------------

Controls ==
    RequirementDetail \cup Requirement \cup CardQuickEditor \cup CardQuickPanel
        \cup Documents \cup Administration
================================================================================
