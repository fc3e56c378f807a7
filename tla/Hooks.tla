-------------------------------- MODULE Hooks --------------------------------
(***************************************************************************)
(* The queries and mutations of web/src/hooks, each with the database rows *)
(* it reads or writes, and what the change events say of the rows.         *)
(*                                                                         *)
(* A row is <<table, document or space>>; it stands for all rows of that   *)
(* table that belong there.  One space is looked at, with a requirement    *)
(* "req", its parent "epic" and a note "note", linked with req; "new" and  *)
(* "newnote" are created while the pages of the others are open.           *)
(* A query states the rows it is about (of), the rows joined to them       *)
(* (with), and those of either that change without an event that names the *)
(* query (unheard).  A mutation states what it writes, what its hook sets  *)
(* and invalidates, and the queries about its rows that the hook leaves    *)
(* alone (forgets).                                                        *)
(***************************************************************************)
EXTENDS Sequences, SequencesExt, FiniteSets

Requirements == {"req", "epic", "new"}
Notes == {"note", "newnote"}
Documents == Requirements \cup Notes
Parent(x) == "epic"
Linked(x) == IF x = "req" THEN "note" ELSE "req"

space == <<"space", "sp">>
requirement(x) == <<"requirement", x>>
document(x) == <<"document", x>>

Rows(table, owners) == { <<table, x>> : x \in owners }

\* Names and colours that projections join by id.
Names == Rows("name", {"user", "agent", "tracker", "status", "priority"})

\* requirementSummary: a row of the lists
Summary(xs) ==
    Rows("requirement", xs) \cup Rows("document", xs) \cup Rows("space_id", xs)
        \cup Rows("label", {"sp"}) \cup Rows("document_label", xs)
        \cup Rows("requirement_member", xs) \cup Names

\* Rows without a trigger, or whose event does not name the space they left.
Silent == Rows("label", {"sp"}) \cup Names

--------------------------------------------------------------------------------
(* Queries *)

UseRequirementPage ==
    [ key |-> space \o <<"requirements", "filters">>, of |-> Rows("requirement", Requirements),
      with |-> Summary(Requirements), unheard |-> Silent \cup Rows("space_id", Requirements) ]

UseRequirement(x) ==
    [ key |-> requirement(x) \o <<"detail">>, of |-> {requirement(x), document(x)},
      with |-> Summary({x}) \cup {document(Parent(x)), <<"watcher", x>>, <<"space_member", "sp">>},
      unheard |-> Silent \cup {<<"watcher", x>>, <<"space_member", "sp">>}
                    \cup ({document(Parent(x))} \ {document(x)}) ]

UseAllowedTransitions(x) ==
    [ key |-> requirement(x) \o <<"transitions">>, of |-> {},
      with |-> {requirement(x), <<"workflow_transition", "t">>, <<"space_member", "sp">>},
      unheard |-> {<<"workflow_transition", "t">>, <<"space_member", "sp">>} ]

UseRequirementMembers(x) ==
    [ key |-> requirement(x) \o <<"members">>, of |-> {<<"requirement_member", x>>},
      with |-> Names, unheard |-> Names ]

\* The sub-requirements: those of epic.
UseRequirementChildren(x) ==
    [ key |-> requirement(x) \o <<"children">>, of |-> {<<"child", x>>},
      with |-> IF x = "epic" THEN Summary({"req"}) ELSE {},
      unheard |-> {<<"child", x>>} \cup (IF x = "epic" THEN Summary({"req"}) ELSE {}) ]

UseTimeEntries(x) ==
    [ key |-> requirement(x) \o <<"time-entries">>, of |-> {<<"time_entry", x>>},
      with |-> Names, unheard |-> Names ]

UseJournals(x, kind) ==
    [ key |-> requirement(x) \o <<"journals", kind>>, of |-> {<<kind, x>>},
      with |-> Names \cup (IF kind = "comment" THEN {<<"attachment", x>>} ELSE {}),
      unheard |-> Names ]

UseAttachments(x) ==
    [ key |-> requirement(x) \o <<"attachments", "scope">>, of |-> {<<"attachment", x>>},
      with |-> Names, unheard |-> Names ]

\* Links in both directions, with title and status of the other document.
UseLinks(x) ==
    [ key |-> requirement(x) \o <<"links">>, of |-> {<<"document_link", x>>},
      with |-> {<<"document_link", Linked(x)>>, document(Linked(x)), requirement(Linked(x))} \cup Names,
      unheard |-> {<<"document_link", Linked(x)>>, document(Linked(x)), requirement(Linked(x))}
                    \cup Names ]

UseBacklinks(x) ==
    [ key |-> requirement(x) \o <<"backlinks">>, of |-> {},
      with |-> {<<"document_link", Linked(x)>>, document(Linked(x)), requirement(Linked(x))} \cup Names,
      unheard |-> {<<"document_link", Linked(x)>>, document(Linked(x)), requirement(Linked(x))}
                    \cup Names ]

UseDocuments ==
    [ key |-> space \o <<"documents", "filters">>, of |-> Rows("document", Notes),
      with |-> Rows("document_favorite", Notes) \cup Rows("document_label", Notes)
                    \cup Rows("space_id", Notes) \cup {<<"label", "sp">>, <<"name", "user">>},
      unheard |-> Rows("space_id", Notes) \cup {<<"label", "sp">>, <<"name", "user">>} ]

UseDocument(x) ==
    [ key |-> document(x) \o <<"detail">>, of |-> {document(x)},
      with |-> {<<"document_favorite", x>>, <<"watcher", x>>, <<"document_label", x>>,
                <<"label", "sp">>, <<"name", "user">>, <<"folder", x>>},
      unheard |-> {<<"watcher", x>>, <<"label", "sp">>, <<"name", "user">>, <<"folder", x>>} ]

UseDocumentHistory(x) ==
    [ key |-> document(x) \o <<"history">>, of |-> {<<"document_version", x>>},
      with |-> Names, unheard |-> Names ]

\* A version never changes (staleTime: Infinity).
UseDocumentVersion(x) ==
    [ key |-> document(x) \o <<"version", "v">>, of |-> {}, with |-> {}, unheard |-> {} ]

UseBoard ==
    [ key |-> space \o <<"board", "b", "closedDays">>, of |-> Rows("requirement", Requirements),
      with |-> Summary(Requirements) \cup Rows("comment", Requirements)
                    \cup Rows("attachment", Requirements) \cup {<<"board_column", "b">>},
      unheard |-> Silent \cup Rows("space_id", Requirements) \cup {<<"board_column", "b">>} ]

UseBoards ==
    [ key |-> space \o <<"boards">>, of |-> {<<"board", "sp">>},
      with |-> {}, unheard |-> {<<"board", "sp">>} ]

UseAgentQueue ==
    [ key |-> space \o <<"agent-queue">>, of |-> {}, with |-> Summary(Requirements),
      unheard |-> Silent \cup Rows("space_id", Requirements) ]

UseMyWork ==
    [ key |-> <<"my-work">>, of |-> {},
      with |-> Summary(Requirements) \cup Rows("watcher", Requirements) \cup {<<"notification", "me">>},
      unheard |-> Summary(Requirements) \cup Rows("watcher", Requirements) ]

UseNotificationCount ==
    [ key |-> <<"notifications", "count">>, of |-> {<<"notification", "me">>},
      with |-> {}, unheard |-> {} ]

UseNotifications ==
    [ key |-> <<"notifications", "list">>, of |-> {<<"notification", "me">>},
      with |-> Rows("document", Documents) \cup Names,
      unheard |-> Rows("document", Documents) \cup Names ]

\* What is suggested, resolved or found while the user types: titles, kept for staleTime.
Lookup(key) ==
    [ key |-> key, of |-> {}, with |-> Rows("document", Documents) \cup Names,
      unheard |-> Rows("document", Documents) \cup Names ]

UseSuggest == Lookup(space \o <<"suggest", "types", "q">>)
UseResolvedRefs == Lookup(space \o <<"refs", "keys">>)
UseSearch == Lookup(<<"search", "q", "sp">>)

\* The list of one table whose changes no trigger announces.
Catalogue(key, row, with) == [ key |-> key, of |-> {row}, with |-> with, unheard |-> {row} \cup with ]

UseSpaces == Catalogue(<<"spaces", "archived">>, space, {<<"space_member", "sp">>, <<"space", "new">>}
                        \cup Rows("requirement", Requirements))
UseSpace == Catalogue(space \o <<"detail">>, space, {<<"space_member", "sp">>})
UseSpaceMembers == Catalogue(space \o <<"members">>, <<"space_member", "sp">>, {<<"name", "user">>})
UseSpaceLabels == Catalogue(space \o <<"labels">>, <<"label", "sp">>, {})
UseMilestones == Catalogue(space \o <<"milestones">>, <<"milestone", "sp">>,
                    Rows("requirement", Requirements))
UseCategories == Catalogue(space \o <<"categories">>, <<"category", "sp">>, {})
UseSavedViews == Catalogue(space \o <<"views">>, <<"saved_view", "sp">>, {})
UseTrackers == Catalogue(<<"catalogs", "trackers", "all">>, <<"name", "tracker">>, {})
UsePriorities == Catalogue(<<"catalogs", "priorities">>, <<"name", "priority">>, {})
UseStatuses == Catalogue(<<"catalogs", "statuses">>, <<"name", "status">>, {})
UseTransitions == Catalogue(<<"admin", "transitions", "t">>, <<"workflow_transition", "t">>, {})
UseAgents == Catalogue(<<"admin", "agents">>, <<"name", "agent">>, {<<"claims", "agent">>})
UseUsers == Catalogue(<<"users">>, <<"name", "user">>, {})

Queries ==
    UNION { {UseRequirement(x), UseAllowedTransitions(x), UseRequirementMembers(x),
             UseRequirementChildren(x), UseTimeEntries(x), UseJournals(x, "comment"),
             UseJournals(x, "history"), UseAttachments(x), UseLinks(x), UseBacklinks(x)}
            : x \in {"req", "epic"} }
    \cup {UseLinks("note"), UseDocument("note"), UseDocumentHistory("note"),
          UseDocumentVersion("note")}
    \cup {UseRequirementPage, UseDocuments, UseBoard, UseBoards, UseAgentQueue, UseMyWork,
          UseNotificationCount, UseNotifications, UseSuggest, UseResolvedRefs, UseSearch,
          UseSpaces, UseSpace, UseSpaceMembers, UseSpaceLabels, UseMilestones, UseCategories,
          UseSavedViews, UseTrackers, UsePriorities, UseStatuses, UseTransitions, UseAgents,
          UseUsers}

--------------------------------------------------------------------------------
(* Mutations *)

Hook(writes, sets, invalidates, forgets) ==
    [writes |-> writes, sets |-> sets, invalidates |-> invalidates, forgets |-> forgets]

\* A change of one row, after which its list is invalidated.
Edit(row, list) == Hook({row}, {}, {list}, {})

history(x) == requirement(x) \o <<"journals", "history">>
detail(x) == requirement(x) \o <<"detail">>
children(x) == requirement(x) \o <<"children">>
requirementLists == {space \o <<"requirements", "filters">>, space \o <<"board", "b", "closedDays">>}

\* "After any change to a requirement: refresh lists/boards of its space and its
\* history."
RequirementRefresh(x) ==
    {space \o <<"requirements">>, space \o <<"board">>, history(x), <<"my-work">>}

UseCreateRequirement ==
    Hook(Rows("requirement", {"new"}) \cup Rows("document", {"new"})
            \cup Rows("requirement_member", {"new"}) \cup {<<"child", "epic">>},
         {detail("new")},
         {space \o <<"requirements">>, space \o <<"board">>, children("epic")}, {})

\* A patch writes the fields of the row, the document and the links of its text, or the
\* parent; links and sub-requirements are left to the change event, or to nobody.
UseUpdateRequirement(x) ==
    { Hook(rows \cup {requirement(x), <<"history", x>>}, {detail(x)}, RequirementRefresh(x),
           {children("epic"), requirement(x) \o <<"links">>})
      : rows \in {{}, {document(x), <<"document_version", x>>, <<"document_link", x>>},
                  {<<"child", "epic">>}} }

UseTransitionRequirement(x) ==
    Hook({requirement(x), <<"history", x>>}, {detail(x)},
         RequirementRefresh(x) \cup {requirement(x) \o <<"transitions">>}, {})

\* With what the board does when its move succeeds.
UseMoveCard(x) ==
    Hook({requirement(x), <<"history", x>>}, {},
         {requirement(x), space \o <<"requirements">>, space \o <<"board", "b", "closedDays">>}, {})

\* The board's key for joining and leaving a card.
JoinCard(x) ==
    Hook({requirement(x), <<"requirement_member", x>>, <<"history", x>>}, {},
         {requirement(x), space \o <<"board", "b", "closedDays">>},
         {space \o <<"requirements", "filters">>})

MemberRows(x) == {requirement(x), <<"requirement_member", x>>, <<"history", x>>, <<"watcher", x>>}

UseSetRequirementMembers(x) ==
    Hook(MemberRows(x), {requirement(x) \o <<"members">>},
         RequirementRefresh(x) \cup {detail(x)}, {})

UseSetRequirementLead(x) ==
    Hook(MemberRows(x), {},
         RequirementRefresh(x) \cup {detail(x), requirement(x) \o <<"members">>}, {})

\* usage_count of the label changes too; its list is left alone.
UseDocumentLabels(x) ==
    Hook({<<"document_label", x>>, <<"label", "sp">>, <<"history", x>>}, {},
         RequirementRefresh(x) \cup {detail(x), document(x) \o <<"detail">>, space \o <<"documents">>},
         {space \o <<"labels">>})

UseCloneRequirement ==
    Hook({requirement("new"), document("new"), <<"document_link", "new">>}, {}, {space}, {})

UseArchiveDocument(x) ==
    Hook({document(x), <<"history", x>>, <<"child", "epic">>}, {},
         {space, requirement(x), document(x)}, {children("epic")})

\* The rest of a requirement's rows follow it; their queries hear of the document.
UseMoveRequirementToSpace(x) ==
    Hook({<<"space_id", x>>, <<"child", "epic">>}, {}, {<<>>}, {})

UseBulkUpdate ==
    { Hook(rows \cup Rows("history", {"req", "epic"}), {}, {space, <<"requirement">>}, {})
      : rows \in {Rows("requirement", {"req", "epic"}), Rows("document_label", {"req", "epic"}),
                  Rows("requirement", {"req", "epic"}) \cup Rows("requirement_member", {"req", "epic"})} }

UseTimeEntryMutations(x) ==
    Hook({<<"time_entry", x>>, requirement(x), <<"history", x>>}, {},
         RequirementRefresh(x) \cup {detail(x), requirement(x) \o <<"time-entries">>}, {})

UseWatch(x) ==
    Hook({<<"watcher", x>>}, {}, {detail(x), document(x) \o <<"detail">>}, {})

\* A comment brings links and files with it.
UseCommentMutations(x) ==
    Hook({<<"comment", x>>, <<"attachment", x>>, <<"document_link", x>>, <<"watcher", x>>}, {},
         {requirement(x) \o <<"journals">>, requirement(x) \o <<"attachments">>, detail(x)},
         {requirement(x) \o <<"links">>})

InvalidateAttachments(x) ==
    Hook({<<"attachment", x>>, <<"history", x>>}, {},
         {requirement(x) \o <<"attachments">>, history(x), detail(x)}, {})

UseCreateLink(x) ==
    Hook({<<"document_link", x>>, <<"history", x>>}, {},
         {requirement(x) \o <<"links">>, history(x), requirement(Linked(x)) \o <<"links">>}, {})

UseRemoveLink(x) ==
    Hook({<<"document_link", x>>, <<"history", x>>}, {},
         {requirement(x) \o <<"links">>, history(x)}, {})

UseCreateDocument ==
    Hook({document("newnote"), <<"document_version", "newnote">>},
         {document("newnote") \o <<"detail">>}, {space \o <<"documents">>}, {})

UseUpdateDocument(x) ==
    Hook({document(x), <<"document_version", x>>, <<"document_link", x>>},
         {document(x) \o <<"detail">>},
         {space \o <<"documents">>, document(x) \o <<"history">>, requirement(x) \o <<"links">>}, {})

UseMoveDocument(x) ==
    Hook({document(x), <<"folder", x>>}, {document(x) \o <<"detail">>},
         {space \o <<"documents">>}, {})

\* The lists, and the links of the restored text, are left to the change event.
UseRestoreVersion(x) ==
    Hook({document(x), <<"document_version", x>>, <<"document_link", x>>},
         {document(x) \o <<"detail">>}, {document(x) \o <<"history">>, detail(x)},
         {space \o <<"documents", "filters">>, requirement(x) \o <<"links">>})

UseFavorite(x) ==
    Hook({<<"document_favorite", x>>, document(x)}, {},
         {document(x) \o <<"detail">>, space \o <<"documents">>}, {})

UsePromoteDocument(x) ==
    Hook({document(x), requirement("new"), <<"history", x>>}, {}, {space},
         {document(x) \o <<"detail">>})

UseCreateSpace == Edit(<<"space", "new">>, <<"spaces">>)
UseUpdateSpace == Hook({space}, {}, {space \o <<"detail">>, <<"spaces">>}, {})
UseSpaceMemberMutations == Edit(<<"space_member", "sp">>, space \o <<"members">>)

UseSaveLabel == Edit(<<"label", "sp">>, space \o <<"labels">>)
UseDeleteLabel ==
    Hook({<<"label", "sp">>} \cup Rows("document_label", Documents), {}, {space \o <<"labels">>}, {})
UseSaveMilestone == Edit(<<"milestone", "sp">>, space \o <<"milestones">>)

\* The foreign key empties the column of the requirements.
UseDeleteMilestone ==
    Hook({<<"milestone", "sp">>} \cup Rows("requirement", Requirements), {},
         {space \o <<"milestones">>}, requirementLists \cup {detail("req"), detail("epic")})
UseSaveCategory == Edit(<<"category", "sp">>, space \o <<"categories">>)
UseDeleteCategory ==
    Hook({<<"category", "sp">>} \cup Rows("requirement", Requirements), {},
         {space \o <<"categories">>}, requirementLists \cup {detail("req"), detail("epic")})

UseAdminCatalogMutations ==
    { Hook({<<"name", "status">>}, {}, {<<"catalogs", "statuses">>, <<"space">>}, {}),
      Edit(<<"name", "tracker">>, <<"catalogs", "trackers">>),
      Edit(<<"name", "priority">>, <<"catalogs", "priorities">>) }
UseReplaceTransitions == Edit(<<"workflow_transition", "t">>, <<"admin", "transitions", "t">>)
UseAgentMutations == Edit(<<"name", "agent">>, <<"admin", "agents">>)

UseUserMutations == Edit(<<"name", "user">>, <<"users">>)

\* Sets ["me"], which no query reads; the list of users keeps the old name.
UseUpdateMe == Hook({<<"name", "user">>}, {<<"me">>}, {}, {<<"users">>})

UseNotificationMutations == Edit(<<"notification", "me">>, <<"notifications">>)
UseSavedViewMutations == Edit(<<"saved_view", "sp">>, space \o <<"views">>)
UseCreateBoard == Edit(<<"board", "sp">>, space \o <<"boards">>)
UseUpdateBoardColumn == Edit(<<"board_column", "b">>, space \o <<"board", "b">>)

OwnMutations ==
    UNION { UseUpdateRequirement(x) \cup
            {UseTransitionRequirement(x), UseMoveCard(x), JoinCard(x), UseSetRequirementMembers(x),
             UseSetRequirementLead(x), UseArchiveDocument(x), UseMoveRequirementToSpace(x),
             UseTimeEntryMutations(x), UseDocumentLabels(x), UseWatch(x), UseCommentMutations(x),
             InvalidateAttachments(x), UseCreateLink(x), UseRemoveLink(x)} : x \in {"req"} }
    \cup UNION { {UseUpdateDocument(x), UseMoveDocument(x), UseRestoreVersion(x), UseFavorite(x),
                  UsePromoteDocument(x), UseDocumentLabels(x), UseCreateLink(x)} : x \in {"note"} }
    \cup UseBulkUpdate \cup UseAdminCatalogMutations
    \cup {UseCreateRequirement, UseCloneRequirement, UseCreateDocument, UseCreateSpace,
          UseUpdateSpace, UseSpaceMemberMutations, UseSaveLabel, UseDeleteLabel, UseSaveMilestone,
          UseDeleteMilestone, UseSaveCategory, UseDeleteCategory, UseReplaceTransitions,
          UseAgentMutations, UseUserMutations, UseUpdateMe, UseNotificationMutations,
          UseSavedViewMutations, UseCreateBoard, UseUpdateBoardColumn}

\* notification_fanout, for what others do; whoever acts is not notified.
NotificationFanout == Hook({<<"notification", "me">>}, {}, {}, {})

--------------------------------------------------------------------------------
(* Change events *)

\* The tables with qg_emit_trigger; comment and history are the journal.
Triggered ==
    {"requirement", "document", "comment", "history", "attachment", "document_link",
     "requirement_member", "document_label"}

\* What flush invalidates for a change of a row; a requirement that moves is announced
\* in the space it has moved to.
FlushedPrefixes(row) ==
    LET ofDocument == {requirement(row[2]), document(row[2])}
    IN  IF row[1] \in Triggered
        THEN ofDocument \cup { space \o <<list>>
                               : list \in {"board", "requirements", "documents", "agent-queue"} }
        ELSE IF row[1] = "space_id" THEN ofDocument
        ELSE IF row[1] = "notification" THEN {<<"notifications">>, <<"my-work">>}
        ELSE {}

\* invalidateQueries matches by prefix.
Matched(key, prefixes) == \E p \in prefixes : IsPrefix(p, key)

Reads(q) == q.of \cup q.with

\* What the mutation m is to the query q.  Heard: q reads a row that m writes and that
\* q does not call unheard.  Promised: q is about a row that m writes, and the hook does
\* not forget it.
EffectOn(q, m) ==
    [ outdates  |-> Reads(q) \cap m.writes # {},
      announced |-> Matched(q.key, UNION { FlushedPrefixes(row) : row \in m.writes }),
      refetched |-> Matched(q.key, m.invalidates),
      set       |-> q.key \in m.sets,
      heard     |-> (Reads(q) \ q.unheard) \cap m.writes # {},
      promised  |-> q.of \cap m.writes # {} /\ q.key \notin m.forgets ]

OwnEffects == { EffectOn(q, m) : q \in Queries, m \in OwnMutations }
Effects == OwnEffects \cup { EffectOn(q, NotificationFanout) : q \in Queries }
================================================================================
