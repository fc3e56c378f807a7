# Quagenticus in TLA+

Quagenticus manages requirements for people and AI agents: spaces hold notes,
wikis and requirements; requirements move over a board under a configurable
workflow; agents lease requirements from a queue, work on them and give them
back. This directory holds TLA+ modules of the parts where several clients, the
worker and the browser meet, the TLC configurations that check them on small
instances, and proofs that TLAPS checks for all instances. The server's modules are
about transactions; the browser's are about answers, events and users who go on while a
request is on its way.

Run `tlc -workers 2 -config X.cfg M` and `tlapm M.tla` here. `PROJECT.json` lists
every run with what it checks, the source lines every definition stands for, the
mutants each property has been seen to catch, and the hazards of the code.

## 1. The system

| Part | State | Operations | Talks to |
|---|---|---|---|
| Workflow (`workflow_status`, `workflow_transition`) | catalogue rows | decide whether a status change is legal | every status change |
| Agent claims (`db/agent`, `handlers/agents.go`) | claim columns of `requirement`, `agent_claim`, agent rows of `requirement_member` | claim, claim-next, renew, release, expire | workflow, worker, journal, notifications |
| Board (`requirement_move/reorder/transition`, `Board.tsx`) | `board_position`, `status_id`, `closed_at` | drag and drop, status menu, bulk changes, creation | workflow, query cache |
| Documents (`db/document`, `handlers/documents.go`) | `document`, `document_version` | create, save, restore, promote, archive, move | both editors, links, sections |
| Note editor (`DocumentEditor.tsx`) | content, base version, save state, cache | type, autosave, Ctrl+S, conflict dialog, leave | documents, live events |
| Requirement page (`RequirementDetail.tsx`) | body, conflict, cache | edit, save, conflict dialog | documents, live events |
| People of a requirement | `requirement_member`, `lead_user_id`, `member_count`, watchers | add, remove, set, lead | agent claims, spaces, notifications |
| Space administration (`handlers/spaces.go`) | `space_member` | add, change role, remove | every authorisation |
| Trees | `document.parent_id/path/depth`, `requirement.parent_id` | move, archive, promote, set parent | documents, spaces |
| Attachments (`handlers/attachments.go`, `storage`) | `attachment` rows and files | upload, stage, adopt, delete, purge | worker, documents |
| Sessions (`handlers/auth.go`, `lib/api.ts`, `stores/auth.ts`, `lib/events.ts`) | refresh tokens, cookie, each tab's access token, its refresh under way, its stream and timer | log in, refresh, log out, change the password, reload | every request |
| Agent authentication, rate limits | cache of keys, counters | authenticate, disable, rotate | agent requests |
| Query cache (`App.tsx`, `hooks/*`, `lib/events.ts`) | what each query has read, fetches, invalidations | fetch, retry, mutate, set, invalidate, flush | every page, change events |
| Requirements list (`RequirementsList.tsx`, bulk handler) | filter, offset, marks; row locks of the bulk | page, mark, bulk change | query cache, requirement functions |
| Forms and controls (`pages`, `components`) | draft, cached value, pending request | type, leave, press, pick, confirm, turn to another record | hooks, dialogs |
| Notifications and events | `notification`, subscribers, `emailed_at` | fan-out, reminders, e-mail, NOTIFY/LISTEN, SSE | all writes, both pages |
| Worker (`quagenticus-worker`) | none of its own | expire claims, reminders, purge, e-mail | PostgreSQL, storage, SMTP |
| MCP server, search, Markdown, catalogues | none, or single rows | — | — |

**How they run.** The logic is in PL/pgSQL. An HTTP request is one transaction
(`WithActor`, `internal/db/db.go`) at READ COMMITTED, followed by a separate read
that makes the answer. Within a transaction each statement sees what others have
committed before it; `FOR UPDATE` serialises what it locks and nothing else;
`now()` is the time of BEGIN. The worker runs its jobs on tickers, each in a
transaction. Browsers keep a query cache that answers fill and server-sent
events invalidate.

**What is hard about it.**

- *Old clocks.* A lease is judged by a `now()` that may be older than the row
  it is compared with.
- *Two records of one fact.* A claim is in `requirement` and in `agent_claim`,
  the document in `document` and in its history, the text in the editor and in
  the cache.
- *Reads without locks.* Neighbours on the board, the version of a note, the
  ancestors of a parent, the last admin of a space.
- *Swallowed errors.* Automatic status moves fail silently; what follows must
  be right either way.
- *Answers out of order.* Answers to saves, refetches, conflict GETs and
  keystrokes interleave in a page; an answer belongs to a request, its callbacks to a
  component that may show another record by now.
- *News that does not come.* What a page shows is refreshed by events that may be
  dropped, lost, or never sent, and by answers that may be outdated.
- *Shared cookies.* The tabs of a browser rotate one refresh token without knowing of
  each other.
- *Death.* Agents die holding claims; requests lose their connection;
  PostgreSQL kills one side of a deadlock.

What makes each part correct is stated in its section below, for parts not yet
modelled in section 6. The hazards, each at its line, are in `PROJECT.json`.

## 2. Modules

| Module | What it is |
|---|---|
| `Workflow` | operators without state: which transition row is chosen, what it demands, where a swallowed move leaves a requirement |
| `AgentLease` | abstract: per requirement a lock with a deadline |
| `AgentClaims` | the claim functions over `Workflow`; implements `AgentLease` |
| `AgentClaimsProofs` | theorems about `AgentClaims` |
| `RequirementBoard` | drops, transitions and creations, statement by statement, with row locks; over `Workflow` |
| `RequirementBoardProofs` | theorems about `RequirementBoard` |
| `DocumentHistory` | abstract: a list of texts that saves append to |
| `DocumentVersions` | saving and restoring one document; of a requirement, implements `DocumentHistory` |
| `DocumentEditor` | the note page, extends `DocumentVersions` (composition of browser and server) |
| `DocumentProofs` | theorems about `DocumentVersions`, and over them about `DocumentEditor` |
| `RequirementPage` | the requirement page, extends `DocumentVersions` |
| `Attachments` | rows, files and forms; API, worker and browser in one module |
| `AttachmentsProofs` | theorems about `Attachments` |
| `People` | roles in spaces, members and lead of a requirement |
| `PeopleProofs` | theorems about `People` |
| `QueryCache` | the query cache of a tab, its mutations and the change events; over tables given as constants |
| `Hooks` | the tables: every query and mutation of `web/src/hooks`, by the rows it reads or writes, and the triggers |
| `QueryCacheProofs` | theorems about `QueryCache`, for any tables |
| `Session` | the tabs of a browser, their cookie and the server's tokens |
| `SessionProofs` | theorems about `Session` |
| `RequirementsList` | the list page and the transactions of its bulk changes |
| `Controls` | every control of the client that changes something, as a record |
| `Forms` | such a control at work, extends `Controls` |
| `WebClientProofs` | theorems about `Forms` and `RequirementsList` |
| `MC*` | small instances; `MCQueryCache` composes `Hooks` and `QueryCache` |

Names are the source's: a variable `requirement` is the table, `ClaimsExpire` is
`agent_claims_expire`. An operator `X_Something` before `X` is a *mutant*, a
plausible bug that takes X's place when the project is tested; nothing else
uses it.

### AgentClaims

`requirement[r]` is the row's status and claim columns, `agent_claim[c]` a claim
row or NULL, `agent_member[r]` the agent members, `now` the database clock and
`began[p]` the `now()` of p's open transaction.

Each function locks the requirement row before it decides, so once begun it is one step; what
is *not* atomic with it is the clock. `Begin` reads the clock, time passes, others commit, and
then the function acts on what `Begin` read. That covers waiting for the lock and the round
trips before the function call. A user's release asks nothing of the clock and has no `Begin`.
`ClaimsExpire` releases a set of rows in one transaction, any subset because of SKIP LOCKED,
and each row is judged again when locked. The automatic moves (to `in_progress`, back to the
previous status) go through `Workflow!SwallowedTransition`: legal for some role and readiness
means it may happen, illegal for some means it may not. Users and agents also move
requirements by themselves (`Transition`). An agent's release carries any state it likes, also
"expired": the handler drops the error of `httpx.Decode`, which has filled the request by
then, and the column has no CHECK. `agent_release` treats failed, abandoned and expired alike,
so "expired" stands for the three, and "resolved" also for any other text. A row that says
"expired" need not be the worker's doing, and `OnlyLapsedExpire` speaks of what the worker
commits (`WorkerCommits`), whatever it writes.

*Correct means:* nobody's live lease is taken by another agent (`LeaseNotStolen`) or ended
by the worker (`OnlyLapsedExpire`), both records agree
(`ClaimColumnsAgree`), the past stays as it was (`PastClaimsFrozen`,
`SupersededHasLapsed`), the holder is visible as a member (`ClaimantIsMember`), and
the claim of a dead agent ends (`LapsedClaimsEnd`). `AgentLease` says the same
without tables. That only the worker ends a claim as "expired" is not so.

`AtMostOneLiveClaim` follows from these and is proved only. A takeover does *not* complete the
superseded row: "at most one open row" would be false. What holds is that of the open rows at
most one has time left.

### RequirementBoard

`requirement[r]` is status, position and whether `closed_at` is set; `row_lock` who
holds the row; `tx[s]` the request session s is serving with its program counter,
what it has read, and `writes`, the rows it has written and not committed. The steps are
the statements of `requirement_move`: lock and transition (`Begin`), the reads of
the two neighbours, the ranking and the row-by-row UPDATE of the rebalance
(`Rebalance`, `Renumber`), the second pass, the last UPDATE (`Place`), COMMIT. Two
sessions that wait for each other deadlock and PostgreSQL rolls one back
(`BreakDeadlock`). A position is an integer number of 10^-10, the scale to which
the code rounds; the midpoint rounds as `round(numeric, 10)` does.

`Drop` is the browser: it computes the neighbours from the committed column, which by
the time the request runs may be stale. Two auxiliary fields, `above` and `alone`,
remember what the user saw and whether anything was committed since; no guard
reads them.

*Correct means:* an undisturbed drop lands between the cards it was dropped
between, ties and rebalances included, and leaves the others in order
(`DropLandsWhereSeen`); closing time and status agree (`ClosedAtAgrees`); every
request ends (`MovesEnd`). A rebalance also renumbers a card that has left the
column while its UPDATE waited for the row, since the join is on the id alone; the model
has this behaviour and `DropLandsWhereSeen` asks nothing of disturbed drops.

### DocumentVersions

One document: `document` the row, `document_version[v]` its history,
`request[c]` the save of client c, `written` the ghost history of what each version
really said and who wrote it. `Read` is the SELECT and its checks, `Write` the
snapshot, the UPDATE and the COMMIT, `Reply` the read after the commit. A
requirement (`IsRequirement`) is saved through `requirement_patch`, whose FOR UPDATE
excludes other saves between the two; for a note nothing does. The snapshot's
INSERT and the UPDATE are one step: two inserts of one version wait for each other
and carry the same text.

*Correct means:* what the history says is what the document said
(`SnapshotsFaithful`), nothing overwritten is missing (`HistoryComplete`), a checked
save overwrites what it names (`CheckedSavesCompare`), and entries never change
(`HistoryImmutable`). The second and third hold of requirements only. So does the promise
as a whole, `ImplementsHistory`: the current text and the texts of the history in front of it
are one list, and each save appends to it at one moment between its request and its answer,
or is refused for naming another version than the last. The moment is that of `Write`: a save
that has been read is still only "sent" in `DocumentHistory`. The author in an
entry is who overwrote that version, not who wrote it; the ghost `written` keeps both
apart.

### DocumentEditor and RequirementPage

Both add to the server the state of a page: the cached row, a refetch in flight, the text
being edited, the dialog. The note editor keeps a version of its own (`base`) and a save
state; its `save` does nothing while another is in flight. Answers and errors run `onSuccess`,
`onError` and `onSettled` in one step with the effect on `doc.version` (`Adopt`), unless
nobody listens any more: the type of the note is changed through the observer that the save
uses (`ChangeType`), and react-query calls back the latest mutation only. `heard` says whether
a save will be; its answer still fills the cache. The PATCH of the type makes a version of its
own, at any later time (`TypeChanged`). The GET after a 409 is a request of its own (`asks`)
and may fail, which leaves the page "saving". A save from elsewhere, by another client or by
the same user in another tab, is one step there (`OtherSave`): its two statements matter only
to the snapshot, which `DocumentVersions` checks by itself. A page is about one document;
turning to another, closing, read-only documents and the title are left out.

*Correct means:* "saved" is true (`SavedWasStored`), typing is never lost unasked
(`NothingTypedIsDropped`), and the autosave gets it stored or shows why not
(`TypedTextSettles`). The last excepts a page that has dropped a save's callbacks (`Deaf`);
without that exception the code violates it. For the requirement page:
nobody is overwritten unseen (`NoSilentOverwrite`, which the code violates).

### Attachments

`attachment[f]` is the row, `disk` the storage, `upload` the multipart requests, `doomed[p]`
the files whose rows process p has deleted and not yet the files, `form` what the two forms
show, `post` what is being published and on which document (`on`), `drop` the deletions of
staged files on their way. A file stands for its key and its
id. Storing a file and committing its row are two steps (`StoreFile`, `InsertRow`), so are
deleting the row and erasing the file (`DeleteAttachment`, `DeleteStaged` or `PurgeStaged`,
then `EraseFile`); `Crash` loses what a process had in hand. The UPDATE that adopts staged
files holds its rows and is undone when its count is short, so `Publish` is one step. The
purge may take any staged row: a day is not long for a form that stays open. `history` is a
ghost; the only guard that reads it keeps keys new.

A file is uploaded for the document that is open at that moment, and can be adopted on no
other. The new-requirement form has no document yet; what it stages is bound by its own
submit. The composer has no `key`: when the page turns to another requirement that is in the
cache, its files, its uploads under way and the answers it waits for stay with it. Turning
changes nothing else, so there is no step for it: each upload and each post is for some
document of `Page`, and a post whose files belong to another one is refused (`Adoptable`).
`Leave` is the page that unmounts the form.

*Correct means:* what was published keeps its files whatever the purge, Cancel, the X of
a file and a second submit do meanwhile (`PublishedWhole`), a file that was acknowledged
can be served (`AnsweredFilesServed`), nothing is leaked but by a crash
(`OrphansOnlyByCrash`), and what a form shows can be published where it was uploaded
(`FormFilesUsable`); that it can be published on the page that shows it does not hold. A
request that fails takes away the files it had already committed; those are left out of
`AnsweredFilesServed`.

### People

`space_member` are the committed roles, `tx` the open transactions on them,
`requirement` one requirement with its member rows. The functions on a requirement lock
it first and are operators from a requirement to a requirement, or `Refused`, that call
each other as in the source: `MembersSet` is
`MemberRemove`, `MemberAdd` (both of a set, their order being immaterial) and `SetLead`,
which may add. The handlers of a space write one role, look for an
administrator and commit, in three steps (`WriteRole`, `CheckAdmin`, `CommitRole`), with
other transactions in between. Who may make a request is decided before its transaction,
so any request may come at any time. Roles between administrator and contributor behave
as the latter here; watchers, journal and notifications are left out. Agents come and
go as claims write the member row, without the count.

*Correct means:* the lead is a member and the only one with the flag (`LeadIsMember`),
nobody is a member who never had a role in the space (`MembersWereAdmitted`), and a space
keeps an administrator if nothing is committed between check and COMMIT
(`AloneKeepsAdmin`); without that condition it does not. The count is right up to agents
(`CountCoversUsers`, proved only).

### QueryCache and Hooks

`cache[k]` is an entry of the query cache: whether it holds data, and whether they are
still what the database says (`current`, `outdated`); whether it is invalidated; and its
fetch, which the server answers from the database *as it is when it reads*
(`ServerReads`), so that a change can come between that and the arrival (`Answered`). `own`
is the tab's mutation, from `Mutate` over the commit and the read of the answer to
`onSuccess` (`OwnAnswered`: `setQueryData`, then `invalidateQueries`). `onTheWay` and
`pending` are the keys named by change events, before and after they arrive; `Flush` is the
timer of 400 ms. `lost` is a ghost with the keys whose reader nothing will call back, by
one of the ways the code has: the change is announced to nobody, or its event did not
come; a fetch or the answer to a mutation failed for good; a first load was overtaken,
since `cancelQueries` does not restart one; an older answer was put over a newer one.

`Hooks` computes what mutations are to queries. A row of the database is its table and its
owner; a query states the rows it selects and joins, a mutation the rows it writes and the
keys its hook sets and invalidates, and `Announced` is what the triggers and `events.ts`
make of a row. What a hook leaves alone is stated too, per mutation (`forgets`) and per
query (`unheard`), and `Effects` is the set of all that some mutation is to some query.
`MCQueryCache` has one query whose mutations are these effects: entries do not
touch each other, so this is every query of the client at once.

*Correct means:* what a page shows agrees with the database, or something under way will
refresh it, or it is lost (`OutdatedIsCovered`); and it is refreshed once changes stop
(`OutdatedIsRefreshed`).

### Session

`live` are the refresh tokens not revoked, `cookie` the browser's, `flight[t]`,
`entering[t]`, `leaving[t]` the exchanges of tab t with the phase they are in and the token
they carry: a refresh carries the cookie as it was when it was sent, and its answer sets
the cookie when it arrives. `status`, `access`, `call`, `stream`, `timer` are the tab's
`useAuth` status, access token, a request to the API, the `EventSource` and the
reconnection its `onerror` left. A refresh has a single flight in a tab and none
across tabs. `disturbed` is a ghost: two exchanges overlapped, one was lost or stale, or
the password changed. Tokens that nobody holds are left out, so that six are enough.

*Correct means:* until that happens the cookie is good (`UndisturbedSessionIsWhole`) and
nobody is logged out but by a logout (`SessionEndsByLogout`); a logged-in tab listens to
the events or is about to (`ListensOrReconnects`).

### RequirementsList

`order` and `closed` are the database, `listed` the page last loaded, `selected` the marks,
`tx[b]` the bulk changes: this page's and those of others. The handler counts the rows
(`BeginBulk`), changes them one at a time under their locks (`ChangeNext`), which may raise
(`ChangeFails`) or deadlock (`Deadlock`), and commits (`CommitBulk`). What a change does to
a row is closing it or not; the rest is `RequirementBoard` and `People`. A selection of rows that
keeps their order is `Only`, a set of one list. Names that `Forms` has too begin with
`List` here, as in `ListSpec`, so that one module can prove about both.

*Correct means:* a bulk change is made as a whole or not at all (`BulkIsAllOrNothing`) and
is answered (`BulkEnds`).

### Controls and Forms

A control is a record: where its value comes from (the cache, a draft of the mount, of an
opened editor, one that follows the cache, or nothing), what sends it under which guard,
what the answer does to it, and whether it stays when the page turns to another record.
`Controls` has one operator per component. `Forms` runs one control, any of them: `row` and
`cache` are two records, `draft` the text with the record it is for, `sent` the requests
and `observer` the one whose callbacks `useMutation` will run. Controls that differ in
their name alone behave alike and are one initial state (`Nameless`).
The description of a requirement and the text of a note are in `RequirementPage` and
`DocumentEditor`, which model their versions.

*Correct means:* what is stored was chosen by the user for the record it is stored in
(`StoredWasChosen`), and one entry makes one record unless an answer was lost, after which the
user cannot tell and may send it again (`OneEntryOneRecord`). Three lists name the controls
that do not keep this, and why: a field sent by `onBlur` that compares its draft with a cache
that has moved on puts back the old value (`Reverting`); a component without a `key` carries
its draft to the next record (`Carrying`); a form without `isPending` is sent twice
(`Unguarded`). A form that is sent by Enter in an input while its button waits is one of the
last; that for a new requirement is not, as its fields submit nothing and both its buttons
wait. One more case is allowed to all: a field that follows the cache sends the same entry
again if a colleague has put back the value it had before (`SentAgain`), as then no effect
fires. For all other cases the properties hold; and each name is on its list with reason,
since without it TLC finds the control violating the property.

## 3. Runs

| Run | Instance | States | Shows |
|---|---|---|---|
| `claims` | 2 requirements, 2 agents, 2 claim ids, 3 statuses, leases of 1 and 2, clock to 2 | 259,314 | safety of claims |
| `claims_live` | 1 requirement, 2 agents, 2 claims, clock to 2 | 33,291 | lapsed claims end; refinement of `AgentLease` with fairness |
| `board` | 3 cards, 2 columns, 2 sessions, 2 requests | 294,905 | drops land, requests end, `closed_at` |
| `versions` | a requirement, 3 clients, 2 texts, 3 versions | 95,608 | safety of the history, which is an append-only list |
| `editor` | 1 browser, saves from elsewhere, 2 texts, 3 versions, 2 pending GETs | 195,912 | safety and liveness of the note editor |
| `requirement_page` | 2 browsers, 3 texts, 3 versions | — | *violated*: silent overwrite after a refetch |
| `files` | 2 files, 1 upload, 2 posts, 2 documents, at most 2 files a request | 1.6 M | safety of attachments |
| `people` | 2 users, 1 agent, 2 spaces, 2 transactions | 552 k | safety of members, lead and roles |
| `cache` | one query, all effects of all hooks, 2 changes | 57,978 | what is outdated is covered, and refreshed |
| `session` | 2 tabs, 6 tokens, up to the first disturbance | 18,150 | the session is whole and ends by a logout |
| `list` | 2 rows, pages of one, one other bulk change | 422,892 | bulk changes are atomic and end |
| `forms` | all controls, 2 records, 2 texts, 2 requests, 1 entry, 1 turn | 1,166,171 | what is stored was chosen, once |

**Bounds, and why they are enough.** `MaxNow` and the leases let a lease be taken, run out, be
revived or taken over, with transactions that began before each of these. Two claim ids are
one takeover or one claim after a release; two requirements let one expiry transaction release
both, or one of them. `MCTransitions` has the wildcard rows of the installation and an exact
row that refuses agents and asks users for a comment, so swallowed moves go both ways. On the
board, `Step` 5 and `MinGap` 2 leave room for one midpoint and force a rebalance at the next;
the initial positions include a tie, three cards are the fewest with two neighbours, and two
requests (`MaxDrops`) are a pair that can race, deadlock or overtake. Versions stop at three:
a version read, overtaken and overwritten (with four, `editor` has 2.0 million states and
passes as well). Its one client saves from elsewhere too, as no property asks who saved.
`MaxAsks` bounds the pending conflict GETs, which no code does. Two files are one that
succeeds and one that fails, or one of each form; one upload is enough because uploads touch
only files of their own, and two posts are the double submit. Two documents let a composer
carry the files of one to the other. Two users are the fewest with two administrators, two
transactions the fewest that race, two spaces a move and back. `files` and `people` bound
nothing else: keys are used once, the rest is finite. Two changes (`MaxChanges`) are one whose
news is on the way when the next comes, or one's own and another's; fetches, mounts, failures
and reconnections are not bounded. `session` and `list` bound nothing: `session` stops at the
first disturbance (`Undisturbed`), after which its properties promise nothing, and three tabs
with eight tokens (931,760 states) give the same result. In `list`, two rows are what two bulk
changes need to lock each other out, and a page each. In `forms`, two requests (`MaxSends`)
are a double submit or a late answer, a colleague changes a record once (`MaxChanges`), one
`MaxTyped` entry and one of `MaxTurns` are a draft carried on; two of any of the three pass as
well (6.0, 3.5 and 3.5 million states). Symmetry is used in safety runs only.

**Deadlock.** TLC checks for it everywhere but on the board, which stops when
`MaxDrops` requests have been sent, and in `forms`, where `MaxSends`, `MaxTyped` and
`MaxTurns` stop the user.

**Fairness, and why the code justifies it.**

- `WorkerFairness`: the job runs every minute for as long as the process lives
  (`every`). Strong fairness of the release of each row, since SKIP LOCKED may
  pass over it but no lock is held for long. Agents and users owe nothing.
- Board: weak fairness of each session's server steps. PostgreSQL detects
  deadlocks. Users owe nothing.
- Editor: requests are served, timers fire, answers or errors come back. Strong
  fairness of `ConflictAnswered`: not every one of infinitely many GETs fails.
  `TypedTextSettles` excepts the page whose GET failed, which really stays
  "saving", the page that dropped the callbacks of a save, which really takes it to be
  under way for good, and the bound on versions.
- Cache: requests are answered or fail, own mutations too, events that were sent arrive,
  and the flush's timer fires. Nothing else is owed: no focus, no reconnection.
- List: weak fairness of the server's steps for others' bulk changes; strong for the
  page's own, since who waits for a row stands in the queue of its lock and gets it
  although others ask for it again and again.

## 4. What the checks found

One disagreement with the documentation has a run of its own, `requirement_page`:
the requirement page sends the version its cache was refreshed to, so another user's
text is overwritten without a conflict, the risk that the version lock is said to remove
(`docs/PLAN-AFINAMIENTO.md:531`).

The others have none. Most follow from the modules; those marked † were met in code that the
modules leave out.

*Server.*
- An agent can end a claim that is alive with the state "expired": the handler drops the
  error of `Decode`, so the `oneof` of `agents.go:167` restricts nothing, and the states in
  `agent_data_structure.sql:37` are a comment (`AgentClaims`, `ReleaseState`).
- `agent_release` returns an abandoned or failed claim to the status it was claimed in also
  when the agent has since moved it on (`TECHNICAL-SPEC.md:1732` says it does not).
- Two concurrent saves of a note lose the version in between: the snapshot is of the row
  read without a lock (`DocumentVersions`, `Read` and `Write`, with `IsRequirement` FALSE).
- The history names who overwrote a version instead of who wrote it (`Write`).
- When one file of an upload is refused, `cleanup()` deletes every file of the request from
  the storage, also those whose rows are committed: the rows stay and link to nothing.
- Two administrators of a space who remove each other at the same time leave it without
  one: the check reads the others without a lock.
- A rebalance overwrites the position of a card that was moved to another column while the
  UPDATE waited for it (`RequirementBoard`, `Renumber`).
- A row that leaves the space between the count of a bulk change and its own turn is
  changed all the same.
- † `document_promote` inserts a requirement with `closed_at` NULL also when the default
  status of the tracker is a closed one (`requirement_functions.sql:893`).

*Sessions.*
- Two tabs that refresh at the same time exchange one cookie: the second is answered with a
  401, and its answer clears the cookie of the first (`auth.go:124`).
- A refresh that fails for any reason, a lost connection included, logs out; so does a
  rotated token whose answer was lost, or was under way when the page was reloaded.
- A timer or request left over in a logged-out tab exchanges the cookie that another tab got
  since. The reconnection of such a timer may open a second `EventSource`, which nobody closes.
- A wrong current password in the profile is answered with 401, and every 401 of a
  mutation logs out. A right one revokes the caller's own token as well, where
  `auth.go:214` speaks of the other sessions.
- † A tab on `/login` has no `useLiveEvents` (`App.tsx:56`), also if the bootstrap has
  logged it in; `ListensOrReconnects` is about the pages behind `AuthGuard`.

*Cache.*
- Nobody hears of: requirements in "my work", sub-requirements, the other side of a link, names
  of labels, watchers, counts of milestones, allowed transitions (`unheard` in `Hooks`).
- After a reconnection nothing is asked again, and an event dropped by the hub is not made
  up for by the next if that is about another document (`hub.go:105` says it is).
- † A logout clears the timer of the flush and forgets `pending` (`events.ts:77`), but not the
  query cache: what those events named is shown as it was, for as long as it counts as
  fresh (30 s), to whoever logs in next in that tab.
- A first load that is overtaken by an invalidation is not restarted; an answer that is
  set as data may be older than what it replaces.
- Restoring a version leaves lists and links, updating a requirement its children and links,
  deleting a milestone or category the lists; `useUpdateMe` sets a key that nobody reads.

*List.*
- After a bulk change has emptied the last page the list says that there are no
  requirements and, if the rest fits one page, hides the pager.
- Success clears also the marks made since sending; "select all" forgets other pages; marks
  outlive the filter they were made under.

*Forms.*
- Who changes the type of a note while a save is under way gets no autosave any more, nor an
  error: the callbacks of the save never run and `saving.current` stays true
  (`DocumentEditor.tsx:91`, `:242`). TLC shows it if `TypedTextSettles` is stated without its
  exception `Deaf`.
- The controls named in `Reverting`, `Carrying` and `Unguarded`. Among them: a comment begun
  on one requirement is stored as the draft of the next, where `docs/PLAN-AFINAMIENTO.md:222`
  has one draft per requirement; the transitions of one tracker are shown, and saved, under
  another while that one loads; the key of a new agent is replaced
  on the screen by that of a second one before anybody has read it.
- A field that follows the cache sends a text once more when it is left after a colleague has
  put back the value it replaced: the cached value is the same again, so no effect
  (`RequirementFields.tsx:97`) takes the draft back.
- An answer that closes or empties a form drops what was typed since; an error of a
  component that is gone, or of a request that is not the last, is shown to nobody.
- A composer that is gone before its answer keeps the draft of a comment that was posted.
- A composer carries the files of one requirement to the next, where `comment_create`
  refuses them and the comment with them (`Attachments`, `Submit` and `Adoptable`).
- A creation whose answer is lost is sent again by the user and makes two records.
- † After "Salir sin guardar" from one note to another the editor, which has no `key`, goes on
  with the first text, its state and `saving.current`.
- A second `confirmDialog` takes the place of the first, which is never answered.

## 5. Proofs

No theorem bounds the clock, the requirements, clients, texts, versions, files, people, tabs
or queries; each takes only the named assumptions on constants (`ClaimsAssumption`,
`WorkflowAssumption`, `BoardAssumption`, `VersionsAssumption`, `EditorAssumption`,
`AttachmentsAssumption`, `PeopleAssumption`, `CacheAssumption`, `SessionAssumption`,
`FormsAssumption`, `ListAssumption` and the `NoneAssumption` of each module that has one),
which TLC evaluates in the runs, and the hypotheses its statement has.

**AgentClaimsProofs.** `IInv` adds to the checked invariants that an open
transaction's `now()` is not ahead of the clock (`BeganInThePast`). The parts need each
other: a renewal writes through `claim_id`, so its type needs that the columns name an
existing open row; that a superseded row has lapsed needs that the expiry compared,
of the columns, is that of the row, and that the reading it was compared with is
past. There is one lemma per kind of write; `StepShapes` then reduces the ten actions to
take, renew, release or none, and the action properties and `Refinement` (the safety
part of `AgentLease`) follow by those four cases.

**RequirementBoardProofs.** A transaction holds the row locks of its card and of what it has
written (`Locked`), so what it sees of them is what it will commit (`Written`); that gives
`TypeOK`, `ClosedAtAgrees` and `NoStatusIsLost`: a commit changes the status of its own card
alone, whatever was committed meanwhile. `DropLandsWhereSeen` is about a transaction that no
other overlaps. For that one `Undisturbed` says where it stands: the cards above and below the
place are those of the drop (`Aligned`); before a rebalance no other card has moved
(`FirstPass`); during it each card has its number or still awaits it, in the old order
(`Renumbered`); at the commit the card is in its place (`Landed`). What the statements compute
is lemmas about the order of a column: it is strict and total (`AboveIsOrder`), a finite set
has a lowest and a highest card, `row_number()` numbers the cards in their order
(`RowNumberIsOrder`), and there is an integer strictly between two positions `MinGap` apart
(`MidpointIsBetween`); numbers times `Step` are that far apart (`RanksApart`), which is why the
second pass finds room. Times of creation must differ, as `BoardAssumption` says: two cards
with one position and one time have no order in the code either.

**DocumentProofs, versions.** `IInv` says what a save in progress knows: the row it holds
is the document as it was at that version (`ReadsFaithful`) and, for a requirement, as
it still is, there being one such save (`Serial`). `StepShapes` reduces the steps to a
write or a turn of one request. `SnapshotsFaithful` and `HistoryImmutable` are proved
of all documents; `HistoryComplete` and `CheckedSavesCompare` under the hypothesis
`IsRequirement`, without which TLC refutes the first. Under it `RequirementHistoryRefinement`
proves `ImplementsHistory`: that the list is one needs `HistoryComplete`; that `Write` appends
and does nothing else needs `Serial`, by which the row that is filed is the one overwritten and
the text is not there already. `HistorySteps` says once what each action of `DocumentHistory`
is under the mapping, and there is a lemma for each statement of the server. For a note TLC
refutes `ImplementsHistory` as well.

**DocumentProofs, editor.** About notes (`~IsRequirement`). Rows reach a page as answers,
refetches and the other side of a conflict; `PageOK` says of each, while it is on its way,
that it was the document once, and of a save on its way that it carries the text the page
shows as long as that says "saving". That is why an answer that finds the page still
"saving" may call it saved, and one that finds it "dirty" may not. The invariant of
`DocumentVersions` is a part of `EInv`; a step of the page or of one request is a `Moves`,
the others are writes, which only add to what is stored (`PageStays`). The theorems are
`EditorTypeOK`, `SavedWasStored` and `NothingTypedIsDropped`.

**SessionProofs.** `ListensOrReconnects` needs only that a tab is not logged in while a login
or a bootstrap is under way (`EnteringFromOutside`). The other two are of the time before the
first disturbance: there is one exchange at a time (`OneAtATime`), so the token it carries or
brings is the one the server knows (`RefreshKnows`, `LoginKnows`), and the cookie is good in
between (`CookieKept`). Tokens are random, 32 bytes (`auth.go:79`); the two theorems have
the hypothesis that there is always one that nobody holds (`TokensSuffice`); TLC would stop
where there is none to choose, and six tokens are enough for two tabs.

**QueryCacheProofs.** For all sets of queries and mutations and all tables that satisfy
`TablesAgree`: what is heard of is announced, and what a hook promises it refetches or sets.
`MCQueryCache` assumes that of the tables of `Hooks` (`HooksAgree`), and TLC evaluates it: a
hook that forgets a key it promises, or a trigger that names too little, makes it false. The
proof goes by the ways an entry can be covered; the promise of the tab's own mutation
(`AwaitsOwn`) is handed on to the invalidation when its answer comes.

**AttachmentsProofs.** `IInv` follows a file through those who know it. Until the answer only
its upload does (`FileInHand`, `Unanswered`, `KeysApart`), so a failing request takes nothing
from others; afterwards one form shows it, and none once its deletion is on the way
(`OneForm`), so the answer to a post empties the form of all it sent; what is about to be
erased has no row and gets none (`DoomedGone`). That a file shown can be published where it
was uploaded needs that its row still names the document of its upload when the answer comes
(`Unanswered`), whatever page is open by then. `RowsGo` is the one argument for the three
ways a row is deleted, `FormsShrink` the one for all steps of a browser.

**PeopleProofs.** The functions nest, so the invariant is one of requirements: `Sound` is
preserved by each function or it raises, whatever it is called with; a change of roles takes
nothing away from `Sound`, since who loses a role is remembered. `CountTaken` is the
arithmetic of a fresh count. Of transactions on roles, `CheckHolds` says that an
undisturbed check stays true.

**WebClientProofs, forms.** A control that is not named in an exception fits a pattern
(`EveryControlFits`, proved of the table, one lemma per page): nothing is sent by leaving it
(`Deliberate`) or its draft follows the cache (`Follower`); its draft goes with its record
(`Rooted`); what is entered is sent again only after the answer (`Guarded`). Each pattern has
an invariant: a draft of a follower that the user has not written is the cached value, or what
they wrote and sent before (`Follows`); requests are wanted (`Wanted`) and for their record
(`OfRecord`); of two requests for one entry the first was lost (`Once`). `OnlyChosenIsStored`
and `EntriesAreStoredOnce` follow for any number of requests. The first attempt failed: with
two changes of a colleague a value can return to what it was, which the run did not reach when
it bounded versions. That is `SentAgain`, and the run bounds changes now.

**WebClientProofs, list.** A bulk change that is running has written exactly the rows before
the next one, one that has not begun none (`Progress`). Since a change that fails leaves
nothing, and one that commits has come to the end of its rows, `BulkIsAllOrNothing` follows.
The lemmas about lists say that appending, concatenating and paging keep them free of
repetitions; without them `order` could not be typed after a commit, which puts the changed
rows in front of the others.

**Only model-checked:** liveness (`LapsedClaimsEnd`, `MovesEnd`, `TypedTextSettles`,
`OutdatedIsRefreshed`, `BulkEnds`) and the fair refinement (`ImplementsFairLease`), as
temporal logic with ENABLED is beyond the prover; that the tables of `Hooks` agree
(`HooksAgree`), a finite fact that TLC evaluates; and the requirement page, whose one
property is violated. Every other invariant and action
property of a run is a theorem. `EntriesAreStoredOnce` and `OnlyChosenIsStored` are of the
controls in the table, as the runs are.

## 6. Plan

Done in this order: `Workflow`, `AgentLease`, `AgentClaims`, `RequirementBoard`,
`DocumentVersions`, `DocumentEditor`, `RequirementPage`, the proofs about `AgentClaims` and
`DocumentVersions`, `Attachments` and `People` with their proofs, `QueryCache` and `Hooks`,
`Session`, `RequirementsList`, `Controls` and `Forms`, the proofs about `DocumentEditor`,
`Session`, `QueryCache`, `RequirementBoard`, `Forms` and `RequirementsList`. Last came
`DocumentHistory` with its refinement. To come: the same for bulk changes, each of which
should be one step of a list that has no locks.

People and claims share `requirement_member`: `People` has the claims as `AgentJoins` and
`AgentLeaves`, `AgentClaims` has the rows of agents only.

**Not modelled, and why.**

- The folder tree and the parents of requirements: `parent_id`, `path` and `depth` with
  archiving and promotion. A module of its own that nothing here depends on; two concurrent
  writers can build a cycle, as the hazards say, so its properties would be those of one
  writer at a time.
- The cache of agent keys and the rate limiter: memory of one process with a lifetime, where
  the code promises no more than "within a minute".
- The e-mail job sends and then marks: nothing in the code prevents a second mail after a crash,
  and nothing promises so.
- Links: resolved again on every save from the text, whose parsing is text handling. What
  the client refetches of them is in `Hooks`.
- Markdown, slugs, search and views transform text or only read.
- The handlers of the catalogues write single rows; the catalogues are constants here, and
  their change under running requests is not considered. Their pages are in `Controls`.
- The MCP server is a client of the HTTP API and adds no state. Installation scripts and
  `qgctl` run outside the system.
- Authorisation is a guard on a role, chosen freely where it only refuses.
