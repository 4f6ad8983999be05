# A verification of FairData (core-data-connector)

FairData keeps the catalogues of digital-humanities projects: a Rails API over PostgreSQL,
Sidekiq workers, a React client, and Typesense indexes. This directory holds TLA+ models
of the parts of it that are hard to test, TLC configurations that check them on small
instances, and TLAPS proofs of what holds for every instance.

1. [The system](#1-the-system): components, state, interactions, what is hard
2. [The modules](#2-the-modules): what models what
3. [The runs](#3-the-runs): what each shows, bounds, fairness
4. [The proofs](#4-the-proofs)
5. [Disagreements between code and documents](#5-disagreements)
6. [Observed and not checked](#6-observed-and-not-checked)
7. [What is not modelled](#7-what-is-not-modelled)
8. [What could come next](#8-what-could-come-next)

Paths below are relative to `src/`; `services/`, `models/`, `jobs/`, `controllers/` and
`concerns/` stand for the directories of `app/.../core_data_connector/`, and
`components/`, `hooks/`, `pages/`, `transforms/` and `utils/` for those of `client/src/`,
or of a package beside it. `PROJECT.json` maps every definition to the lines it models.

## 1. The system

| Component | State | Operations | What must hold |
|---|---|---|---|
| **Record pages** (`hooks/useEditContainer.js`, `components/ItemPage.js`, `ProjectContextProvider.js`) | the path, two fetched contexts, the form and its original, requests under way | visit, load, type, save, publish | a text stays with its record; typing survives answers |
| **Forms and payloads** (`components/*Form.js`, `transforms/`) | a form with texts, children and single associations | edit, add and remove children, upload, save again | what the form shows is what is stored |
| **Related records** (`hooks/Relationship.js`, `components/Related*.js`) | a panel or a table of relationships, the stored ones | select, clear, create, save, delete | each joins two records of its models, in its direction |
| **Related media** (`components/RelatedMediaContents.js`, upload and selection modals) | files and what was typed for them, media that came back | upload, relate, delete, manifests | values stay with their file |
| **Lists and merges in the browser** (`components/MergeModal.js`, `MergeButton.js`) | the selection, the merged record so far | select, delete, pick, clear, merge | a merged record is made of those it replaces |
| **Import dialog** (`pages/ProjectImportExport.js`, `components/ImportModal.js`) | jobs and messages of the page; rows with results and decisions | analyse, remove, compare, resolve, import | decisions stay with their rows |
| **Session and permissions** (`services/Session.js`, `hooks/Permissions.js`, routes) | local storage, one copy of the user for each tab | log in and out, reload, reset | one user for each session; nothing is offered that is refused |
| **CSV import** (`services/import`) | the record tables; per import a staging table for each CSV file and the `z_*_id` columns that tie rows to CSV rows | `ZipHelper#import_zip`: setup, extract, transform, load in one transaction, then cleanup outside of it | all or nothing; rows matched, never duplicated |
| **Import audit** (`services/import/audit.rb`) | a temporary audit table for each import; `versions` | snapshot before an UPDATE, a "create" row for each INSERT, versions before the commit | one version for each created row, an update version for each changed one |
| **Merger** (`services/merge`) | records, `record_merges`, relationships, manifests | `Merger#merge`, from a request or from a job | no uuid stops leading to a record; relationships follow |
| **Jobs** (`jobs`, `models/job.rb`) | `jobs` rows, attachments, Sidekiq's queue, retries and dead set | `Job.create` and callbacks, `perform`, deletion | a completed job has done its work; none hangs |
| **Membership** (`models/user.rb`, `user_project.rb`, `services/users`) | users, memberships, queued mails | create, invite, sign in, change password, change or remove memberships | nobody is locked out; projects have owners; no doubles |
| **Import analysis** (`services/import_analyze`) | the rows of a file beside those of the database, in memory | `analyze`, `create_zip`, duplicates | exactly one of several equal rows stays |
| **Manifests, search indexes, media upload** | documents of external services | rebuild, index, upload | they end up with what the tables hold |
| **Sharing, projects, export, public API, queries, authorities, single sign-on** | rows with one owner, or none | single requests, reads, calls of services | - |

How they interact. The browser's pages keep copies of what the API answered and send what
they made of it; every answer may come late, to a page that was left, or not at all, and
the session, which all tabs share, may change in between. The web process, the Sidekiq
threads and the mail service share the database; every process reads under READ COMMITTED,
and almost nothing is protected by a lock or a unique index. A job runs the import, then
removes duplicates with the Merger, which resets manifests by calling the IIIF service.
Callbacks after a commit (enqueueing a job, uploading a file, inviting a user) run outside
the transaction they follow.

What is hard here: answers out of order; copies that are stale when they are used; effects
that run again when their inputs are merely new objects; rows addressed by an index that
moves; statements of two transactions that interleave; steps after a commit that fail or
never run; retries from the beginning; validations that are a SELECT before an INSERT.
`PROJECT.json` lists these hazards, each at its line with the properties that would catch
it.

## 2. The modules

| Module | Models | Abstracts from |
|---|---|---|
| `RecordPage` | `useEditContainer.js`, `useReactRouterEditPage.js`, `ItemPage.js`, the project contexts and pages of `ProjectModelFactory` | the form is one text |
| `RecordForm` | the nine forms with their modals, `transforms/`, the permitted attributes of the policies | user-defined fields are one field |
| `RelatedRecords` | `Relationship.js`, `RelationshipEditForm.js`, the panels, tables and modals of the eight classes | order of rows, user-defined fields |
| `RelatedMedia` | the upload and selection modals, the section, the panel of a single medium, manifests | bytes, previews |
| `MergeDialog` | the nine lists, `MergeButton.js`, `MergeModal.js`, the merge payloads | columns, search, paging |
| `ImportDialog` | `ProjectImportExport.js`, `ImportModal.js`, the comparison of a row | sorting, several files in a zip |
| `Session` | `Session.js`, `Permissions.js`, menus and routes, beside the policies of the server | shared models, single sign-on |
| `Import` | `zip_helper.rb`, `importer.rb`, `base.rb`, `items.rb`, `relationships.rb`, `audit.rb`; edits and deletions by web requests | user-defined fields are one value |
| `Catalogue` | what an import promises: it takes effect at once or not at all, at most once, and logs what it did | |
| `Merge` | `merger.rb`, `mergeable_controller.rb`, `Import#remove_duplicates` | names, identifiers and values copied |
| `Jobs`, `JobLifecycle` | `job.rb`, both `perform`s, Sidekiq; what the "Jobs" tab tells about a job | the import and the merges are steps that succeed or fail |
| `Membership` | `user_project.rb`, `user.rb`, `invitations.rb`, the password and role parts of their controllers | policies, names, system roles |
| `MC*` | instances for TLC; `MCSections` and `MCDialogs` also put the parts of a screen side by side | |
| `*Proofs` | theorems about the module of that name; `DialogProofs`: about MergeDialog, ImportDialog, Session and `MCDialogs`; `SectionsProofs`: about RecordForm, RelatedMedia and `MCSections` | |

**RecordPage.** `url` is the route; `context` and `fetches` are the project model of
`ProjectContextProvider` and its requests; `class` is the page that `ProjectModelFactory`
has mounted for it; `item`, `original`, `loading` and `saving` are the state of
`useEditContainer`. Each request is a record that knows what was sent and whether its page
is still there (`live`, the code's `mountedRef`). `Goto` is what a changed path does: a
page of another class, or of a new record, is mounted (`Mount`), a page of the same class
gets another id (`Switch`), and either way whatever `useReactRouterEditPage` does on a
saved record. The API serves (`Serve`) and its answer arrives or is lost (`*Reply`,
`*Failed`) in steps of their own.

**RecordForm.** The fields of a class are operators named as its form (`EventForm`), as
its transform (`EventPayload`) and as its policy (`Permitted`). A save sends the
intersection; `StoredChildren` and `StoredOne` are Rails' nested attributes. A child
without an id is known by its `uid`, and a removed child by `gone`, the code's `_destroy`.
A place's geometry is always sent, an empty object where the form has none (`EmptyOne`),
and Rails stores a row of it.

**RelatedRecords.** `rel` is the relationship with its direction; `panel` is the section
that is mounted, `rows` the stored relationships, `records` which model each record
belongs to. The dropdowns and modals of the eight classes are operators named as the
components. `foreignKey`, `requiredKeys`, `primary_model` and `foreignProjectModelId` are
what `useRelationship` computes. `smooth` is a history variable: the user waited for every
answer.

**RelatedMedia.** `onSaveFiles` sends the files (`payload`) and keeps the values of their
relationships (`relationshipUserDefined`); `onComplete` puts both together by index and
sends the relationships. Whatever is typed for a file is represented by the file, so that
a value in the wrong place shows. The panel of a single medium has a relationship
(`panel1`) or shows a medium without one (`shown`); its modal, which the code opens only
while there is no relationship, creates one (`onSaveModal`).

**MergeDialog.** `Attributes` is what each list offers, `PermittedForMerge` what the
policy permits; `record` is the merged record, `merging` what is confirmed and sent.
`set_content` is the download of a picked file by the server, which may fail unnoticed,
and `Sent` what the server takes of the rest. `picked`, `toggled` and `taken`, what the
server stored of the last merge, are history.

**ImportDialog.** `Rendered` is a render of the page, after which the effect of the dialog
analyses its file again. `decisions` and `disturbed` are history.

**Session.** `stored` is local storage, `context` the copy of each tab. Operators `can*`
are those of `Permissions.js`, `Offers` and `Links` what the pages show, `Policy` what the
server allows, `Landing` where a visit ends. A request keeps the token it was sent with;
`DoneReply` is the fetch that follows and `reset` its answer.

**Import.** One action is one SQL statement, or several of which only one touches a table
that others see. `own[i]` is what transaction `i` has written and not committed, `View(i)`
what it sees: the committed rows under its own. A row in some `own[i]` is locked. The
record importers are alike, so there is one (`items.rb` is its text) and the relationship
importer; both run for every file. `Match` is transform's UPDATE statements; `Snapshot` is
audit's copy of the rows to update; `Load` the UPDATE and the INSERT; `Commit` writes the
versions and ends the transaction; `Cleanup` runs after it. `RollBack` and `CloseFails`
may happen at any of these. Transform's reads are one step although relationships are
resolved by several statements. A web request loads first and writes later: an edit is
`BeginEdit` and `Edit`, a deletion `BeginDestroy` and `Destroy`. In between others may
commit; the edit writes over that, the relationships that go with a deleted record are
those that were loaded, and the versions hold the values that were loaded (`Copy`), as
PaperTrail's do. `UPDATE ... FROM` with several matching rows takes any of them (`AnyOf`).
A set stands for a query with DISTINCT ON.

**Merge.** One action is one step between two commits or reads of `Merger#merge`: load,
collect (the associations that are not preloaded), save, reset manifests, destroy one
record at a time. What was loaded is kept in `merged`, `links` and `rest` and used later,
stale or not. A uuid generated for record n is n.

**Jobs.** A web request walks `request`, Sidekiq has the job in `message`, `perform` walks
`step`. `Stop` ends the worker process: a shutdown pushes its jobs back, a kill loses
them. Exceptions outside of a rescue clause are `RaiseAnywhere`.

**Membership.** Validations and loads are the `Begin` actions, the transaction is a
`Commit` action, and `SetPassword` and `Invite` are the callback after it. A password is
named after the request that mails it; `Unknown` is one that was generated and thrown
away, `Own` one the user chose. An UPDATE writes the columns that differ from those loaded
(`InvitedBy`, `Changed`), as ActiveRecord does. `SignIn` is one step: it writes a column
that only sign-ins write. An admin may send any of these requests, which is why leaving
out policies leaves out no behaviour.

The models are connected by their contracts. `Import` implements `Catalogue`; `Jobs` takes
one such import as its steps `ImportCommits` and `ImportFails`, and one run of `Merge`'s
jobs as `Deduplicate`. `Merge` fails where the manifests' service does. `ImportDialog`'s
`onImport` is the request that creates the job of `Jobs`, and the request of `MergeDialog`
is one merge of `Merge`. In the browser, a page is a form, a section of related records
and a section of media, of which one tab is shown: `MCSections` is that page. `MCDialogs`
is the application around it: a step in one screen leaves the others alone.

## 3. The runs

A run marked with a cross is expected to find a violation (section 5). States are distinct
states with two workers.

| Run | Question | Instance | States |
|---|---|---|---|
| `MCRecordPage_page` | Visits, typing, saves and publications with answers in any order: `TextStaysWithItsRecord`, `TypedTextIsKept`, `SaveComesBack` | two models of different classes, two records, three acts, two requests under way | 1.1 million |
| `MCSections_page` | What the tabs of a page store: `FirstSaveIsExact`, `SavesStoreWhatIsShown`, `RowsJoinTheModels`, `RowsChangeForTheirRecord`, `SettledPanelShowsItsRow`, `UploadsStayTogether` | nine classes of forms, three edits, two saves; twelve relationships, four acts; two files, six steps (five at a single panel), two requests | 4.7 million |
| `MCDialogs_screens` | Merging, importing and who may do what: `OnePrimaryName`, `MergedFromTheMerged`, `PickedIsMerged`, `RowsKeepTheirRecord`, `SessionIsOfOneUser`, `OffersAreAllowed` | nine lists, three records; three rows, five steps; two users, two tabs, one project, three requests or changes | 2.6 million |
| `MCImport_imports` | Two imports that interleave at every statement, with each other and with a web request, fail anywhere and wait for each other: `RowLocks`, `AuditMatchesWrites`, `ClosedLeavesNoStagingIds`, `ImplementsContract`, `EveryImportEnds` | two files (new rows without uuid; changed rows with an endpoint elsewhere), empty and filled tables, `Workers` = 2, an edit or the deletion of the first record | 0.1 million |
| `MCImport_again` | Three imports after one another, beside deletions: `ImportingAgainDuplicatesNothing`, `ImportsAloneAreVersioned` | the same files and tables, `Workers` = 1 | 1.4 million |
| `MCMerge_merges` | Requests that overlap, or jobs that do: `UuidsStayResolvable`. Merges after one another: `UuidsAreUnambiguous`, `LinksFollowMerges`, `JobsRemoveDuplicates` | three records, alike, related or with shared media; `MaxId` = 5, two requests, two jobs; two threads with failures and added relationships, or with a job beside a request, or one thread without | 2.0 million |
| `MCJobs_stops` | Failures, retries, shutdowns, kills, deletions: `FileBeforeMessage`, `CompletedMeansProduced`, `ImplementsLifecycle`, `EveryJobIsSettled` | an import and an export, two threads, one retry, two stops | 0.3 million |
| `MCMembership_members` | Overlapping invitations, mails, sign-ins, password changes and removals: `NobodyLockedOut`, `NothingTwice`, `RoleChangesKeepAnOwner` | three requests, two projects, two emails, `Editors` = 1 | 1.5 million |
| `MCMembership_owners` ✗ | `RoleChangesKeepAnOwner` when membership requests overlap | the same, `Editors` = 2 | |
| `MCDialogs_creator` ✗ | `CreatorSeesProject` | as `MCDialogs_screens` | |
| `MCDialogs_decisions` ✗ | `DecisionsStay` | as `MCDialogs_screens` | |
| `MCDialogs_cleared` ✗ | `ClearedIsNotMerged` | as `MCDialogs_screens` | |

The passing runs also check the type invariants (`TypeOK`, `SectionsTypeOK`,
`DialogsTypeOK`).

**Bounds of the browser's runs.** `MaxActs`, `MaxSteps`, `MaxPicks`, `MaxEdits` and the
like count steps of the user: answers are never counted, so whatever is under way may
arrive in any order. In RecordPage two requests under way are enough for an answer to
overtake another or to arrive after its page was left, and three acts to type, save and
type again; loads are not counted, since a page always loads. Two records of one class are
needed to stay on a mounted page, two models to replace it. `MaxSaves` = 2 with `MaxEdits`
= 3 lets a record be saved, edited and saved again, or another record opened in between. A
relationship is tried in both directions and kinds for two classes and as an inverse
single one for all eight, since the direction is what the code gets from the relationship
and the class what it gets from the component. Two files of an upload can be exchanged; at
the panel of a single medium `MaxPanelSteps` = 5 is enough to upload, create, save and
delete its relationship. The three rows of the import are a new one between two conflicts:
removing one moves the index of a conflict. Two tabs and two users are enough for one tab
to replace the session under the request of the other; who is admin, guest or member
differs from one initial state to another.

**Bounds of the server's runs.** `Ids` of Import has six keys, three rows stored at most
and three that one import inserts, and a seventh where a deleted record may have to be
inserted again by two imports at a time; where there are more insertions than keys the
import can only roll back. In `MCImport_imports` an action constraint (`OneRequest`)
admits one edit, or deletions of the first record, which has the relationship, one at a
time, and both of them before any import has begun; in `MCImport_again` another
(`OneDeletion`) admits one deletion of a record at a time. The proofs have no such limits.
Two imports are enough for each to write between any two statements of the other; a third
one, when nothing overlaps, re-imports what the first two left. `MaxId` of Merge allows
two new records on top of three, one for each request. What holds for imports one after
the other has a run of its own in which they are (`MCImport_again`). A behaviour of Merge
is of one of its `Settings`, which say what tables it starts from, which sessions there
are, how many of them run at a time and whether a job may run beside a request (`beside`),
whether they may fail and which relationships users add; what holds for merges one after
the other is stated of the settings in which they are (`OneByOne`), and
`UuidsStayResolvable` of those in which no job runs beside a request, since such a job may
lose a uuid (section 6). `MaxRetries` is 1 for Sidekiq's 25: with one retry a job has been
both retried and buried. `MaxStops` = 2 lets the retry of a stopped job be stopped again.
`MaxUsers` = 3 users and three requests let one invitation overlap with another and with a
change. `Editors` is the number of requests that create or change users and memberships at
a time; everything else in Membership always overlaps. With `Editors` = 1 a validation
still holds when its row is written, and the run asks whether the validations are the
right ones; with 2 they are not enough, which `MCMembership_owners` shows for one of them.

**Deadlock** is not checked where a system may stop: imports, merges, jobs and requests
end, and a user need not do anything.

**Fairness.** RecordPage: `SaveAnswered`, the answer or the failure of some save under
way, is weakly fair, since a browser ends every request, by a timeout of the connection if
by nothing else; loads, publications, visits and the user are not fair. Import: a job that
a worker has taken goes on, and PostgreSQL grants a lock once its holder is gone (or
aborts one of two that wait for each other, a `RollBack`), so each import's own statements
are weakly fair; starting, failing and web requests are not. Jobs: the web process runs
its callbacks, Sidekiq polls its queue and retries, a thread performs what it fetched:
weak fairness for each job; creation, deletion, failures and stops are not fair. The other
modules claim no liveness.

Each property of a passing run has a mutant in `PROJECT.json`: a definition of the model,
and a plausible mistake in it that the property catches. The mutated operators are marked
`mutant:` in the modules and used by nothing else.

## 4. The proofs

The theorems hold for all values of the constants that satisfy the named assumptions:
types, distinctness of the special values, and finite sets of imports, requests and
sessions where a theorem counts them.

**RecordPage** (`RecordPageAssumption`). `RecordPageTypeCorrect`, and `TextsStay`:
`TextStaysWithItsRecord` for any models, records and number of requests. The property is
not inductive: nothing in it says that what is loaded is the record that was asked for,
nor that an answer that is still waited for belongs to the class of the page. `IInv` adds
both (`OwnRequests`, also for answers, and `LiveIn`), and the lemmas say that mounting,
unmounting and going to a path keep them (`MountOwn`, `UnmountedOwn`, `GotoOwn`), one for
each place where the code could take over a stale answer. `TypedTextStays` proves the
action property `TypedTextIsKept`.

**RelatedRecords** (`RelatedAssumption`). `StoredRowsJoinTheModels` proves
`RowsJoinTheModels`, and `RowsChangeOnTheirPage` the action property
`RowsChangeForTheirRecord`, for any relationships, in either direction, and any number of
records, acts and requests. Neither follows from what is stored alone: a save that is
still under way will store what it carries, and a panel will send what it shows. The
invariant `RInv` therefore says of the panel and of every request that they are for the
record of the page they were made on, at its own end (`Ours`), and that an id is only ever
known on the page of its record (`Known`), also after the relationship has been deleted.
`Kept` shows that no step takes this from a record that is not its concern; then there is
one lemma for each step of the user, of the API and of the answers.

`SettledPanelIsStored` proves `SettledPanelShowsItsRow`. That the panel shows what is
stored at the moment it settles says nothing about the moment before: `SmoothInv` says of
every request under way what its answer will find (`Asked`): that it is the only one for
its page, that the record has the relationship it names or none, and that a save sends
over all that is stored (`Covers`), so that what the panel shows after it is what the row
holds, even where the answer takes keys the panel did not have. A save whose page was left
is waited for on that page alone, which is why the property asks for nothing under way.
`RelatedTypeCorrect` proves the types of the rows, the panel and the requests, with the
tables of records and the sequence of ids (`TInv`).

**RelatedMedia** (`MediaAssumption`: the files are finitely many, the bounds numbers).
`UploadsNeverMix` proves `UploadsStayTogether` for any number of files, steps of the user
and requests under way. What is stored is right only if everything on its way there is:
the values typed for a file travel from the modal to the media and back to the
relationship by their index, which other requests and a closed modal must not move.
`MInv` says of the dialogs that what they show holds its own files' values (`DialogOK`),
of what is stored that media and links are lists in which each link's medium is there
(`StoredOK`, `LinkOK`), and of every request that its items are of its own files and that
its answer, once there, came back under the index that was sent (`CallOK`, `UploadOK`).
`MediaGrow`, `LinkKept` and `CallKept` show that what others add to the lists takes none
of this away. `MediaTypeCorrect` proves the types.

**RecordForm** (`FormAssumption`: the classes are among the nine, an edit is possible, the
special values are distinct). `FirstSaveStoresTheForm` proves `FirstSaveIsExact`, and
`SavesStoreTheForm` proves `SavesStoreWhatIsShown`, for any number of edits and saves.
What a save stores depends on what the form held when its record was opened, and on what
earlier saves stored of it without the form being told. `FInv` says that the form and the
stored record have the fields of their class, that an id is of one child (`GoodKids`,
`GoodRows`, `GoodOne`), that up to the first save every stored child is in the form
(`SameList`, `SameOne`), and that a field nobody has touched is as it is stored
(`TextsOK`, `Cleared`). `FormsAreSent` compares what each class's form edits with what its
transform sends and its policy permits; `RowsSaved` and `OneSaved` say what the nested
attributes of a payload leave stored: a single association that nobody has touched as it
was, except that a place without a geometry gets an empty one (`LeftEmpty`).
`FormTypeCorrect` proves the types, among them that no id is stored twice.

Of the page with the three sections, `SectionsAreSections` shows that its behaviours are
behaviours of each section, and `SectionsTypeCorrect` and `SectionsKeepTheirPromises` that
all that `MCSections_page` checks holds of them for every value of the constants.

**MergeDialog, ImportDialog** (`MergeDialogAssumption`, `ImportDialogAssumption`: the
lists are some of the nine, the analysed file is a sequence of rows, the bounds are
numbers). `MergeInv` says of the record that is put together, and of the one that was
sent, that each value is of a selected record and each picked one is there (`Draft`). From
it follow `MergeTakesFromTheMerged` (`MergedFromTheMerged`),
`MergedRecordHasOnePrimaryName` (`OnePrimaryName`: two lemmas say what adding names and
removing one does to the primary one, `Added` and `RemovedAt`) and
`MergeKeepsWhatWasPicked` (`PickedIsMerged`: `MergeTakes` compares what each of the nine
lists offers with what the policy of its class permits, and follows the values into what
is stored, which may lack only a file that could not be downloaded).
`ImportedRowsKeepTheirRecord` proves `RowsKeepTheirRecord`: the invariant adds that a row
which is compared is still at its index (`ComparingOK`), since removing rows is what would
move it. `DialogsTypeCorrect` composes both with the invariant of Session: a behaviour of
the application is a behaviour of each of its dialogs (`DialogsAreDialogs`), so what is
proved of one holds in `MCDialogs` (`DialogsKeepTheirPromises`).

**Session** (`SessionAssumption`). `SessionTypeCorrect`, and `OneUserPerSession`, which
proves `SessionIsOfOneUser` for any number of users and tabs. Its invariant `SInv` adds
that a request which fetches the user again carries the token of that user from the moment
it is sent (`SendOK`): the session may be replaced meanwhile, but only as a whole.
`PagesOfferWhatIsAllowed` proves `OffersAreAllowed` for all projects and roles, by
comparing the pages with the policies case by case (`OffersOK`, `LinksOK`).

**Import** (`ConstantsAssumption`). `TypeCorrect` proves `TypeOK`. It is not enough for
the rest: whether a commit logs the right versions depends on the audit table, and that on
which rows are locked. `IInv` is `TypeOK`, `RowLocks` and `AuditMatchesWrites`, with one
fact more: what a request has loaded to edit is still a record, or is gone for good
(`EditsRecords`). It is inductive: an audited row was written by this import and is
locked, so nobody else changes it before the commit; a row not yet written may be changed,
but keeps its identity. `LocksExclusive` and `AuditComplete` follow.
`ImportImplementsCatalogue` maps the rows without bookkeeping to `rows`, the versions to
`history`, and the imports past their commit to `applied`; then `Commit` is `Apply`
(`CommitApplies`: the created rows are those that were not there, the updated ones those
written and there), `BeginEdit` and `BeginDestroy` are `See`, which takes copies of rows,
`Edit` is `Change` and `Destroy` is `Remove`, which log what was seen, and every other
action is a stutter. The contract therefore promises of a web request that its log is of a
value that was there when it looked, and of an import that its log is of what it replaced
in its own transaction.

`ClosedImportsLeaveNoNumbers` proves `ClosedLeavesNoStagingIds` for any number of imports
that interleave and fail (`ImportIdAssumption`: the ids of imports and generated uuids are
new). An import resets only the tables of the importers it ran, so `ZInv` says that
whatever a row was written by, that importer ran (`WrittenBy`), and that a stored row of
an import is reset once its table's cleanup is done (`StoredBy`). An UPDATE writes the
table it matched a row in, which is true only as long as the row cannot have become
another one: a matched key is used, and where its row is gone nobody brings it back
(`Target`).

Where one import runs at a time (`Workers` = 1), whatever is edited and deleted beside it
and wherever it fails, `ImportsAloneDuplicateNothing` proves
`ImportingAgainDuplicatesNothing`. `UniqueInv` says that what is stored, and what would be
stored if the running import committed now, has no doubles; that no generated uuid is
stored before its import has inserted it; and that from the match to the INSERT a CSV row
without a match still has none (`StagedOK`), because other sessions only take rows away or
change records, whose values no match looks at (`Less`). Its two hypotheses are about what
the code does not check: `PlainFiles`, that no file names a record or a relationship
twice, since both rows would be inserted, and `PlainTables`, that the tables found had no
doubles. `ImportsAloneVersionWhatTheyReplace` proves `ImportsAloneAreVersioned` where also
no web request edits: what is about to be replaced, or has been, is in the audit table
with the value that is stored (`ReplacedInv`). With edits the value in the audit table may
be out of date when the UPDATE runs (section 6), so that hypothesis is needed.

**Merge** (`MergeAssumption`). `MergeTypeCorrect` proves `TypeOK` for any mix of requests
and jobs. `UuidsAreNotLost` proves `UuidsStayResolvable`: for any number of requests, or
of jobs, that overlap and fail anywhere, where no job runs beside a request. Requests and
jobs keep uuids for different reasons. The invariant of requests, `MInv`, says that what
one has loaded and read is what is stored (`KeysUnique`, `LoadedIsStored`,
`CacheIsComplete`), and that while it still has records to destroy, each of their uuids is
held by the record it saved or by one with a later key, which another merge made of that
(`OthersHold`). Destroying a record with an earlier key therefore never takes a uuid's
last holder. Jobs merge into an existing, older record, which breaks this order. Theirs is
`JobsInv`: each job merges into the oldest record of a name (`GroupsOfOldest`,
`TargetsAreOldest`), and no job ever destroys one of those, so that what a target took
over (`TargetsHold`) stays. `KindsInv` puts them together: while only requests run the one
holds, while only jobs run the other, and where nobody is at work both do, so that the one
kind can follow the other. A job beside a request may merge into what the request destroys
(section 6); the property claims nothing of those settings, in which TLC finds a uuid
lost.

In the settings where merges and jobs run one after the other and none fails (`OneByOne`),
four theorems hold for any tables, also with records that are related to each other or
cannot be merged. `MergedUuidsLeadToOne` proves `UuidsAreUnambiguous`. Between its save
and its last destruction a merge shares its uuids with the records it is going to destroy,
so `SerialInv` says that two records share a uuid only if one of them is leaving
(`UuidsApart`), and that what leaves is held by the target (`TakenOK`).
`MergesKeepRelationships` proves `LinksFollowMerges`, which is about the settings where no
relationship is added during a merge (one that is does not follow, section 6): once the
target is saved, it has the relationships of the merged records with all that stay
(`PassedOn`). `JobsLeaveNoDuplicates` proves `JobsRemoveDuplicates`: of each name, the
records are in a group that the job has still to merge, or are being merged, or are one
record, or something keeps them from being merged, and that nothing the job does removes
again (`AllSettled`, `SettledStays`).

**Jobs** (`JobsAssumption`). `JInv` relates `message`, `step`, `request`, `status` and
`success` of each job. `FilesComeFirst`, `CompletedIsTrue` and `JobsTypeCorrect` follow.
`JobsImplementLifecycle` maps jobs to `JobLifecycle` under the further fact (`NotEnded`)
that until the first shutdown a job that is still to be performed, or has just been taken,
has not ended.

**Membership** (`MembershipAssumption`). `MembershipTypeCorrect`, and `EverybodyGetsIn`:
`NobodyLockedOut` for any number of requests, `Editors` included. Its invariant adds one
fact: a request that is going to create a user is going to invite it
(`CreatedAreInvited`). Without it a new user's unknown password would be nobody's concern
after the commit. With one request at a time that creates or changes users and memberships
(`Editors` = 1), beside any number of mails, sign-ins, password changes and removals,
`NothingHappensTwice` proves `NothingTwice` and `OwnersAreKept` proves
`RoleChangesKeepAnOwner`. `EditInv` says that what the request has validated still holds
when it writes (`Checked`), that mails are for users who are marked as invited and a user
has one welcome at most (`MailsOnce`), and that a request which will send one finds none.
`InitialTablesAssumption` says the tables found are what validations and keys allow.

Model-checked only: liveness (`EveryImportEnds`, `EveryJobIsSettled`, `SaveComesBack`),
which is out of the prover's reach. Every other property of a passing run is the
conclusion of a theorem. The hypotheses that `Workers` or `Editors` is 1, and the
condition `OneByOne` of three properties of Merge, are not assumptions about the
deployment: where requests overlap, what one has matched, loaded or validated may be stale
when it writes, since the code takes no locks, and a merge that fails after its save
leaves the old records beside the new one.

## 5. Disagreements

| Run | Code | Document |
|---|---|---|
| `MCDialogs_creator` | a member who has created a project is sent away from its settings: the session is reset, the copy of the user that permissions are computed from is not | `services/Projects.js:40`: "Overrides the parent create method to reset the session user." |
| `MCDialogs_decisions` | the file of an import is analysed again whenever the page renders, which brings back removed rows and undoes resolved conflicts | `components/ImportModal.js:309`: "Calls the `onLoad` prop when the component is mounted." |
| `MCDialogs_cleared` | clearing the file of a medium in the merge dialog leaves `content_url`, from which the server fetches it | `components/MergeModal.js:120`: "Clears the passed attribute from the merge record." |
| `MCMembership_owners` | two requests take a project its owners, one demoting the other's | `core_data_connector.en.yml:136`: "Projects must have an owner." |

## 6. Observed and not checked

The models also contain these behaviours; no document promises the contrary in so many
words, or a single call shows them.

Pages and forms:

- The answer to the load of a record that was left arrives on the page of the next one of
  its class, and is shown there until it is loaded again.
- The flag of a publication is set on whatever record the page shows by then.
- A save does not load what it stored: children that were added have no id, so a second
  save creates them again; children that were removed are removed again, which is refused.
- The map data drawn for one place is applied to the geometry of the next one, once that
  has an id.
- A save of a place without a geometry stores an empty one
  (`transforms/PlaceGeometry.js:42`, `place.rb:29`), and replaces it by another each time
  the form is saved again.
- A new record whose answer was lost is created again by the next save. A load that failed
  leaves the dimmer.
- The routes of project models, memberships and web authorities keep their page when a new
  one gets its id, unlike those of records. The effect of `WebAuthority.js:68` clears
  `access` when an authority is loaded.
- `/projects/new` is open to guests.

Relationships and media:

- A panel whose list could not be fetched takes its relationship for a new one and creates
  a second one. Clearing a panel leaves the id of the deleted relationship in it.
- `RelatedEvent.js` offers to clear when nothing is selected, and not otherwise.
- When relationships are refused, the uploaded media are stored; saving again stores them
  again.
- The values typed in the selection modal are not sent (`onModalSave` takes only the
  media).
- A failed request for manifests leaves its button loading.
- The edit button of a stored single medium calls a function that is not there
  (`RelatedMediaContent.js:145`). The modal that opens while there is no relationship
  creates one that the panel does not take over, so that it can be created again.

Merging and importing:

- A deleted record stays selected; the merge dialog then shows none of the others. A merge
  whose answer is lost leaves a dialog that can neither be closed nor sent again.
- Making a name primary by hand does not change the other primary one.
- A picked file that the server cannot download is left out of the merge without an error
  (`media_contents_controller.rb:23`), and the records that had it are destroyed.
- After an error the import dialog cannot import any more. The answer to an import closes
  whichever dialog is open by then.
- A logout is undone by the answer to a reset that comes after it. With single sign-on
  there is no session to reset, and the reset throws.

The server:

- An edit committed between the snapshot and the UPDATE of an import is overwritten, and
  no version says so (`audit.rb:3`). In turn, an edit overwrites what an import commits
  between its load and its save, and its version, like that of a deletion, has the value
  that was loaded, which may be out of date.
- A job may merge into a record that a request is destroying; its uuids then lead nowhere
  (`merger.rb:48`). Merging two related records leaves a relationship without one of them,
  with which the new record cannot be merged again (`relationship.rb:14`).
- An exception outside of the rescue clause leaves a job "processing" for ever, once its
  retries are used up.
- The values of a CSV row are discarded when its relationship is already stored
  (`relationships.rb:182`: super is called first, unlike in the record importers).
- The cleanup of one import resets the `z` columns of another that has committed or of
  rows it still has to resolve relationships by; those relationships are dropped.
- An import that relates a record while it is being deleted leaves a relationship without
  it.
- A worker shut down after the commit of an import imports the file again; rows without a
  uuid are then stored twice.
- A relationship added to a record during its merge does not follow it. Records whose
  manifests are of one kind cannot be merged.
- An admin may move the last owner's membership to another project: the validation looks
  at demotions only.
- An invitation between the two writes of a password change loses the flag that asks for a
  new password.

## 7. What is not modelled

Other pages of the browser (project models, users, web authorities) are plain forms over
`useEditContainer`, which RecordPage models, and tables. Names, dates, geometry, web
identifiers and uploads of the other record importers; import analysis; manifests beyond
the request that rebuilds them and what a merge does to them; search indexes. Models
shared between projects and the scopes of queries. Export, public API, queries and
serializers only read. Authorities, HTTP, map libraries and single sign-on are calls of
external services. The gem `resource_api`, which carries the plain create, update and
delete of every controller, and the packages of `@performant-software` that the client is
built from, are modelled as they are used, as are ActiveRecord, PostgreSQL, Sidekiq and
the mail service.

## 8. What could come next

1. The passes of `analyze` as functions over small files, against a definition of what
   should be left (equal rows: one stays, a stored one first).
2. Manifests: rebuilding requests that overlap with publishing, relating and each other,
   composed with `Merge`'s reset.
3. Index runs with a clock, edits and deletions.
4. The pages of project models and users over the same `useEditContainer`.
