# A TLA+ model of weekly-reporter

Weekly-reporter is a single-user service (Go, SQLite) that keeps a ledger of
events, collects commits into it, plans work per period, and turns a week's
events into a report with two audiences, whose final text is written in a
conversation with a language model. This directory holds TLA+ modules of its
core, the TLC configurations that check them on small instances, and theorems
checked by TLAPS. Paths such as `internal/engine` are relative to `src/`.

1. [Inventory](#1-inventory)
2. [Modules](#2-modules)
3. [Runs](#3-runs)
4. [Proofs](#4-proofs)
5. [Where the code and its words disagree](#5-where-the-code-and-its-words-disagree)
6. [What is left out](#6-what-is-left-out)
7. [Plan](#7-plan)

## 1. Inventory

`cmd serve` opens SQLite with `SetMaxOpenConns(1)`. Every handler runs in its own
goroutine on that one connection, so a statement outside a transaction is atomic,
and so is the body of an `InTx` or `InImmediateTx`; between two statements of one
handler any statement of any other handler may run. Nearly all the hard
behaviour of the program comes from that gap: rows are read, decided on, and
written later.

| Component | State it keeps | Operations | What makes it correct |
|---|---|---|---|
| Turn engine, `internal/engine` | `generation_turns`, `generation_message_parts`, `generation_proposals`; in memory the `Registry` of cancel functions | prepare, stream (model steps, tool calls, propose_final), stop | one turn in progress per session; a turn always ends, once; an ended turn gets no proposal; the pending proposal is the newest |
| Generation session routes, `internal/api/reports/sessions.go` | `generation_sessions` | create from a variant, rename, archive, restore, read | a session keeps the draft it was made from; an archived session is quiet |
| Report variants, `internal/reports`, `internal/api/reports` | `reports`, `report_variants`, `report_event_snapshots` | create, regenerate, accept a proposal, write a final, delete | audiences are isolated; `reports.content` mirrors the personal variant; a final survives regeneration as stale; accepted audit records stay |
| Source draft, `internal/reports/source_draft.go` | none (pure) | render the events of a week for an audience | deterministic; grouping and order; audience filter |
| Collection sync, `internal/api/collect` | configuration document with branch cursors, collected events, in-memory source locks | sync one source, sync all, edit sources, additions | no commit twice, none lost; edits of the configuration survive a sync |
| Period plans, `internal/api/plans` | plans and items with parents and deferral links | find-or-create, add, complete, defer, relink | one plan per period; an item is deferred once; the parent of a week item is an item of its month |
| Events, tags, references, heatmap, `internal/api/events`, `tags` | `raw_events`, `event_tags`, `event_references` | create, collect, edit, delete, rename or remove a tag everywhere, list, count by day | the tables say what the texts say; nothing points to a deleted event; lists and counts agree |
| Ledger migration, `internal/migrate` | the migration ledger and the schema | verify the prefix, apply under `BEGIN IMMEDIATE`, re-check | all pending migrations or none, each once and in order, also with two processes or a crash |
| Authentication, audit, `internal/auth`, `api/audit` | tokens, audit log | authenticate, scope check, record | a revoked token stops working; what was done is recorded |
| AI client, `internal/aiclient` | none | one provider call, streaming | every HTTP call is bound to the caller's context; no timeout of its own |
| Report tools and report pages, `internal/engine/tools`, `api/reports` | `generation_query_snapshots` | list and read earlier reports for the model, refresh a query, list and show reports | a session of one audience reads finals of that audience; pages miss nothing; a page shows text the report had |
| Session transcript, `internal/engine`, `api/reports/sessions.go` | `generation_message_parts` | throttled writers, tool results, status parts, direct edits, the session's page | nothing heard is lost; the transcript only grows until it is deleted; a proposal cites the query results on record |
| Model context, `internal/generation` | none (pure) | build the model's context, validate the public summary | the context stays within its budget |
| Writing styles and templates, `api/prompts`, `api/templates`, `api/aiseed` | `ai_styles`, `templates`, `system_prompts`, the process's `seeded` flag | seed, create, edit, set default, delete, clone | the built-in rows are there; what named a deleted style is released |
| Snippets, settings, one-shot AI | one row or document each | CRUD, one provider call | a turn works with the configuration it copied at its start |
| Export, trace; `jsdate`, `jsnum`, `jsparse`; database layer; `web` | derived or none | reads, conversions, rendering | agreement with the former JavaScript service |

How they interact: the routes call the engine directly; the engine writes its
rows through `store.go` and streams to the client over SSE; stop finds a stream
only through the in-memory `Registry`; the session routes, the report routes and
the engine share the tables and nothing else. A regeneration of the source draft
invalidates sessions only by increasing `report_variants.source_revision`: every
later operation compares. Nothing is repaired at start-up.

Hard behaviour, and where it is listed: every race, gap and failure found in the
survey is an entry of `hazards` in `PROJECT.json` with its line and the
properties that would catch it going wrong; where the code does not keep what it
says, the entry says so and section 5 shows how to see it.

## 2. Modules

### The turn engine

`GenerationTurns` is the life of generation turns over the sessions of one report
variant. Its state is the rows (`session`, `turn`, `statusPart`, `errorPart`,
`proposal`, the variant's `revision`, the AUTOINCREMENT counters), the requests
in flight with the locals of `StreamTurn` (`pc`, `sessionOf`, `turnOf`, `step`,
`calls`, `requested`, `proposed`, `ending`), their contexts (`cancelled`,
`gone`), the `registry`, and the stop and archive requests.

| Actions | Code |
|---|---|
| `LoadSession`, `StartTurn`, `RejectTurn`, `ReloadFails` | `PrepareTurn`: load and check the session, then the `BEGIN IMMEDIATE` transaction of `startGenerationTurn`; the read after the commit may fail and leave the turn without a stream |
| `RegisterStream` | `Registry.set`, one statement after the turn row exists |
| `ProviderReturns`, `ProposeFinal`, `ProposeRefused`, `NextStep` | the loop of `StreamTurn`: one provider call, its tool calls one by one (a proposal is one transaction), then the step limit or a `propose_final` request ends the loop |
| `StreamAborts`, `StreamErrs`, `StreamCompletes` | the ways out of the loop; `fail()` decides between aborted and failed |
| `FinishTurn`, `FinishStatusPart`, `FinishErrorPart`, `FinishFails`, `StreamReturns` | `finishGenerationTurn`, statement by statement, outside a transaction and unconditional; the deferred `Registry.delete` |
| `StopRead`, `StopCancel`, `StopFinishTurn`, `StopFinishPart`, `StopFails` | `StopTurn`: read, cancel through the registry, finish as aborted |
| `ArchiveCheck`, `ArchiveWrite` | `archiveSessionHandler`: check and update are two statements |
| `RegenerateSource`, `AcceptProposal` | the other transactions that touch these rows |
| `ClientDisconnects`, `Crash` | the request's context ends; the process dies, tables survive, memory does not |

`TurnExclusion` is what all this promises: a session is held by one turn at a
time, only the holder submits a proposal and only once, and the latest proposal
replaces the one under review. Requests, stops, failures and crashes do not occur
in it. `GenerationTurns!ImplementsExclusion` is the refinement; the mapping reads
the holder and the preview off the rows.

### The report and its variants

`ReportVariants` is one report from creation to deletion, which may be older than
audience variants when the behaviour begins (`legacy`, fixed by `Init`; such a
report has no variant rows until its first regeneration). A handler that reads
first and writes later is two actions; the rows it read are kept in `request` in
between (`CreateRead`/`CreateWrite`, `RegenerateRead`/`RegenerateWrite`,
`OpenRead`/`OpenWrite` for a new session, `SaveRead`/`SaveWrite` and
`SaveLegacyRead`/`SaveLegacyWrite` for a final, `DeleteRead`/`DeleteWrite`); `GiveUp`
is a failed statement, a dead process or a write that finds the report gone.
`Propose` and `Accept` are one transaction each. Texts are tokens that carry
their origin: the draft of version n of the week's events for an audience, the
text of proposal n, an edit naming revision n. This is what the properties tell
apart: a token of the wrong audience or revision is visible wherever it turns up.
A regeneration of a week without events stores no snapshot rows; the model
records the pair `<<revision, 0>>` for it, so that a draft still has an
explanation.

`AudienceFinals` is the promise to a reader: redrafting keeps every final and
makes it stale, a publication sets one audience's final, and only the end of the
report takes finals away. `ReportVariants!ImplementsFinals` is the refinement.

The two machines share sessions and proposals. `GenerationTurns` abstracts
the variant to its revision and keeps turns in full; `ReportVariants` abstracts
the turn away (a proposal may appear whenever its session is current) and keeps
the texts in full. A product of the two would be too large for TLC, so their common
ground is a specification of its own, `SessionReview`: sessions are opened once,
get proposals while their draft is the report's, have the newest one under review
until it is accepted, are outdated for good by a redraft, and lose their proposals
only with the report. Both machines implement it (`ImplementsReview`, with the
sessions given from the start in the one and opened in the other), and what either
leaves out is a stutter of it. `Implements` is a module's two refinements together.

### The transcript of a session

`SessionTranscript` is what `GenerationTurns` leaves out of a turn: the pieces of
text and reasoning and the tool calls its stream hears from the model, and the
rows of `generation_message_parts` that are stored of them. `part` is the table,
in the order of ids; `stream[t]` has the locals of `StreamTurn` that matter to it
(`heard` and `id` are the two `throttledPart` writers, `calls` the calls of the
step).

| Actions | Code |
|---|---|
| `CreateSession`, `StartTurn` | the four system parts of a session; `startGenerationTurn`'s user and status part |
| `Delta`, `ToolCall`, `EndStep`, `Break` | `RunStep`'s callbacks: insert a part, rewrite its content, or keep the piece for half a second; the call's part; the step's end; a failure or cancellation |
| `CreateProposal`, `WriteToolResult` | `createGenerationProposal` (one transaction, citing `sessionToolResults`) and the result part after it |
| `Flush`, `FinishRow`, `FinishPart`, `FinishDeleted` | the forced flushes at the end and in `fail()`, `finishGenerationTurn`; the latter when the turn is no longer there |
| `StopTurn`, `StopRow`, `StopPart`, `StopDeleted`, `Refresh`, `RecordDirectEdit` | the other writers of the table |
| `DeleteReport` | `deleteReportHandler`'s transaction, which removes proposals, parts, turns and sessions |
| `ReadPage`, `ClosePage` | `getGenerationSessionDetail`: parts, turns, proposals, each by its own statement; `page` keeps what is referred to and not yet read |
| `Crash` | memory goes, tables stay |

The rows of a deleted report stay in the variables as they were, and no statement
sees them: `gone` is the number of parts deleted, `OnRecord` the parts that were
not, `Deleted` that turns and proposals are gone with them. So a property can speak of a
part before and after. Nothing tells the streams of the report: a stream in
flight goes on, its updates change no row, its inserts (the table has no foreign
key) are parts numbered from one again, and its `finishGenerationTurn` finds no turn.

### The reports as they are read

`ReportShelf` has the readers: the turn, whose model calls the list and the
content tool within a budget, the user who refreshes such a query, and the
browser's pages. Each read is its statements (`ReadAuthorized`, `ReadModern`,
`ReadLegacy`; `ReadReport`, `ReadVariant`, `ReadAnyVariant`; `PersistReads`,
`InsertSnapshot`; `ListReports`/`ListVariants`; `GetReport`/`GetVariants`/
`GetSnapshots`) and between them reports are created, regenerated, adopted,
edited and deleted, one action each. A text is the audience it was finished for,
a draft, or the content of a legacy report, so a wrong text is visible.
A query is kept as the model sent it and normalised by every statement that uses
it (`NormalizeFilters`), as in the code, so that a refresh starts from the query
of the snapshot. `MatchingRanges` and `LiteralMatches` are the line windows of the
content tool.

### Collecting commits

`CollectSync` has the rows of `collect_sources` and the events of each source, the
in-memory operation locks, and a repository that the environment changes. A
commit is its committer date, which is the unit of the cursors; a source's
configuration is its branches with their cursors, the cursors of the all-branches
mode, the legacy `paths`, and whether it has author addresses.

| Actions | Code |
|---|---|
| `Sync`, `SyncAll`, `NextSource`, `NextUnusable`, `NextBusy` | `syncSource` under the lock; the sync of all, which ends at the first busy source |
| `NoEmails`, `MigrateLegacyPaths`, `NoRepository`, `CollectOneBranch`, `AllBranchesFailed` | `runSync` before it writes events |
| `ReadKnown`, `InsertNewEvents` | `insertNewEvents`: the read for deduplication, then the transaction |
| `SaveBranchCursors`, `SaveBranches` | the whole configuration is written as it was read, with new cursors |
| `StatementFails`, `RecordFailure`, `SyncError`, `Crash` | the ways a sync ends badly |
| `FetchLocalSource`, `FetchDone` | the manual fetch, which takes the same lock |
| `Create`, `ReadRow`, `Put`, `PatchStatus`, `RemoveBranch`, `Delete`, `EditFails` | the edits, a read and a write without the lock |
| `Tick`, `Push`, `PushLate`, `CreateBranch`, `DeleteBranch` | the repository |

`late` is bookkeeping of the environment: the commits that appeared behind their
date or were cut off by a page of the forge.

### Plans

`PeriodPlans` has `period_plans`, `period_plan_items`, comments, and the events that
cite items. A request is its statements: find-or-create of the plan (`NewPlan`
fails on the unique index when another was faster), `Link`, `Insert`,
`MarkDeferred` for creation and deferral, `Relink`, `Update`, `DeletePlanItem`,
`CreateComment` after their first read; `Abandon` is a lost client, a failed
statement or a dead process. The month review and the lists are operators
(`ComposeMonthReview`, `FulfillmentChain`, `ListPlans`) named after the code, so
that the properties compare what two pages of the application say.

### The timeline

`EventLedger` has `raw_events`, `event_tags` and `event_references`. A text is the
tags and references it names. Creation, tag renames and removals are one
transaction each; an edit and a deletion read first. `EventsPage` and `AllPages`
are the cursor paging, `Heatmap` the counts by day.

### Writing styles and templates

`WritingStyles` has the styles, the templates and a report that name one, the
system prompts and the `seeded` flag. No handler there uses a transaction, so
every statement is an action: both ways of seeding (`EnsureSeeds`, once in a
process and stopping at its first error; `EnsureSeedsForAI`, whenever the table
is empty and skipping what is there), edit, default, deletion in five statements,
and the template routes. `Abandon` and `Restart` cut them off anywhere.

### The migration ledger

`LedgerMigration` has several processes, of binaries with corpora of different
length, on one database file: `ReadExists` and `VerifyBeforeMigration` outside the
transaction, `BeginImmediate`, `CreateLedger`, `Recheck`, `Execute` per statement,
`RecordEntry`, `Commit` or `Rollback`; `VerifyLedger` starts a server; `RestartProcess` is
a process killed anywhere, or started again. `tx` is the database as the writer
sees it.

The `MC` modules add symmetry sets and the few definitions a configuration cannot
write. `GenerationTurns_proofs`, `ReportVariants_proofs`, `SessionTranscript_proofs`,
`ReportShelf_proofs`, `CollectSync_proofs`, `PeriodPlans_proofs`,
`EventLedger_proofs` and `ServerDatabase_proofs` (the ledger and the styles) hold the
theorems.

## 3. Runs

| Run | Instance | Distinct states |
|---|---|---|
| `turns_safety` | 1 session, 2 turn requests, 1 stop, 1 fault | 1 000 000 |
| `turns_live` | 1 turn request (2 turns of 1 model step), 1 stop, 1 archive request, 2 revisions, 1 fault, fair | 360 000 |
| `variants` | 2 requests; 1 change of the events, 2 revisions, 1 session, 2 proposals; a new report or one older than variants | 1 130 000 |
| `variants_stale_save` | 2 requests | a counterexample |
| `collect` | 1 source of 2 branches, 2 requests, 2 clock ticks, pages of 1 commit, 1 incident | 560 000 |
| `plans` | 3 weeks of 2 months, 3 items, 1 comment, 1 event, 2 requests, 4 calls | 190 000 |
| `events` | 3 events, 2 tags, 2 requests, 3 seconds in days of 2, 3 calls | 44 000 |
| `tags_self_rename` | 3 events, 1 request | a counterexample |
| `styles` | 3 styles of 3 keys, 2 templates, 2 requests, 4 calls | 710 000 |
| `shelf` | 2 reports of 2 weeks, pages of 1, budgets of 2 and 1, 3 calls and writes, all readers at once | 280 000 |
| `transcript` | 1 turn of 2 model steps and 3 pieces heard, 1 incident: a note, a deletion of the report or a fault | 750 000 |
| `ledger` | an older and a newer migrating binary, 1 server, 3 entries | 6 600 |

What they show, by module. Each property relates rows written by different
handlers, in transactions that do not know of each other, or what two reads say
of the same rows.

- `GenerationTurns`. `OneWorkingTurn`: turns exclude each other.
  `NoHangingTurn`: without a failed statement or a crash a turn in progress has
  somebody behind it. `EndedTurnIsOver` (action property): an ended turn never
  works again and gets no proposal, although a stopped stream may still be
  executing tools; it allows one end to replace another, as the code does.
  `Implements`: the refinements of `TurnExclusion` and of `SessionReview`.
  `CancelledStreamReturns`, `StopEndsTurn`: liveness.
- `ReportVariants`. `ContentMirrorsPersonal`, `AudienceIsolation`,
  `AcceptedFinalIsGrounded`, `DraftsMatchSnapshots`, `AuditRecordHolds`;
  `Implements`: the refinements of `AudienceFinals` and of `SessionReview`.
- `CollectSync`. `NoDuplicates`: a commit is inserted once, across inclusive
  cursors, branches, resyncs, failures between the insert and the cursors, and
  edits. `CursorCovers`: no cursor is ahead of the events, but for commits that
  appear behind their date. `WellFormed` has `LocksAreOwned`: a lock is held by the one
  request that works under it, whichever way the last one ended.
- `PeriodPlans`. `WeekItemsAreReviewed`: the month review shows every week item
  once. `ReviewCountsEventsOnce`: its counts against a declarative definition of
  the fulfilment of an item. `BadgesMatchLists`: the numbers on a list against
  the sections they announce. `WellFormed` has `ParentsAreOfTheMonth`,
  `DeferralsGoForward`, `CitedByMatchesComments`.
- `EventLedger`. `TagsMirrorContentUnlessSelfRenamed`, `ReferencesMirrorContent`:
  the tables say what the texts say. `DeletionClearsReferrers`,
  `PagesListEventsOfDistinctTimesOnce`; `WellFormed` has `TagCountsMatchFilter`
  and `HeatmapMatchesDays`.
- `WritingStyles`. `DeletedStyleIsReleased`: no report or template keeps a style that
  was deleted in five statements, but for those saved after theirs. `WellFormed` has
  `SeedingIsComplete`: the two ways of seeding the table, overlapping and without a
  transaction, leave all built-in styles and one default.
- `ReportShelf`. `LeadershipReadsItsOwn`: no text of the other audience, by either
  tool, also when refreshed. `PagesListSteadyReports`: the pages of the list tool
  miss and repeat nothing that stays a match. `ShownTextWasTrue`: the pages of the
  application, read in two statements, show texts the report had. `WellFormed` has
  `ToolsAgree`, `BudgetHolds`, `SnapshotsKeepTheirTool`, `BundleHasItsSnapshots`,
  `RangesCoverMatches`.
- `SessionTranscript`. `ReturnedTurnsKeepWhatTheyHeard`: the throttled writers
  lose nothing, however a turn ends. `ProposalsCiteWhatWasRead`: a proposal cites
  every query result that was on record before its call, of any turn of the session
  and refreshed, those of its own turn after that, and none stored after its own
  result. `PageIsBacked`: the page, read in three statements, refers to nothing it
  lacks, as long as the report is there. `TranscriptOnlyGrows`: no step takes or
  cuts a part, but for the deletion of the report, which takes all of them.
  `WellFormed` has `CompletedTurnsAnswerTheirCalls`.
- `LedgerMigration`. `SchemaMatchesLedger`, `ServersHaveTheirSchema`,
  `LedgerMovesToAHead`: with two migrations at once, killed anywhere, the ledger
  is empty or the head of a binary, and the schema is what the ledger says.

`IndInv` is a module's invariant of the proofs; TLC checks it too (as a part of
`WellFormed` in `CollectSync`, `PeriodPlans`, `EventLedger`, `SessionTranscript`,
`ReportShelf` and `WritingStyles`), so that what is proved inductive is also seen to be reachable.
`WellFormed` is a module's `TypeOK` together with its smaller invariants. Each
property has a mutant in `PROJECT.json`, a definition changed as a plausible bug
would change it, for which its run reports a violation.

**Bounds.** `MaxTurn`, `MaxProposal`, `MaxRevision`, `MaxSession`, `MaxFacts`,
`NItems`, `NEvents`, `NStyles`, `NReports` cap AUTOINCREMENT counters and
revisions; `MaxCalls`, `MaxOperations` (reads and writes of the shelf together),
`MaxEvents` the calls of a behaviour; `MaxFaults`, `MaxIncidents` failed statements,
crashes, what the repository does unasked and what a user does aside from a turn;
`MaxClock`, `MaxTime` dates. Two of most suffice:
a hazard here is a pair of actors, or an actor and a later row, and the second
row is where a forgotten WHERE clause, a missing supersede or a reused revision
shows. Where three are needed there are three: a deferral chain with a link,
three events on two pages, an entry before, at and after a binary's head. A month
of one week and a month of two let a deferral stay in or leave its month.
`PageSize` 1 cuts every answer of the forge of two commits, `Limit` 1 every list of two
reports; three operations are two pages and the write between them, or a query, a
write and its refresh, or the three queries that exceed a budget of two. `transcript`
has one turn, because two of three pieces exceed what TLC can hold; what two streams
of one session do to each other is `GenerationTurns`'s subject, and that one turn
cites the results of another, or that both append to one transcript, is in the
theorems, which have no bound. `turns_safety` has one source revision: regenerations occur in `turns_live` and
`variants`, and in the theorems whatever the bounds. Between them the passing runs fire every action of every module.

**Deadlock** is checked in `ledger`, where a process can always be started
again. Elsewhere the bounds are exhausted, or every session is archived or the
report deleted, and the modelled system really is at rest.

**Symmetry** is used in safety runs only, over request slots that occur in no
definition by name. Sessions and sources are not permuted, because
`AnySession` chooses one and a sync of all takes sources in order.

**Fairness** (`FairSpec` of `GenerationTurns`). The statements of a running
handler are eventually executed: goroutines are scheduled and SQLite answers. A
provider call whose context is cancelled returns, because every HTTP call of
`internal/aiclient` is bound to it. Nothing else is assumed: the client sets no
timeout, so `ProviderReturns` is not fair and a silent provider keeps a turn
working for ever; a user need not stop, disconnect or ask again. Weak fairness is
enough since no other actor disables a step of a running handler. `StopEndsTurn`
speaks of a stop that runs after the last fault: a stop whose own statement
fails reports the error and ends nothing. The other modules promise nothing that
must happen: every request of theirs is a fixed number of statements.

## 4. Proofs

All theorems are for every set of actors and every bound, from the named
assumption of their module alone: natural bounds, and of sessions, model steps,
revisions, reports, weeks and rows of a page at least one (`BoundsAssumption`,
`TranscriptAssumption`, `ShelfAssumption`); for collection at least one branch, the
current one among them; for plans a month for each week and finitely many events;
for the ledger no initial ledger longer than the journal, and servers that do not
migrate; for styles distinct built-in keys that fit the table. They are checked by TLAPS with SMT, Zenon and LS4.

**Recursion and sorting.** The reader's lists are data that code computes in a loop:
sorted rows, pages cut from them, a deferral chain, ranges of lines. The library's
induction rules take an operator as a parameter, which the provers cannot
instantiate, but its theorem that a well-founded order has minimal elements
(`WFMin`, with `NatLessThanWellFounded`) takes none. From it comes `Least`: a set of
naturals that is not empty has a least element, and what is said of every number is
proved by looking at the least one it fails for. A sorted list is a `CHOOSE` of a
sequence in order, whose existence follows from finite sets having a last element
(`HasLast`, `ListingExists`). A recursive function is met through its equation
(`IsReading`, `IsMatching`): that some function satisfies it is shown with `Least`, so
that the one the definition chooses does.

**Turns** (`GenerationTurns_proofs`). The safety properties are not inductive by
themselves. That a second turn cannot start is in `startGenerationTurn`; that it
never becomes one of two needs that nobody writes "working" into an old row, and
that a proposal lands behind all earlier ones of its session needs that the turn
in progress is the newest of the session (`WorkingIsLatest`) and that proposals
belong to existing turns (`ProposalsHaveTurns`). `NoHangingTurn` needs that a
handler past its update really wrote an end that nobody undid
(`WrittenEndsStay`), and that handlers hold rows that exist (`HoldersHaveRows`,
`FinishersKnowTheirEnd`, `RowsFollowCounter`). Their conjunction, `IndInv`, is
shown inductive action by action; `TypeOK`, `OneWorkingTurn`,
`ProposalsFollowTurns`, `PendingIsLatest`, `NoHangingTurn`, `StatusPartSettles`
follow, and `EndedTurnIsOver` from one step under it.
`Refinement` proves `Spec => ImplementsExclusion`:
every action is a `Begin`, `Propose`, `Accept` or `End` of its session, or stutters.
`ReviewRefinement` proves `Spec => ImplementsReview`, where a regeneration is a `Redraft`
because no session is of a draft to come and an acceptance finds its proposal under
review or accepted already (both in `SessionsAreOfDrafts`). `Implementation` is both.

**Variants** (`ReportVariants_proofs`). Between a read and its write a handler
holds rows that other handlers may have replaced, so the invariant must say what
is still true of them: `HeldFits` (a session about to be inserted holds the draft
of a revision that has snapshots, if the report is there; a save holds an accepted
proposal of its own audience, or one whose rows are gone). `RowsFollowReport`,
`DraftsAreDrafts` and `ProposalsHaveSessions` tie rows to their owners. All
safety properties follow from `IndInv`, with `SessionKeepsItsDraft` and
`NothingOutlivesReport`, and `Refinement` proves `Spec => ImplementsFinals`.
`ReviewRefinement` proves `Spec => ImplementsReview`: a session inserted after the
regeneration that overtook it opens outdated, one inserted after the deletion belongs
to nothing, and a regeneration outdates all, since a session's revision has snapshots
and the next revision has none. `Implementation` is both.

**Ledger** (`ServerDatabase_proofs`, whose two halves are the two modules of the server's
own tables). `SchemaMatchesLedger` speaks of what is
committed, so the invariant must say what the writer will commit:
`TransactionExtends` (its copy is the database with the entries up to the loop's
applied, and the database is still the one it began with), which needs that the
writer is alone (`WriterIsAlone`). That a process which saw the ledger's table
before it began finds it again keeps a migration from creating it twice.

**Styles** (`ServerDatabase_proofs`). No handler uses a transaction, so the invariant
says what each statement has left behind. Half way through two overlapping seedings the
table is in no state that either alone would leave: what is always true is that the
built-in rows present are the first so many (`SeededSoFar`), that a seeding has at least
its own rows behind it, and that unless none or all are there one of the seedings on
their way goes on to the end (`Completes`: it has not yet met a row it takes for a
duplicate, or it is the kind that skips them). The hard steps are an insertion, after
which another seeding may have to take over as the one that completes, and one that
stops at a row it finds, which may only be if another completes or all is there.
`SeedingCompletes` derives `SeedingIsComplete`, for `StylesWellFormed`.
`ReleasedSoFar` follows a deletion through its statements: once the reports are cleared
none names the style, once the templates are reset none does, but for those saved since
(`late`) and those reset to the style itself, when it is the first built-in one;
`DeletionReleases` is its last step.

**Collection** (`CollectSync_proofs`). That a cursor hides nothing is not a fact about
rows alone: a sync writes back, minutes later, the configuration it read, and so
does an edit. The invariant says it of every configuration anybody holds
(`CursorsAreTrusted`, and `Trusted` in `Fits`), and of what a sync on its way has
fetched (`Fetched`: up to the newest date, all there is was before the cursor, is
in its hands, or came late). It survives the changes of the repository because
cursors are dates that were seen (`IsPast`): what is pushed now is not before
them. `NoDuplicates` needs the operation lock: the commits a sync read as known
are still the known ones when it inserts, since a second writer of the source's
events would hold the same lock (`LocksAreOwned`). Theorems: `NoDuplicatesHolds`,
`LocksHold`, `CursorsCover`, and `WellFormedHolds`, which is `IndInv` itself.

**Plans** (`PeriodPlans_proofs`). Checks and writes are apart, so `Fits` says what a
handler has checked by each of its statements; it stays true because the period
and the origin of an item never change and an id is not used again (`Frame`).
With `LinksAreLive` (a deletion unlinks the children) the week items of a month
are each shown once, `WeekItemsReviewed`; with `CommentsFollowItems` the warning
counts what the page lists, `CitedBy`. `ParentsHold`, `DeferralsHold` are parts of the
invariant. What the two readers of fulfilment compute is recursion along deferral
links. The origin of an item is of the period before its own, so that no chain returns:
`ChainIsOrigins` proves that the recursive chain of an item is the smallest set closed
under origins (`ReachedIsClosed`), whereupon the counts are those of the declarative
definition, `ReviewCountsOnce`. `CitesHold` (only live events cite, because deleting an
event deletes its rows with it) gives `BadgesAreTrue`.

**Events** (`EventLedger_proofs`). The tables beside an event are written in the
transaction of its text; what must be added is the rest of the picture:
collected events have no such rows (`CollectedEventsAreBare`), a reference may
stand to an event deleted or yet to come (`ReferencesFollowText`), and a request
between two statements holds an event whose source is as it read it
(`HeldRowsExist`). Theorems: `TagsMirrorUnlessSelfRenamed`, `ReferencesMirror`,
`DeletionClears`, `WellFormedHolds`. `PagesListOnce` is about the whole reading of a
timeline: by induction over its pages, what was read is the part of the list down to
the cursor, each event once and in order (`PageFacts`, `ReadingGoesOn`); since a list of
distinct events is no longer than their number (`DistinctIsShort`), the last page is
reached (`AllPagesAreRead`).

**Transcript** (`SessionTranscript_proofs`). What a stream hears is in its memory
before it is in a row, and rows are written by the stream, a stop, the page's
refresh and direct edits; the deletion of the report takes them off the record. `WritersOwnTheirParts` says that each writer's part is its
own and holds a beginning of what it heard, all of it once flushed, unless a
statement failed; other writers of the table leave that alone (`WriterFrame`: they
only add parts or change a status). `ReturnedKeep` is that clause at the end of the
stream, for parts that were not deleted. A proposal cites the query results stored so
far, and its own answer is stored after it: between the two statements
`ProposalsAreKnown` says that its citations are query results, and all that
preceded its call or are of its turn; when the answer is stored this is
`ProposalsCiteWhatWasRead` (`ProposalsCite`), which no later part disturbs since later
results come behind the answer (`CitesKept`). `CallsAreAnswered` says that the unanswered calls of a running turn are
those its stream still holds, in order, so that a completed turn, which holds none,
has answered all (`CallsFollow`). `PageFollows` keeps what the page owes on record
between its three reads, for `PageBacked`; sequences without a gap, from one
again behind what was deleted (`PartsAreNumbered`, `Place`), give `OnlyGrows`. A deletion
changes `gone` alone (`DeleteReportPreserves`), and `gone` changes by it alone
(`GoneMoves`). One lemma, `Frame`, has what an action must
keep of each part of the invariant; an action proves only what it disturbs.

**Shelf** (`ReportShelf_proofs`). `ReportsFit` describes a report whichever writes it has
seen; `HeldFits` what a reader's rows still say of reports that were written since
(`WritesKeepHeld`): rows are of reports that had variants, a leadership session holds
leadership texts only, a held revision still has its snapshots. The chain of a turn's
pages needs more, because a report must not fall between two of them: the pages so far
descend and lie before the cursor (`PagesDescend`), a report that goes on matching is
on them or behind the cursor (`SteadyIsAhead`), and while a page is being made it is
among the rows read for it (`TurnFollowsChain`). That a page continues the chain is a
fact about sorting and cutting (`PageFacts`, `ChainContinues`). `RangesCover` is an
induction over the lines of a text: the ranges after n lines are the windows of the
matches among them, in order and apart (`MatchingLine`). Theorems: `LeadershipReads`,
`PagesSteady`, `ShownTrue`, and `WellFormedHolds`, of which `ToolsAgree` compares what the
two tools say of one report.

**Model-checked only:** the two liveness properties (fairness and ENABLED are
beyond the prover), and the disagreements of section 5, which are counterexamples.
Every invariant, action property and refinement the passing runs check is a theorem.

## 5. Where the code and its words disagree

Two are runs of their own, whose counterexample is the schedule:

- `variants_stale_save`: a final that names an outdated source revision is to be
  refused; a regeneration between the check and the transaction lets it in, marked
  current.
- `tags_self_rename`: a tag renamed to itself loses its rows in the tag table and
  stays in the text.

The others are formulas of their modules, marked "Not kept by the code". Add the
formula to the configuration named here to see TLC's counterexample.

| Formula | Configuration | What happens |
|---|---|---|
| `ArchivedSessionIsQuiet` | `turns_live`, INVARIANT | archiving checks and writes in two statements; a turn started in between works on in an archived session (`api/reports/sessions.go:621`) |
| `ReturnedStreamIsFinished` | `turns_safety`, INVARIANT | `StreamTurn` is documented to return only with the turn finished; `fail()` drops the error of its update and the session stays blocked until a stop (`engine/engine.go:269`, `:414`) |
| `StopLeavesEndedTurnAlone` | `turns_safety`, PROPERTY | a turn completed between a stop's read and its write becomes aborted (`engine/engine.go:198`, `:213`) |
| `AcceptedRecordIsKept` | `variants`, PROPERTY | an acceptance between the guard and the transaction of a deletion is deleted with the report (`api/reports/handlers.go:565`, `CONTEXT.md:261`) |
| `LegacyFinalIsKept` | `variants`, PROPERTY | the content of a legacy report counts as its personal final, and finals survive regeneration; the first regeneration overwrites it (`reports/service.go:488`, `CONTEXT.md:171`, `:273`) |
| `DelayedPushIsCollected` | `collect`, INVARIANT | the cursor is to keep late pushes from being missed; a commit that arrives with a date before it is never asked for (`api/collect/sync.go:431`, `CONTEXT.md:24`) |
| `OnlyOpenItemsAreDeferred` | `plans`, PROPERTY | an item finished between the check and the update is marked deferred (`api/plans/defer.go:118`) |
| `PagesListEventsOnce` | `events`, INVARIANT | the list is ordered by time, its cursor by time and id; events of one second on a page's border are repeated or missed (`db/events.sql.go:270`, against `api/events/events_test.go:270`) |
| `ExactlyOneDefault` | `styles`, INVARIANT | a style created as default leaves the old one default; a cut-off change of the default leaves none (`api/prompts/handlers.go:127`, `CONTEXT.md:344`) |
| `LegacyItemsHaveNoVariants` | `shelf`, PROPERTY | a report regenerated for the first time between two statements of the list tool is listed as a legacy one (`engine/tools/report_list.go:471`, against `report_list_test.go:387`) |
| `PartsFollowWhatHappened` | `transcript`, INVARIANT | one text part holds the text of all model steps, so what was said after a call stands before it (`engine/engine.go:310`, `CONTEXT.md:253`) |

**Known races without a formula.** A session created while its report is deleted
is inserted after the deletion and remains, because the table has no foreign key
(`OpenWrite` allows it; `NothingOutlivesReport` therefore speaks of variants,
snapshots and proposals). A direct edit of a final that overlaps an acceptance
makes itself the baseline of the proposal it read, not of the one just accepted
(`BaselineEdited`). A turn whose reload fails after its commit has no stream
(`ReloadFails`, counted as a fault); a deletion of the report in that place has
the same effect. A report deleted while a stream of it runs leaves behind the
parts that the stream inserts afterwards, numbered from one, of a session that is
gone; a page read across the deletion may show parts without their turns
(`PageIsBacked` and `TranscriptOnlyGrows` except both). A sync of all forgets the results of the sources before the
first busy one (`NextBusy`); the events are kept.

## 6. What is left out

Within the modelled components:

- `GenerationTurns`, `ReportVariants`: the words of drafts, prompts and errors;
  titles, renaming and restoring of sessions; validation of request bodies
  before the first statement. A crash between the statements of a variants
  handler is `GiveUp`, since its only writes are in one transaction. The version of
  the week's events (`facts`) never returns to an earlier one, so that drafts of
  different events differ; equal texts of different versions are no hazard to
  any property.
- `CollectSync`: aliases and stored tokens, a change of a source's type, an owner
  change (which keeps the cursors), cursors a client sends when it creates a
  source, additions, bulk operations, and the limit on the forge's pages beyond
  "an answer may be cut".
- `PeriodPlans`: texts, priorities, and positions (maximum plus one, read before the
  insert; two items may share one, and the id decides); weeks that begin on
  another day; authors of comments.
- `EventLedger`: filters by text and date, sources other than manual and collected.
- `WritingStyles`: editing a system prompt; snippets, settings, and the first save of the
  provider's configuration, where two requests may each insert a row and the
  oldest is read from then on.
- `ReportShelf`: filters by title, text and date, character budgets, paging by
  OFFSET, the search page, times of update.
- `SessionTranscript`: that `persistedResults` drops later automatic results of a tool
  once one was refreshed, and two refreshes within one second; the session page's
  last two reads, the query snapshots and the variant, of which it computes the flags
  that references or sources changed; the look for accepted proposals before a
  deletion's transaction, which is in `ReportVariants` (here a report with any
  proposals may be deleted).

Components with no module are `not_modelled` in `PROJECT.json`, each with its
reason: those of the plan below; HTTP plumbing, SSE framing, the provider
protocols, the JavaScript compatibility helpers (pure conversions, covered by
tables of tests), the web client, and the former TypeScript sources, which the Go
service replaced. In these a token revoked while its request runs is the one race seen:
the request completes.

## 7. Plan

Done: the turn engine and its abstract specification, the report's variants and
theirs, the review of a session that both implement, the transcript, the report tools and pages, collection, plans, events
with tags and references, styles and templates, the migration ledger. Left, in
this order:

1. `SourceDraft`: grouping, ordering and audience filter as functions on short
   event lists against a declarative definition, and a theorem by `Least` for lists
   of any length.
2. `AuthAudit`: a token revoked while its request runs; the audit record after
   the response.
