---------------------------- MODULE CollectSync ----------------------------
(***************************************************************************)
(* Collecting commits from Git: the rows of collect_sources, the sync of   *)
(* one source and of all, the manual fetch, and the edits of a source that *)
(* may overlap with them.                                                  *)
(*                                                                         *)
(* All sources watch one repository (which the environment changes), so    *)
(* several sources of one repository occur.  A commit is the second it was *)
(* committed in, its committer date, the unit the cursors are compared in  *)
(* by `git log'; there is one per second, by an author the sources collect *)
(* for.  A branch is a number, in alphabetical order; Unnamed is the entry *)
(* {name: ""} that stands for the default branch of a remote repository.   *)
(***************************************************************************)
EXTENDS Integers, Sequences, FiniteSets

CONSTANTS
  Sources,        \* ids of collect_sources (AUTOINCREMENT: never used again)
  Requests,       \* HTTP requests being served
  NBranches,
  Current,        \* the branch checked out, the default branch
  PageSize,       \* commits of one page of the forge's API (100 in the code)
  MaxClock,       \* bound: seconds
  MaxIncidents    \* bound: incidents

ASSUME CollectAssumption ==
  /\ Sources \subseteq Nat \ {0}
  /\ NBranches \in Nat \ {0} /\ Current \in 1..NBranches
  /\ PageSize \in Nat \ {0} /\ MaxClock \in Nat \ {0} /\ MaxIncidents \in Nat

VARIABLES
  row,            \* collect_sources
  events,         \* raw_events of a source and commit: the branches they name
  lock,           \* the requests that hold the operation lock of a source
  request,        \* requests between their statements
  clock,
  branch,         \* branches of the repository
  late,           \* commits a cursor may pass unseen: see Push, CreateBranch, Page
  incidents       \* those that happened: see Incident

db == <<row, events>>
repository == <<clock, branch, late, incidents>>
vars == <<db, lock, request, repository>>

Branches == 1..NBranches
Unnamed == 0
Names == {Unnamed} \union Branches
Absent == -1
Commits == 1..MaxClock
Dates == 0..MaxClock             \* of a cursor: 0 is null
NoCursors == [n \in Names |-> Absent]
NoBranch == -1
NoSource == 0

Config == [emails : BOOLEAN, branches : [Names -> {Absent} \union Dates],
           cursors : [Names -> {Absent} \union Dates], paths : SUBSET Branches]
NewConfig(e, B) ==
  [emails |-> e, branches |-> [n \in Names |-> IF n \in B THEN 0 ELSE Absent],
   cursors |-> NoCursors, paths |-> {}]

Named(c) == {n \in Names : c.branches[n] # Absent}
EmptyConfig == NewConfig(FALSE, {})

Row == [state : {"absent", "live", "deleted"}, type : {"git-local", "remote"},
        config : Config,
        status : {"enabled", "disabled", "unavailable"},
        last : {"never", "success", "failed"}]

\* What a request holds between two statements.  queue: the sources left to
\* sync; all: the sync of all local branches; todo: the branches left to list;
\* first: the branch a fetched commit is attributed to; newest: the greatest
\* committer date fetched per branch, 0 if nothing was.
Request ==
  [op : {"idle", "emails", "migrate", "collect", "insert", "save", "fail",
         "noRepository", "next", "fetch", "put", "patch", "delete"},
   source : Sources \union {NoSource}, resync : BOOLEAN,
   queue : SUBSET Sources, type : {"git-local", "remote"}, config : Config,
   all : BOOLEAN, heads : SUBSET Branches, todo : SUBSET Names,
   now : Dates, first : [Commits -> {NoBranch} \union Names],
   newest : [Names -> Dates], ok : BOOLEAN, known : SUBSET Commits]
Idle ==
  [op |-> "idle", source |-> NoSource, resync |-> FALSE, queue |-> {},
   type |-> "git-local", config |-> EmptyConfig, all |-> FALSE, heads |-> {},
   todo |-> {}, now |-> 0, first |-> [c \in Commits |-> NoBranch], newest |-> [n \in Names |-> 0],
   ok |-> FALSE, known |-> {}]

TypeOK ==
  /\ row \in [Sources -> Row]
  /\ events \in [Sources -> [Commits -> Seq(Names)]]
  /\ lock \in [Sources -> SUBSET Requests]
  /\ request \in [Requests -> Request]
  /\ clock \in 1..MaxClock
  /\ branch \in [Branches -> [state : {"never", "live", "gone"}, has : SUBSET Commits]]
  /\ late \subseteq Names \X Commits
  /\ incidents \in 0..MaxIncidents

\* A row may be from before branches were recorded by name (config.paths).
Init ==
  /\ row \in [Sources ->
       {[state |-> st, type |-> "git-local",
         config |-> [EmptyConfig EXCEPT !.emails = TRUE, !.paths = {Current}],
         status |-> "enabled", last |-> "never"] :
          st \in {"absent", "live"}}]
  /\ events = [s \in Sources |-> [c \in Commits |-> <<>>]]
  /\ lock = [s \in Sources |-> {}]
  /\ request = [r \in Requests |-> Idle]
  /\ clock = 1
  /\ branch = [b \in Branches |->
       [state |-> IF b = Current THEN "live" ELSE "never", has |-> {}]]
  /\ late = {}
  /\ incidents = 0

\* What the bound counts: late pushes, deleted branches, resyncs, edits,
\* failing listings and statements, crashes.
Incident ==
  /\ incidents < MaxIncidents
  /\ incidents' = incidents + 1

(***************************************************************************)
(* The repository.                                                         *)
(***************************************************************************)
Tick ==
  /\ clock < MaxClock
  /\ clock' = clock + 1
  /\ UNCHANGED <<db, lock, request, branch, late, incidents>>

\* A commit arrives on a branch when it is made.
Push(b) ==
  /\ branch[b].state = "live" /\ clock \notin branch[b].has
  /\ branch' = [branch EXCEPT ![b].has = @ \union {clock}]
  /\ UNCHANGED <<db, lock, request, clock, late, incidents>>

\* A commit made in another clone is pushed after its second.
PushLate(b, c) ==
  /\ Incident
  /\ branch[b].state = "live" /\ c \notin branch[b].has /\ c < clock
  /\ branch' = [branch EXCEPT ![b].has = @ \union {c}]
  /\ late' = late \union ({b} \union {n \in {Unnamed} : b = Current}) \X {c}
  /\ UNCHANGED <<db, lock, request, clock>>

\* A branch appears with the commits of another; if the name was in use
\* before, a cursor of the old branch may hide them.
CreateBranch(b, from) ==
  /\ branch[b].state # "live" /\ branch[from].state = "live"
  /\ branch' = [branch EXCEPT ![b] = [state |-> "live", has |-> branch[from].has]]
  /\ late' = IF branch[b].state = "gone" THEN late \union {b} \X branch[from].has ELSE late
  /\ UNCHANGED <<db, lock, request, clock, incidents>>

DeleteBranch(b) ==
  /\ Incident
  /\ branch[b].state = "live" /\ b # Current
  /\ branch' = [branch EXCEPT ![b] = [state |-> "gone", has |-> {}]]
  /\ UNCHANGED <<db, lock, request, clock, late>>

LocalBranchNames == {b \in Branches : branch[b].state = "live"}

\* What `git log' or the forge finds under a branch name.
Ref(n) == branch[IF n = Unnamed THEN Current ELSE n]
Reachable(n) == Ref(n).has
Resolves(n) == Ref(n).state = "live"

Log(n, since, until) == {c \in Reachable(n) : since <= c /\ c <= until}

\* The newest PageSize commits.
Page(S) == {c \in S : Cardinality({d \in S : d > c}) < PageSize}

(***************************************************************************)
(* Helpers.                                                                *)
(***************************************************************************)
\* Mutant: the lock is not looked at.
AcquireAnyway(r, s) == lock' = [lock EXCEPT ![s] = @ \union {r}]
Acquire(r, s) ==
  /\ lock[s] = {}
  /\ lock' = [lock EXCEPT ![s] = {r}]

Release(r, s) ==
  lock' = [lock EXCEPT ![s] = @ \ {r}]

At(r, op) == request[r].op = op
Goto(r, held) == request' = [request EXCEPT ![r] = held]
Step(r, op) == Goto(r, [request[r] EXCEPT !.op = op])

(***************************************************************************)
(* Queries.                                                                *)
(***************************************************************************)
GetCollectSource(s) == row[s].config
GetCollectSourceForExecution(s) ==
  [type |-> row[s].type, config |-> row[s].config,
   usable |-> row[s].state = "live" /\ row[s].status = "enabled"]
ListEnabledCollectSources ==
  {s \in Sources : row[s].state = "live" /\ row[s].status = "enabled"}
ListRawEventMetadataBySourceID(s) == {c \in Commits : events[s][c] # <<>>}
InsertCollectedRawEvent(s, C, first) ==
  events' = [events EXCEPT ![s] =
    [c \in Commits |-> IF c \in C THEN Append(@[c], first[c]) ELSE @[c]]]
DeleteCollectSource(s) == row' = [row EXCEPT ![s].state = "deleted"]

\* An update of a row that is gone has no effect.
UpdateCollectSource(s, changed) ==
  row' = [row EXCEPT ![s] = IF @.state = "live" THEN changed ELSE @]
UpdateCollectSourceForExecution(s, changed) == UpdateCollectSource(s, changed)
PatchCollectSource(s, changed) == UpdateCollectSource(s, changed)

IsFirst(n, S) == n \in S /\ \A m \in S : n <= m

\* Current branch first, then by name.
OrderBranchesForAttribution(n, todo) ==
  IF Current \in todo THEN n = Current ELSE IsFirst(n, todo)

Legacy(type, c) == type = "git-local" /\ c.paths # {}
AllBranchesMode(type, c) == type = "git-local" /\ Named(c) \ {Unnamed} = {}
NormalizeBranches(c) == IF Named(c) = {} THEN {Unnamed} ELSE Named(c)

(***************************************************************************)
(* Sync of one source.  Every way out answers the request or, when all are *)
(* synced, goes on with the next source.                                   *)
(***************************************************************************)
\* runSync begins: the mode, the branches and the time are settled.
Begin(held, c) ==
  LET all == AllBranchesMode(held.type, c) IN
  [held EXCEPT !.op = "collect", !.config = c, !.now = clock, !.all = all,
     !.heads = IF all THEN LocalBranchNames ELSE {},
     !.todo = IF all THEN LocalBranchNames ELSE NormalizeBranches(c)]

\* Mutant: a failed sync keeps its lock.
DoneKeepsLock(r) ==
  /\ Goto(r, IF request[r].queue = {} THEN Idle
             ELSE [Idle EXCEPT !.op = "next", !.resync = request[r].resync,
                               !.queue = request[r].queue])
  /\ IF At(r, "fail") THEN UNCHANGED lock ELSE Release(r, request[r].source)

\* The sync of a source is over with an answer: its lock is released, and
\* when all are synced the next one follows.
Done(r) ==
  /\ Goto(r, IF request[r].queue = {} THEN Idle
             ELSE [Idle EXCEPT !.op = "next", !.resync = request[r].resync,
                               !.queue = request[r].queue])
  /\ Release(r, request[r].source)

\* The row is read under the lock.  A source that cannot be synced is
\* answered at once and its lock released.
SyncSource(r, s, held) ==
  LET got == GetCollectSourceForExecution(s)
      h == [held EXCEPT !.source = s, !.type = got.type]
      c == got.config
  IN  /\ got.usable
      /\ Acquire(r, s)
      /\ Goto(r, CASE ~c.emails -> [h EXCEPT !.op = "emails"]
                   [] c.emails /\ Legacy(h.type, c) -> [h EXCEPT !.op = "migrate", !.config = c]
                   [] OTHER -> Begin(h, c))
      /\ UNCHANGED <<db, clock, branch, late>>

Sync(r, s, resync) ==
  /\ At(r, "idle")
  /\ IF resync THEN Incident ELSE UNCHANGED incidents
  /\ SyncSource(r, s, [Idle EXCEPT !.resync = resync])

\* The list of all sources that can be synced is read once.
SyncAll(r, resync) ==
  LET S == {s \in ListEnabledCollectSources : row[s].config.emails}
  IN  /\ At(r, "idle") /\ S # {}
      /\ IF resync THEN Incident ELSE UNCHANGED incidents
      /\ Goto(r, [Idle EXCEPT !.op = "next", !.resync = resync, !.queue = S])
      /\ UNCHANGED <<db, lock, clock, branch, late>>

NextSource(r, s) ==
  /\ At(r, "next") /\ IsFirst(s, request[r].queue) /\ UNCHANGED incidents
  /\ SyncSource(r, s,
       [Idle EXCEPT !.resync = request[r].resync, !.queue = request[r].queue \ {s}])

NextUnusable(r, s) ==
  /\ At(r, "next") /\ IsFirst(s, request[r].queue) /\ lock[s] = {}
  /\ ~GetCollectSourceForExecution(s).usable
  /\ Goto(r, IF request[r].queue = {s} THEN Idle
             ELSE [request[r] EXCEPT !.queue = @ \ {s}])
  /\ UNCHANGED <<db, lock, repository>>

\* The first busy source ends the whole request: the rest is not synced.
NextBusy(r, s) ==
  /\ At(r, "next") /\ IsFirst(s, request[r].queue) /\ lock[s] # {}
  /\ Goto(r, Idle)
  /\ UNCHANGED <<db, lock, repository>>

\* A source without e-mail addresses becomes unavailable.
NoEmails(r) ==
  LET s == request[r].source IN
  /\ At(r, "emails")
  /\ UpdateCollectSourceForExecution(s, [row[s] EXCEPT !.status = "unavailable"])
  /\ Done(r)
  /\ UNCHANGED <<events, repository>>

\* config.paths is replaced by the branches it names, without cursors.
MigrateLegacyPaths(r) ==
  LET s == request[r].source
      c == [request[r].config EXCEPT !.paths = {},
              !.branches = [n \in Names |-> IF n \in request[r].config.paths THEN 0 ELSE Absent]]
  IN  /\ At(r, "migrate")
      /\ UpdateCollectSourceForExecution(s, [row[s] EXCEPT !.config = c])
      /\ Goto(r, Begin(request[r], c))
      /\ UNCHANGED <<events, lock, repository>>

Cursor(h, n) ==
  LET stored == IF h.all THEN h.config.cursors ELSE h.config.branches
  IN  IF h.resync \/ stored[n] = Absent THEN 0 ELSE stored[n]

\* One branch: its listing fails, or its commits are added to what was
\* fetched.  The forge answers one page only, what is cut off is never seen.
CollectOneBranch(r, n) ==
  LET h == request[r]
      range == Log(n, Cursor(h, n), h.now)
      got == IF h.type = "remote" THEN Page(range) ELSE range
      listed == [h EXCEPT !.todo = @ \ {n}]
  IN  /\ At(r, "collect")
      /\ IF h.all THEN OrderBranchesForAttribution(n, h.todo) ELSE IsFirst(n, h.todo)
      /\ \/ /\ Incident \/ (~Resolves(n) /\ UNCHANGED incidents)
            /\ Goto(r, listed)
            /\ UNCHANGED late
         \/ /\ Resolves(n) /\ UNCHANGED incidents
            /\ \E date \in {0} \union got :
                 /\ \A c \in got : c <= date
                 /\ Goto(r, [listed EXCEPT !.ok = TRUE, !.newest[n] = date,
                      !.first = [c \in Commits |->
                        IF @[c] = NoBranch /\ c \in got THEN n ELSE @[c]]])
            /\ late' = late \union {n} \X (range \ got)
      /\ UNCHANGED <<db, lock, clock, branch>>

\* All branches are done.  A sync where every branch failed is a failure ...
SomeBranch(h) == h.ok \/ (h.all /\ h.heads = {})

AllBranchesFailed(r) ==
  /\ At(r, "collect") /\ request[r].todo = {} /\ ~SomeBranch(request[r])
  /\ Step(r, "fail")
  /\ UNCHANGED <<db, lock, repository>>

\* ... otherwise insertNewEvents reads the commits the source has ...
ReadKnown(r) ==
  LET h == request[r] IN
  /\ At(r, "collect") /\ h.todo = {} /\ SomeBranch(h)
  /\ Goto(r, [h EXCEPT !.op = "insert", !.known = ListRawEventMetadataBySourceID(h.source)])
  /\ UNCHANGED <<db, lock, repository>>

Fresh(r) == {c \in Commits : request[r].first[c] # NoBranch /\ c \notin request[r].known}

\* ... and inserts the others in one transaction.
InsertNewEvents(r) ==
  LET h == request[r] IN
  /\ At(r, "insert")
  /\ InsertCollectedRawEvent(h.source, Fresh(r), h.first)
  /\ Step(r, "save")
  /\ UNCHANGED <<row, lock, repository>>

\* Mutant: the cursor moves to the time of the sync.
PrunedToNow(h) ==
  [n \in Names |-> IF n \notin h.heads THEN Absent ELSE h.now]

\* The cursors of the heads there are: new, kept, or none.
BuildPrunedBranchCursors(h) ==
  [n \in Names |-> IF n \notin h.heads THEN Absent
                   ELSE IF h.newest[n] > 0 THEN h.newest[n]
                   ELSE IF h.config.cursors[n] = Absent THEN 0 ELSE h.config.cursors[n]]

UpdatedBranches(h) ==
  [n \in Names |-> IF n \notin NormalizeBranches(h.config) THEN Absent
                   ELSE IF h.newest[n] > 0 THEN h.newest[n]
                   ELSE IF h.config.branches[n] = Absent THEN 0 ELSE h.config.branches[n]]

\* The whole configuration is written, as it was read when the sync began.
Save(r, c) ==
  LET s == request[r].source IN
  /\ At(r, "save")
  /\ UpdateCollectSourceForExecution(s, [row[s] EXCEPT !.config = c, !.last = "success"])
  /\ Done(r)
  /\ UNCHANGED <<events, repository>>

SaveBranchCursors(r) ==
  /\ request[r].all
  /\ Save(r, [request[r].config EXCEPT !.cursors = BuildPrunedBranchCursors(request[r])])

SaveBranches(r) ==
  /\ ~request[r].all
  /\ Save(r, [request[r].config EXCEPT !.branches = UpdatedBranches(request[r])])

\* The local path is no repository, found before any branch is listed.
NoRepository(r) ==
  /\ Incident
  /\ At(r, "collect") /\ request[r].all
  /\ request[r].todo = request[r].heads
  /\ Step(r, "noRepository")
  /\ UNCHANGED <<db, lock, clock, branch, late>>

\* A statement of runSync fails, and so does the sync.
StatementFails(r) ==
  /\ Incident
  /\ request[r].op \in {"insert", "save"}
  /\ Step(r, "fail")
  /\ UNCHANGED <<db, lock, clock, branch, late>>

RecordFailure(r) ==
  LET s == request[r].source IN
  /\ request[r].op \in {"fail", "noRepository"}
  /\ UpdateCollectSourceForExecution(s, [row[s] EXCEPT !.last = "failed",
                  !.status = IF At(r, "noRepository") THEN "unavailable" ELSE @])
  /\ Done(r)
  /\ UNCHANGED <<events, repository>>

\* A statement outside runSync fails: nothing is recorded.
SyncError(r) ==
  /\ Incident
  /\ request[r].op \in {"emails", "migrate", "fail", "noRepository"}
  /\ Goto(r, Idle)
  /\ Release(r, request[r].source)
  /\ UNCHANGED <<db, clock, branch, late>>

(***************************************************************************)
(* Manual fetch: it takes the same lock and writes nothing.                *)
(***************************************************************************)
FetchLocalSource(r, s) ==
  /\ At(r, "idle") /\ row[s].state = "live" /\ row[s].type = "git-local"
  /\ Acquire(r, s)
  /\ Goto(r, [Idle EXCEPT !.op = "fetch", !.source = s])
  /\ UNCHANGED <<db, repository>>

FetchDone(r) ==
  /\ At(r, "fetch")
  /\ Done(r)
  /\ UNCHANGED <<db, repository>>

(***************************************************************************)
(* Edits.  Each reads the row and writes it in another statement, without  *)
(* the lock of the syncs.                                                  *)
(***************************************************************************)
SourceStatusFromConfig(emails, enabled) ==
  IF ~emails THEN "unavailable" ELSE IF enabled THEN "enabled" ELSE "disabled"

Create(r, s, type, e, enabled, B) ==
  /\ At(r, "idle") /\ row[s].state = "absent"
  /\ row' = [row EXCEPT ![s] = [state |-> "live", type |-> type,
       config |-> NewConfig(e, B),
       status |-> SourceStatusFromConfig(e, enabled), last |-> "never"]]
  /\ UNCHANGED <<events, lock, request, repository>>

\* PUT, PATCH and DELETE read the row.
ReadRow(r, s, op) ==
  /\ Incident
  /\ At(r, "idle") /\ row[s].state = "live"
  /\ Goto(r, [Idle EXCEPT !.op = op, !.source = s, !.config = GetCollectSource(s)])
  /\ UNCHANGED <<db, lock, clock, branch, late>>

\* Cursors stay with the branches whose name stays.
MergeEditedBranches(c, B) ==
  [n \in Names |-> IF n \notin B THEN Absent
                   ELSE IF c.branches[n] = Absent THEN 0 ELSE c.branches[n]]

PreservedBranchCursors(c) == c.cursors

Put(r, e, enabled, B) ==
  LET s == request[r].source
      c == request[r].config
  IN  /\ At(r, "put")
      /\ UpdateCollectSource(s, [row[s] EXCEPT !.status = SourceStatusFromConfig(e, enabled),
           !.config = [emails |-> e, branches |-> MergeEditedBranches(c, B),
                       cursors |-> PreservedBranchCursors(c), paths |-> {}]])
      /\ Goto(r, Idle)
      /\ UNCHANGED <<events, lock, repository>>

\* PATCH of the status alone, or of a branch that is not the last one: then
\* the configuration read before is written back without it.
PatchStatus(r, status) ==
  LET s == request[r].source IN
  /\ At(r, "patch")
  /\ PatchCollectSource(s, [row[s] EXCEPT !.status = status])
  /\ Goto(r, Idle)
  /\ UNCHANGED <<events, lock, repository>>

RemoveBranch(r, b) ==
  LET s == request[r].source
      c == request[r].config
  IN  /\ At(r, "patch") /\ b \in Named(c) /\ Named(c) # {b}
      /\ PatchCollectSource(s, [row[s] EXCEPT !.config = [c EXCEPT !.branches[b] = Absent]])
      /\ Goto(r, Idle)
      /\ UNCHANGED <<events, lock, repository>>

\* The row is deleted, its events stay.
Delete(r) ==
  /\ At(r, "delete")
  /\ DeleteCollectSource(request[r].source)
  /\ Goto(r, Idle)
  /\ UNCHANGED <<events, lock, repository>>

\* A PUT, PATCH or DELETE whose write fails; also invalid bodies.
EditFails(r) ==
  /\ request[r].op \in {"put", "patch", "delete"}
  /\ Goto(r, Idle)
  /\ UNCHANGED <<db, lock, repository>>

\* The process dies: locks and requests are in its memory.
Crash ==
  /\ Incident
  /\ \E r \in Requests : ~At(r, "idle")
  /\ request' = [r \in Requests |-> Idle]
  /\ lock' = [s \in Sources |-> {}]
  /\ UNCHANGED <<db, clock, branch, late>>

SyncStep(r) ==
  \/ \E s \in request[r].queue : NextSource(r, s) \/ NextUnusable(r, s) \/ NextBusy(r, s)
  \/ \E n \in request[r].todo : CollectOneBranch(r, n)
  \/ FetchDone(r)
  \/ NoEmails(r) \/ MigrateLegacyPaths(r) \/ NoRepository(r)
  \/ AllBranchesFailed(r) \/ ReadKnown(r) \/ InsertNewEvents(r)
  \/ SaveBranchCursors(r) \/ SaveBranches(r) \/ StatementFails(r) \/ RecordFailure(r) \/ SyncError(r)

EditStep(r) ==
  \/ \E e, enabled \in BOOLEAN, B \in SUBSET Branches : Put(r, e, enabled, B)
  \/ \E status \in {"enabled", "disabled", "unavailable"} : PatchStatus(r, status)
  \/ \E b \in Branches : RemoveBranch(r, b)
  \/ Delete(r) \/ EditFails(r)

Begins(r, s) ==
  \/ \E resync \in BOOLEAN : Sync(r, s, resync)
  \/ FetchLocalSource(r, s)
  \/ \E type \in {"git-local", "remote"}, e, enabled \in BOOLEAN, B \in SUBSET Branches :
       Create(r, s, type, e, enabled, B)
  \/ \E op \in {"put", "patch", "delete"} : ReadRow(r, s, op)

Environment ==
  \/ Tick
  \/ \E b \in Branches : Push(b) \/ \E c \in Commits : PushLate(b, c)
  \/ \E b \in Branches : DeleteBranch(b) \/ \E from \in Branches : CreateBranch(b, from)

Next ==
  \/ Environment
  \/ Crash
  \/ \E r \in Requests :
       \/ SyncStep(r) \/ EditStep(r)
       \/ \E resync \in BOOLEAN : SyncAll(r, resync)
       \/ \E s \in Sources : Begins(r, s)

Spec == Init /\ [][Next]_vars

(***************************************************************************)
(* Properties.                                                             *)
(***************************************************************************)
\* A source holds a commit once, however often it is fetched: again because
\* the cursor is inclusive, on several branches, by a resync, after a
\* failure or a crash between the insert and the cursors, after an edit.
NoDuplicates ==
  \A s \in Sources, c \in Commits : Len(events[s][c]) <= 1

Covers(s, cursor) ==
  \A n \in Names : \A c \in Reachable(n) :
    c < cursor[n] => events[s][c] # <<>> \/ <<n, c>> \in late

\* No cursor is ahead of the events: what lies before it was inserted, in
\* whatever order syncs, failures, crashes and edits come, except commits
\* that appeared after their date or were cut off by the forge's page.
CursorCovers ==
  \A s \in Sources :
    row[s].state = "live" =>
      Covers(s, row[s].config.branches) /\ Covers(s, row[s].config.cursors)

WorksOn(h, s) == h.source = s /\ h.op \notin {"put", "patch", "delete"}

\* A source is locked by the one sync or fetch that works on it, and by
\* nobody when none does, whichever way the last one ended.
LocksAreOwned ==
  \A s \in Sources :
    /\ lock[s] = {r \in Requests : WorksOn(request[r], s)}
    /\ \A r, q \in lock[s] : r = q

(***************************************************************************)
(* The inductive invariant.  A cursor may be trusted wherever it is kept,  *)
(* in a row or with a request that read it: nothing but what came late is  *)
(* found before it that the source has not got.  A sync on its way relies  *)
(* on its lock: the events of its source are the ones it read.             *)
(***************************************************************************)
BranchesHaveAPast ==
  /\ branch[Current].state = "live"
  /\ \A b \in Branches :
       /\ branch[b].state # "live" => branch[b].has = {}
       /\ \A c \in branch[b].has : c <= clock

\* Cursors are moved to dates that were seen on the branch.
IsPast(cursor) ==
  \A n \in Names : cursor[n] <= clock /\ (Ref(n).state = "never" => cursor[n] <= 0)

Trusted(s, config) ==
  /\ IsPast(config.branches) /\ Covers(s, config.branches)
  /\ IsPast(config.cursors) /\ Covers(s, config.cursors)

CursorsAreTrusted == \A s \in Sources : Trusted(s, row[s].config)

\* What a sync has fetched of a branch, from its cursor to the newest.
Fetched(h) ==
  /\ h.now <= clock
  /\ IsPast(h.newest) /\ \A n \in Names : h.newest[n] <= h.now
  /\ \A n \in Names : \A c \in Reachable(n) :
       c < h.newest[n] => c < Cursor(h, n) \/ h.first[c] # NoBranch \/ <<n, c>> \in late

Fits(h) ==
  /\ h.op \in {"idle", "next"} <=> h.source = NoSource
  /\ h.op = "next" => h.queue # {}
  /\ h.source # NoSource => Trusted(h.source, h.config)
  /\ h.op = "migrate" => h.newest = Idle.newest
  /\ h.op \in {"collect", "insert", "save"} => Fetched(h)
  /\ h.op = "insert" => h.known = ListRawEventMetadataBySourceID(h.source)
  /\ h.op = "save" => \A c \in Commits : h.first[c] # NoBranch => events[h.source][c] # <<>>

IndInv ==
  /\ TypeOK
  /\ LocksAreOwned
  /\ NoDuplicates
  /\ BranchesHaveAPast
  /\ CursorsAreTrusted
  /\ \A r \in Requests : Fits(request[r])

\* Rows, cursors and requests are of their types, every lock has its owner, and
\* a sync holds what its cursors may be moved to.
WellFormed == IndInv

\* Not kept by the code: CONTEXT.md:24 says the cursor keeps commits that are pushed late from
\* being missed: every commit before a cursor was collected.
DelayedPushIsCollected ==
  \A s \in Sources, n \in Names : \A c \in Reachable(n) :
    row[s].state = "live"
      /\ (c < row[s].config.branches[n] \/ c < row[s].config.cursors[n])
      => events[s][c] # <<>>
=============================================================================
