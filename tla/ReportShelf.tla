---------------------------- MODULE ReportShelf ----------------------------
(***************************************************************************)
(* The reports as they are read: by the two query tools a generation       *)
(* session's model calls, by the user who refreshes such a query, and by   *)
(* the pages that list and show reports.                                   *)
(*                                                                         *)
(* Every read is several statements without a transaction: reports are     *)
(* created, regenerated, adopted, edited and deleted in between.  (How     *)
(* those writes race with each other is the subject of ReportVariants; a   *)
(* write is one action here, and a deletion may follow an adoption that it *)
(* did not see.)  A text is the audience it was finished for, a draft, or  *)
(* what a report from before audience variants holds.                      *)
(***************************************************************************)
EXTENDS Integers, FiniteSets, Sequences, SequencesExt

CONSTANTS
  NReports,       \* bound: ids of reports; the session is one of report 1
  NWeeks,         \* bound: weeks reports are about
  Limit,          \* reports on a page of the list tool
  MaxHistory,     \* queries a turn may make
  MaxContent,     \* of those, queries of a report's text
  NLines,         \* bound: lines of a text
  MaxRevision,    \* bound: source revisions of a report
  MaxOperations,  \* bound: writes of reports and reads begun
  Permissions     \* bound: what queries allow of stale finals and legacy texts

ASSUME ShelfAssumption ==
  /\ {NReports, NWeeks, Limit, MaxRevision} \subseteq Nat \ {0}
  /\ {MaxHistory, MaxContent, NLines, MaxOperations} \subseteq Nat
  /\ Permissions \subseteq [stale : BOOLEAN, legacy : BOOLEAN]

VARIABLES
  report,         \* reports, their variants and the revisions with event snapshots
  audience,       \* generation_sessions.variant of the session
  budget,         \* queries the turn has asked for
  ran,            \* queries the turn was not refused
  chain,          \* the list query the turn follows from page to page
  snapshot,       \* generation_query_snapshots of the session
  reader,         \* the turn, the refreshing user and the browser between statements
  writes,         \* writes done
  calls           \* reads begun

vars == <<report, audience, budget, ran, chain, snapshot, reader, writes, calls>>

Reports == 1..NReports
Audiences == {"leadership", "personal"}
Readers == {"turn", "user", "browser"}
Texts == {"none", "draft", "legacy"} \union Audiences
Own == 1

Report ==
  [state : {"absent", "live", "deleted"}, week : 1..NWeeks, content : Texts,
   revision : 0..MaxRevision,             \* 0: no variants
   snapshots : SUBSET (1..MaxRevision),
   final : [Audiences -> Texts], status : [Audiences -> {"none", "current", "stale"}],
   adopted : [Audiences -> BOOLEAN]]

ForBoth(x) == [a \in Audiences |-> x]
LegacyReport(w) ==
  [state |-> "live", week |-> w, content |-> "legacy", revision |-> 0, snapshots |-> {},
   final |-> ForBoth("none"), status |-> ForBoth("none"), adopted |-> ForBoth(FALSE)]
NewReport(w) ==
  [LegacyReport(w) EXCEPT !.content = "draft", !.revision = 1, !.snapshots = {1}]
AdoptedReport(w) ==
  [NewReport(w) EXCEPT !.content = "personal", !.final = [a \in Audiences |-> a],
                       !.status = ForBoth("current"), !.adopted = ForBoth(TRUE)]
NoReport == [LegacyReport(1) EXCEPT !.state = "absent"]

Live == {r \in Reports : report[r].state = "live"}
Modern(table) == {r \in Reports : table[r].state = "live" /\ table[r].revision > 0}

(***************************************************************************)
(* A list query and a content query, and what is held on the way.          *)
(***************************************************************************)
NoCursor == <<>>
ListQuery ==
  [relation : {"overlap", "previous_adjacent"}, stale : BOOLEAN, legacy : BOOLEAN,
   cursor : {NoCursor} \union (1..NWeeks) \X Reports]
FirstPage == [relation |-> "overlap", stale |-> FALSE, legacy |-> FALSE, cursor |-> NoCursor]
ContentQuery == [report : Reports, stale : BOOLEAN, legacy : BOOLEAN]
Query == ListQuery \union ContentQuery
Tools == {"list", "content"}

Row == [id : Reports, text : Texts, legacy : BOOLEAN]
Variant == [revision : 0..MaxRevision, status : {"none", "current", "stale"}, final : Texts]
NoVariant == [revision |-> 0, status |-> "none", final |-> "none"]

\* What a reader holds: its query, the rows read so far, and for an answer
\* the rows in their order; "was" has the rows as they should have been shown.
Idle == [op |-> "idle", tool |-> "list", query |-> FirstPage, rows |-> {}, was |-> {},
         modern |-> {}, variant |-> NoVariant, items |-> <<>>, previous |-> 0]

\* The statement a reader is at.
ListOps == {"list", "modern", "legacy"}
ContentOps == {"report", "variant", "any"}
PageOps == {"listed", "got", "bundle"}
Ops == ListOps \union ContentOps \union PageOps \union {"idle", "answered", "insert"}

Hold ==
  [op : Ops, tool : Tools, query : Query, rows : SUBSET Row, was : SUBSET Row,
   modern : SUBSET Reports, variant : Variant, items : Seq(Row), previous : Nat]
Chain ==
  [query : ListQuery, listed : Seq(Reports), steady : SUBSET Reports,
   state : {"none", "open", "done"}]
Snapshot == [tool : Tools, query : Query, items : Seq(Row), previous : Nat]

TypeOK ==
  /\ report \in [Reports -> Report]
  /\ audience \in Audiences
  /\ budget \in [history : Nat, content : Nat]
  /\ ran \in [list : Nat, content : Nat]
  /\ chain \in Chain
  /\ snapshot \in Seq(Snapshot)
  /\ reader \in [Readers -> Hold]
  /\ writes \in 0..MaxOperations /\ calls \in 0..MaxOperations

Init ==
  /\ report \in [Reports -> {NoReport} \union {LegacyReport(w) : w \in 1..NWeeks}
                   \union {AdoptedReport(w) : w \in 1..NWeeks}]
  /\ report[Own] = AdoptedReport(NWeeks)
  /\ \A r \in Reports : report[r].state = "absent" =>
       \A s \in r..NReports : report[s].state = "absent"
  /\ audience \in Audiences
  /\ budget = [history |-> 0, content |-> 0]
  /\ ran = [list |-> 0, content |-> 0]
  /\ chain = [query |-> FirstPage, listed |-> <<>>, steady |-> {}, state |-> "none"]
  /\ snapshot = <<>>
  /\ reader = [q \in Readers |-> Idle]
  /\ writes = 0 /\ calls = 0

(***************************************************************************)
(* The list tool.                                                          *)
(***************************************************************************)
\* What the query asks for: the adjacent week ignores the other filters.
NormalizeFilters(query) ==
  IF query.relation = "previous_adjacent"
    THEN [FirstPage EXCEPT !.relation = "previous_adjacent"] ELSE query

Statuses(query) == IF query.stale THEN {"current", "stale"} ELSE {"current"}

ListAuthorizedReportVariants(table, query) ==
  {[id |-> r, text |-> table[r].final[audience], legacy |-> FALSE] :
     r \in {s \in Modern(table) :
              /\ table[s].status[audience] \in Statuses(query)
              /\ table[s].final[audience] # "none"
              /\ table[s].adopted[audience]}}

LegacyRows(table, modern) ==
  {[id |-> r, text |-> table[r].content, legacy |-> TRUE] :
     r \in {s \in Reports \ modern : table[s].state = "live" /\ table[s].content # "none"}}

\* Mutant: reports of one week are taken for the same place.
AfterCursorWeek(r, cursor) == cursor = NoCursor \/ report[r].week < cursor[1]
AfterCursor(r, cursor) ==
  \/ cursor = NoCursor
  \/ report[r].week < cursor[1]
  \/ report[r].week = cursor[1] /\ r < cursor[2]

Related(row, query) ==
  IF query.relation = "overlap" THEN AfterCursor(row.id, query.cursor)
  ELSE ~row.legacy /\ report[row.id].week + 1 = report[Own].week

\* Newest week first, then newest report.
Newer(r, s) ==
  \/ report[r].week > report[s].week
  \/ report[r].week = report[s].week /\ r > s

Sorted(rows) ==
  CHOOSE list \in [1..Cardinality(rows) -> rows] :
    \A i, j \in DOMAIN list : i < j => Newer(list[i].id, list[j].id)

\* The reports a query would list, whatever page they are on.
Matching(table, query) ==
  {row.id : row \in ListAuthorizedReportVariants(table, query)
                    \union (IF query.legacy THEN LegacyRows(table, Modern(table)) ELSE {})}

\* The page of the rows read, and the cursor the next page starts from.
Page(rows, query) ==
  LET matching == Sorted({row \in rows : Related(row, query)})
      limit == IF query.relation = "overlap" THEN Limit ELSE 1
      hasMore == query.relation = "overlap" /\ Len(matching) > limit
      page == SubSeq(matching, 1, IF Len(matching) < limit THEN Len(matching) ELSE limit)
  IN [items |-> page,
      cursor |-> IF hasMore THEN <<report[Last(page).id].week, Last(page).id>> ELSE NoCursor]

(***************************************************************************)
(* The content tool: which text it answers with, if any, from the report's *)
(* row, the audience's variant and whether the report has any variant.     *)
(***************************************************************************)
\* Mutant: a leadership session can be given a legacy text.
AnyAudienceReadsLegacy == TRUE
ReadsLegacy == audience = "personal"

\* Mutant: a stale final needs no permission.
ReadableAlways(variant, query) == variant.status # "none" /\ variant.final # "none"
Readable(variant, query) ==
  /\ variant.status # "none" /\ variant.final # "none"
  /\ variant.status = "stale" => query.stale

ContentOf(row, variant, isLegacy, query) ==
  IF variant = NoVariant
    THEN IF isLegacy /\ ReadsLegacy /\ query.legacy
           THEN <<[id |-> row.id, text |-> row.text, legacy |-> TRUE]>> ELSE <<>>
  ELSE IF Readable(variant, query)
    THEN <<[id |-> row.id, text |-> variant.final, legacy |-> isLegacy]>> ELSE <<>>

VariantOf(table, r) ==
  IF r \in Modern(table)
    THEN [revision |-> table[r].revision, status |-> table[r].status[audience],
          final |-> table[r].final[audience]]
    ELSE NoVariant

(***************************************************************************)
(* Lines around the matching ones: a window per matching line, joined to   *)
(* the window before it when they overlap or touch.  Of the ranges at most *)
(* max are answered, and the answer says when something was cut.           *)
(***************************************************************************)
Window(l, context) ==
  [start |-> IF l > context THEN l - context ELSE 1,
   end |-> IF l + context < NLines THEN l + context ELSE NLines]

Joins(last, next) == next.start <= last.end + 1

WithWindow(ranges, next) ==
  IF ranges # <<>> /\ Joins(Last(ranges), next)
    THEN [ranges EXCEPT ![Len(ranges)].end = IF @ < next.end THEN next.end ELSE @]
    ELSE Append(ranges, next)

MatchingRanges(lines, context) ==
  LET upTo[l \in 0..NLines] ==
        IF l = 0 THEN <<>>
        ELSE IF l \in lines THEN WithWindow(upTo[l - 1], Window(l, context))
        ELSE upTo[l - 1]
  IN upTo[NLines]

LiteralMatches(lines, context, max) ==
  LET ranges == MatchingRanges(lines, context)
  IN SubSeq(ranges, 1, IF Len(ranges) < max THEN Len(ranges) ELSE max)

Truncated(lines, context, max) == Cardinality(lines) > max

(***************************************************************************)
(* The model queries the lists page by page, and texts.  A call counts     *)
(* against the budget of the turn also when it is refused.                 *)
(***************************************************************************)
At(q, op) == reader[q].op = op
Held(q) == reader[q]
Goto(q, held) == reader' = [reader EXCEPT ![q] = held]

WithinHistory(asked) == asked <= MaxHistory

TurnLists(query) ==
  /\ At("turn", "idle") /\ Own \in Live
  /\ query.cursor # NoCursor => chain.state = "open" /\ query = chain.query
  /\ budget' = [budget EXCEPT !.history = @ + 1]
  /\ IF WithinHistory(budget.history + 1)
       THEN /\ Goto("turn", [Idle EXCEPT !.op = "list", !.query = query])
            /\ ran' = [ran EXCEPT !.list = @ + 1]
            /\ chain' = IF query.cursor # NoCursor THEN chain
                        ELSE [query |-> query, listed |-> <<>>, state |-> "open",
                              steady |-> Matching(report, query)]
       ELSE /\ Goto("turn", [Idle EXCEPT !.op = "answered", !.query = query])
            /\ UNCHANGED <<ran, chain>>
  /\ UNCHANGED <<report, audience, snapshot, writes>>

TurnReads(query) ==
  /\ At("turn", "idle") /\ Own \in Live
  /\ budget' = [history |-> budget.history + 1, content |-> budget.content + 1]
  /\ IF WithinHistory(budget'.history) /\ budget'.content <= MaxContent
       THEN /\ Goto("turn", [Idle EXCEPT !.op = "report", !.tool = "content", !.query = query])
            /\ ran' = [ran EXCEPT !.content = @ + 1]
       ELSE /\ Goto("turn", [Idle EXCEPT !.op = "answered", !.tool = "content", !.query = query])
            /\ UNCHANGED ran
  /\ UNCHANGED <<report, audience, chain, snapshot, writes>>

NewTurn ==
  /\ At("turn", "idle") /\ budget.history > 0
  /\ budget' = [history |-> 0, content |-> 0]
  /\ ran' = [list |-> 0, content |-> 0]
  /\ chain' = [chain EXCEPT !.state = "none"]
  /\ UNCHANGED <<report, audience, snapshot, reader, writes>>

\* The user has a recorded query made again.
RefreshHistoricalQuery(i) ==
  /\ At("user", "idle") /\ Own \in Live
  /\ Goto("user", [Idle EXCEPT !.op = IF snapshot[i].tool = "list" THEN "list" ELSE "report",
                               !.tool = snapshot[i].tool, !.query = snapshot[i].query,
                               !.previous = i])
  /\ UNCHANGED <<report, audience, budget, ran, chain, snapshot, writes>>

(***************************************************************************)
(* QueryReportListForSession.                                              *)
(***************************************************************************)
Refuse(q) ==
  /\ Goto(q, [Held(q) EXCEPT !.op = "answered"])
  /\ chain' = IF q = "turn" THEN [chain EXCEPT !.state = "none"] ELSE chain

AnswerList(q, rows) ==
  LET page == Page(rows, NormalizeFilters(Held(q).query))
  IN /\ Goto(q, [Held(q) EXCEPT !.op = "answered", !.rows = {}, !.modern = {}, !.items = page.items])
     /\ chain' = IF q # "turn" THEN chain
                 ELSE [chain EXCEPT
                   !.listed = @ \o [i \in 1..Len(page.items) |-> page.items[i].id],
                   !.query.cursor = page.cursor,
                   !.state = IF page.cursor = NoCursor THEN "done" ELSE "open"]

ReadAuthorized(q) ==
  LET query == NormalizeFilters(Held(q).query)
      rows == ListAuthorizedReportVariants(report, query)
  IN /\ At(q, "list")
     /\ IF Own \notin Live \/ (query.legacy /\ ~ReadsLegacy) THEN Refuse(q)
        ELSE IF query.legacy
          THEN Goto(q, [Held(q) EXCEPT !.op = "modern", !.rows = rows]) /\ UNCHANGED chain
        ELSE AnswerList(q, rows)
     /\ UNCHANGED <<report, audience, budget, ran, snapshot, writes>>

ReadModern(q) ==
  /\ At(q, "modern")
  /\ Goto(q, [Held(q) EXCEPT !.op = "legacy", !.modern = Modern(report)])
  /\ UNCHANGED <<report, audience, budget, ran, chain, snapshot, writes>>

ReadLegacy(q) ==
  /\ At(q, "legacy")
  /\ AnswerList(q, Held(q).rows \union LegacyRows(report, Held(q).modern))
  /\ UNCHANGED <<report, audience, budget, ran, snapshot, writes>>

(***************************************************************************)
(* QueryReportContentForSession.                                           *)
(***************************************************************************)
ReadReport(q) ==
  LET r == Held(q).query.report
  IN /\ At(q, "report")
     /\ Goto(q, IF {Own, r} \subseteq Live
          THEN [Held(q) EXCEPT !.op = "variant",
                               !.items = <<[id |-> r, text |-> report[r].content, legacy |-> FALSE]>>]
          ELSE [Held(q) EXCEPT !.op = "answered"])
     /\ UNCHANGED <<report, audience, budget, ran, chain, snapshot, writes>>

ReadVariant(q) ==
  /\ At(q, "variant")
  /\ Goto(q, [Held(q) EXCEPT !.op = "any", !.variant = VariantOf(report, Held(q).query.report)])
  /\ UNCHANGED <<report, audience, budget, ran, chain, snapshot, writes>>

ReadAnyVariant(q) ==
  LET held == Held(q)
  IN /\ At(q, "any")
     /\ Goto(q, [held EXCEPT !.op = "answered", !.variant = NoVariant,
          !.items = ContentOf(Last(held.items), held.variant,
                              held.query.report \notin Modern(report), held.query)])
     /\ UNCHANGED <<report, audience, budget, ran, chain, snapshot, writes>>

(***************************************************************************)
(* persistQuerySnapshot: an automatic query follows the last one of its    *)
(* tool, a refreshed one the query it was made from.                       *)
(***************************************************************************)
GetLatestQuerySnapshotForTool(tool) ==
  LET ofTool == {i \in DOMAIN snapshot : snapshot[i].tool = tool}
  IN IF ofTool = {} THEN 0 ELSE CHOOSE i \in ofTool : \A k \in ofTool : k <= i

PersistReads(q) ==
  /\ At(q, "answered")
  /\ Goto(q, IF Own \notin Live THEN Idle
             ELSE [Held(q) EXCEPT !.op = "insert", !.previous =
                     IF q = "user" THEN @ ELSE GetLatestQuerySnapshotForTool(Held(q).tool)])
  /\ UNCHANGED <<report, audience, budget, ran, chain, snapshot, writes>>

InsertSnapshot(q) ==
  LET held == Held(q)
  IN /\ At(q, "insert")
     /\ snapshot' = Append(snapshot, [tool |-> held.tool, query |-> held.query,
                                      items |-> held.items, previous |-> held.previous])
     /\ Goto(q, Idle)
     /\ UNCHANGED <<report, audience, budget, ran, chain, writes>>

(***************************************************************************)
(* The list, search and detail pages.                                      *)
(***************************************************************************)
\* Mutant: the row of the report decides.
ShownAsStored(row) == row.text
Shown(row) ==
  IF row.id \notin Modern(report) THEN row.text
  ELSE IF report[row.id].final["personal"] # "none" THEN report[row.id].final["personal"]
  ELSE "draft"

RowsOf(ids) == {[id |-> r, text |-> report[r].content, legacy |-> FALSE] : r \in ids \intersect Live}
ShownOf(rows) == {[row EXCEPT !.text = Shown(row)] : row \in rows}

\* What ought to be shown of a report: the personal final, if it has one.
TextOf(r) ==
  IF report[r].final["personal"] # "none" THEN report[r].final["personal"] ELSE report[r].content
TextsOf(rows) == {[row EXCEPT !.text = TextOf(row.id)] : row \in rows}

\* The audiences' rows of a report, of which there are two or none, and the
\* event snapshots of one of its revisions.
ListReportVariants(r) == {a \in Audiences : r \in Modern(report)}
ListReportSnapshots(r, revision) == report[r].snapshots \intersect {revision}

ListReports ==
  /\ At("browser", "idle")
  /\ Goto("browser", [Idle EXCEPT !.op = "listed", !.rows = RowsOf(Reports),
                                  !.was = TextsOf(RowsOf(Reports))])
  /\ UNCHANGED <<report, audience, budget, ran, chain, snapshot, writes>>

GetReport(r) ==
  /\ At("browser", "idle") /\ r \in Live
  /\ Goto("browser", [Idle EXCEPT !.op = "got", !.rows = RowsOf({r}), !.was = TextsOf(RowsOf({r}))])
  /\ UNCHANGED <<report, audience, budget, ran, chain, snapshot, writes>>

ListVariants ==
  /\ At("browser", "listed")
  /\ Goto("browser", [Idle EXCEPT !.rows = ShownOf(Held("browser").rows)])
  /\ UNCHANGED <<report, audience, budget, ran, chain, snapshot, writes>>

GetVariants ==
  LET rows == Held("browser").rows
      r == (CHOOSE row \in rows : TRUE).id
  IN /\ At("browser", "got")
     /\ Goto("browser", [Idle EXCEPT !.op = "bundle", !.rows = ShownOf(rows),
                                     !.variant = IF ListReportVariants(r) = {} THEN NoVariant
                                                 ELSE VariantOf(report, r)])
     /\ UNCHANGED <<report, audience, budget, ran, chain, snapshot, writes>>

GetSnapshots ==
  /\ At("browser", "bundle")
  /\ Goto("browser", Idle)
  /\ UNCHANGED <<report, audience, budget, ran, chain, snapshot, writes>>

(***************************************************************************)
(* Writes.                                                                 *)
(***************************************************************************)
Write(table) ==
  /\ report' = table
  /\ chain' = [chain EXCEPT !.steady = @ \intersect Matching(table, chain.query)]
  /\ UNCHANGED <<audience, budget, ran, snapshot, reader>>

CreateReport(w) ==
  \E r \in Reports :
    /\ report[r].state = "absent"
    /\ \A s \in Reports : s < r => report[s].state # "absent"
    /\ Write([report EXCEPT ![r] = NewReport(w)])

InsertReportSnapshot(r, revision) == report[r].snapshots \union {revision}

RegenerateSourceDrafts(r) ==
  /\ r \in Live /\ report[r].revision < MaxRevision
  /\ Write([report EXCEPT
       ![r].content = "draft", ![r].revision = @ + 1,
       ![r].snapshots = InsertReportSnapshot(r, report[r].revision + 1),
       ![r].status = [a \in Audiences |-> IF report[r].final[a] = "none" THEN "none" ELSE "stale"]])

SetFinal(r, a, adopts) ==
  /\ r \in Modern(report)
  /\ Write([report EXCEPT
       ![r].final[a] = a, ![r].status[a] = "current", ![r].adopted[a] = @ \/ adopts,
       ![r].content = IF a = "personal" THEN a ELSE @])

DeleteReport(r) == r \in Live /\ Write([report EXCEPT ![r].state = "deleted"])

Writes ==
  \/ \E w \in 1..NWeeks : CreateReport(w)
  \/ \E r \in Reports :
       \/ RegenerateSourceDrafts(r) \/ DeleteReport(r)
       \/ \E a \in Audiences, adopts \in BOOLEAN : SetFinal(r, a, adopts)

Calls ==
  \/ \E relation \in {"overlap", "previous_adjacent"}, p \in Permissions :
       TurnLists([relation |-> relation, stale |-> p.stale, legacy |-> p.legacy,
                  cursor |-> NoCursor])
  \/ chain.query.cursor # NoCursor /\ TurnLists(chain.query)
  \/ \E r \in Reports, p \in Permissions :
       TurnReads([report |-> r, stale |-> p.stale, legacy |-> p.legacy])
  \/ \E i \in DOMAIN snapshot : RefreshHistoricalQuery(i)
  \/ ListReports
  \/ \E r \in Reports : GetReport(r)

Statements ==
  \/ \E q \in {"turn", "user"} :
       \/ ReadAuthorized(q) \/ ReadModern(q) \/ ReadLegacy(q)
       \/ ReadReport(q) \/ ReadVariant(q) \/ ReadAnyVariant(q)
       \/ PersistReads(q) \/ InsertSnapshot(q)
  \/ ListVariants \/ GetVariants \/ GetSnapshots

Next ==
  \/ writes + calls < MaxOperations /\ writes' = writes + 1 /\ Writes /\ UNCHANGED calls
  \/ writes + calls < MaxOperations /\ calls' = calls + 1 /\ Calls
  \/ (Statements \/ NewTurn) /\ UNCHANGED calls

Spec == Init /\ [][Next]_vars

(***************************************************************************)
(* Properties.                                                             *)
(***************************************************************************)
\* A leadership session is given texts finished for leadership only, by
\* either tool, for the turn and when refreshed, whatever is written between
\* the statements of a query.
LeadershipReadsItsOwn ==
  audience = "leadership" =>
    /\ \A i \in DOMAIN snapshot : \A k \in DOMAIN snapshot[i].items :
         snapshot[i].items[k].text = "leadership"
    /\ \A q \in {"turn", "user"} : At(q, "answered") =>
         \A k \in DOMAIN reader[q].items : reader[q].items[k].text = "leadership"

\* A list query followed to its last page has listed no report twice, and
\* every report that matched the query from its first page on.
PagesListSteadyReports ==
  /\ \A i, k \in DOMAIN chain.listed : chain.listed[i] = chain.listed[k] => i = k
  /\ chain.state = "done" /\ chain.query.relation = "overlap" =>
       chain.steady \subseteq ToSet(chain.listed)

\* What the list tool lists of a report the content tool reads, under the same
\* permissions and with the same text; what it reads besides is a final
\* nobody adopted.
ToolsAgreeOn(stale, legacy, r) ==
  LET query == [FirstPage EXCEPT !.stale = stale, !.legacy = legacy]
      listed == {row \in ListAuthorizedReportVariants(report, query)
                  \union (IF legacy THEN LegacyRows(report, Modern(report)) ELSE {}) : row.id = r}
      read == ToSet(ContentOf([id |-> r, text |-> report[r].content, legacy |-> FALSE],
                              VariantOf(report, r), r \notin Modern(report), query))
  IN listed = read \/ (listed = {} /\ r \in Modern(report) /\ ~report[r].adopted[audience])

ToolsAgree ==
  \A stale, legacy \in BOOLEAN, r \in Reports :
    (legacy => ReadsLegacy) /\ r \in Live => ToolsAgreeOn(stale, legacy, r)

\* A turn makes no more queries than its budget, of which no more than
\* MaxContent of texts, whichever tools it mixes.
BudgetHolds ==
  /\ ran.list + ran.content <= MaxHistory
  /\ ran.content <= MaxContent

\* The queries a snapshot goes back to were made with the same tool.
SnapshotsKeepTheirTool ==
  \A i \in DOMAIN snapshot :
    snapshot[i].previous # 0 => snapshot[snapshot[i].previous].tool = snapshot[i].tool

\* The revision a report's page asks the event snapshots of has them, unless
\* the report was deleted meanwhile.
BundleHasItsSnapshots ==
  At("browser", "bundle") /\ Held("browser").variant # NoVariant =>
    \A row \in Held("browser").rows :
      row.id \in Live => ListReportSnapshots(row.id, Held("browser").variant.revision) # {}

\* A page shows of each report the text it had when the page's reading began
\* or ended; only for a report deleted in between it may be neither.
ShownTextWasTrue ==
  [][At("browser", "listed") \/ At("browser", "got") =>
       \A row \in reader'["browser"].rows :
         Held("browser")' = Held("browser") \/ row \in Held("browser").was \/ row.text = TextOf(row.id)
           \/ row.id \notin Live]_vars

\* Whichever lines of the text a content query answers from match: the
\* ranges around them are the lines of their windows, in order and apart, and
\* a matching line is missing from the answer only when the answer says that
\* it was truncated.
RangesCoverMatches ==
  At("turn", "answered") /\ Held("turn").tool = "content" /\ Held("turn").items # <<>> =>
  \A lines \in SUBSET (1..NLines), context \in 0..1, max \in 1..2 :
    LET ranges == MatchingRanges(lines, context)
        given == LiteralMatches(lines, context, max)
        In(seq) == UNION {seq[i].start..seq[i].end : i \in DOMAIN seq}
    IN /\ In(ranges) = {l \in 1..NLines : \E m \in lines : l \in (m - context)..(m + context)}
       /\ \A i \in 1..(Len(ranges) - 1) : ranges[i].end + 1 < ranges[i + 1].start
       /\ ~(lines \subseteq In(given)) => Truncated(lines, context, max)

(***************************************************************************)
(* What holds between any two statements, from which the properties follow.*)
(***************************************************************************)
\* A report has no variant, and the texts it had before there were any, or
\* two, each with its own final or none, and the snapshots of its revisions.
ReportsFit ==
  \A r \in Reports :
    /\ report[r].content # "none"
    /\ \A a \in Audiences :
         /\ report[r].final[a] \in {"none", a}
         /\ report[r].final[a] = "none" <=> report[r].status[a] = "none"
         /\ report[r].revision = 0 => report[r].final[a] = "none"
    /\ 1..report[r].revision \subseteq report[r].snapshots
    /\ report[r].revision > 0 /\ report[r].final["personal"] = "none" => report[r].content = "draft"

QueriesOf(tool) == IF tool = "list" THEN ListQuery ELSE ContentQuery

OnlyLeadership(items) == \A k \in DOMAIN items : items[k].text = "leadership"

\* A snapshot goes back to an earlier one of its tool, and has for a
\* leadership session only texts finished for leadership.
SnapshotsFit ==
  \A i \in DOMAIN snapshot :
    /\ snapshot[i].query \in QueriesOf(snapshot[i].tool)
    /\ snapshot[i].previous \in 0..(i - 1)
    /\ audience = "leadership" => OnlyLeadership(snapshot[i].items)

\* A reader is at a statement of its tool, and has items when it may use them.
AtItsTool(q, held) ==
  /\ held.op \in IF q = "browser" THEN PageOps \union {"idle"} ELSE Ops \ PageOps
  /\ held.query \in QueriesOf(held.tool)
  /\ held.op \in ListOps => held.tool = "list"
  /\ held.op \in ContentOps => held.tool = "content"
  /\ held.op \in {"variant", "any"} => held.items # <<>>
  /\ held.op \notin {"variant", "any", "answered", "insert"} => held.items = <<>>

\* What a reader will leave as the previous snapshot was made with its tool.
FollowsItsTool(held) ==
  held.previous # 0 =>
    held.previous \in DOMAIN snapshot /\ snapshot[held.previous].tool = held.tool

LeadershipHeld(held) ==
  audience = "leadership" =>
    /\ held.op \notin {"modern", "legacy"}
    /\ held.op \in {"answered", "insert"} => OnlyLeadership(held.items)
    /\ held.op = "any" => held.variant.final \in {"none", "leadership"}

\* Rows of the list tool are of different reports, each of which has variants.
RowsReadOnce(held) ==
  held.op \in {"modern", "legacy"} =>
    /\ \A x, y \in held.rows : x.id = y.id => x = y
    /\ \A x \in held.rows :
         /\ report[x.id].state # "absent" /\ report[x.id].revision > 0
         /\ held.op = "legacy" => x.id \in held.modern \/ report[x.id].state = "deleted"

\* The rows of a page are of reports there are; as long as such a report has
\* no variant its text is the one that was read.
PageFits(held) ==
  /\ held.op \in PageOps => \A row \in held.rows : report[row.id].state # "absent"
  /\ held.op \in {"listed", "got"} => \A row \in held.rows :
       report[row.id].revision = 0 => row.text = report[row.id].content
  /\ held.op = "got" => \E r \in Reports : {row.id : row \in held.rows} = {r}
  /\ held.op = "bundle" /\ held.variant # NoVariant =>
       \A row \in held.rows : held.variant.revision \in report[row.id].snapshots

HeldFits(q, held) ==
  /\ AtItsTool(q, held) /\ FollowsItsTool(held) /\ LeadershipHeld(held)
  /\ RowsReadOnce(held) /\ PageFits(held)

ReadersFit == \A q \in Readers : HeldFits(q, reader[q])

WithinBudget ==
  /\ ran.content <= budget.content /\ budget.content <= budget.history
  /\ ran.list + ran.content <= budget.history

\* The pages so far list reports downwards, all of them before the cursor.
PagesDescend ==
  /\ \A i \in DOMAIN chain.listed : report[chain.listed[i]].state # "absent"
  /\ \A i, k \in DOMAIN chain.listed : i < k => Newer(chain.listed[i], chain.listed[k])
  /\ chain.query.cursor = NoCursor /\ chain.state = "open" => chain.listed = <<>>
  /\ chain.query.cursor # NoCursor =>
       /\ chain.query.relation = "overlap"
       /\ \A i \in DOMAIN chain.listed : ~AfterCursor(chain.listed[i], chain.query.cursor)

\* A report that goes on matching is on a page so far or after the cursor, and
\* among the rows read for the page that is being made.
SteadyIsAhead ==
  /\ chain.steady \subseteq Matching(report, chain.query)
  /\ chain.query.relation = "overlap" => \A r \in chain.steady :
       \/ chain.state = "none" \/ r \in ToSet(chain.listed)
       \/ chain.state = "open" /\ AfterCursor(r, chain.query.cursor)

TurnFollowsChain(held) ==
  /\ held.op \in ListOps => chain.state = "open" /\ held.query = chain.query
  /\ held.op \in {"modern", "legacy"} =>
       chain.steady \intersect Modern(report) \subseteq {row.id : row \in held.rows}
  /\ held.op = "legacy" => chain.steady \intersect held.modern \subseteq Modern(report)

IndInv ==
  /\ TypeOK /\ ReportsFit /\ SnapshotsFit /\ SnapshotsKeepTheirTool /\ ReadersFit
  /\ WithinBudget /\ BudgetHolds
  /\ PagesDescend /\ SteadyIsAhead /\ TurnFollowsChain(Held("turn"))

\* The invariant holds, the tools agree with each other, a report's page finds
\* its event snapshots, and an answer's ranges hold the lines that match.
WellFormed == IndInv /\ ToolsAgree /\ BundleHasItsSnapshots /\ RangesCoverMatches

\* Not kept by the code: a report that has variants is not listed as a legacy one
\* (src/internal/engine/tools/report_list_test.go:387).
LegacyItemsHaveNoVariants ==
  [][\A q \in {"turn", "user"} : At(q, "legacy") /\ ~At(q, "legacy")' =>
       \A k \in DOMAIN reader'[q].items :
         reader'[q].items[k].legacy => reader'[q].items[k].id \notin Modern(report)]_vars

=============================================================================
