---------------------------- MODULE PeriodPlans ----------------------------
(***************************************************************************)
(* Period plans: weekly and monthly plans created with their first item,   *)
(* items that link up to a month item and defer to the next period, their  *)
(* comments, and the events that fulfil them.                              *)
(*                                                                         *)
(* A handler is a sequence of statements: other requests run between two   *)
(* of them, and a request may end after any (its client leaves, a          *)
(* statement fails, the process dies).  A transaction is one step.         *)
(* Texts, priorities and positions of items are not modelled; of a status  *)
(* only whether it is open (planned, in_progress), closed (done,           *)
(* cancelled) or deferred.                                                 *)
(***************************************************************************)
EXTENDS Integers, FiniteSets

CONSTANTS
  NWeeks, NMonths,  \* the calendar: weeks 1..NWeeks, months 1..NMonths
  MonthOf,          \* the month the first day of a week is in
  NItems,           \* bound: ids of period_plan_items (AUTOINCREMENT)
  NComments,        \* bound: ids of plan_item_comments (AUTOINCREMENT)
  Events,           \* ids of manual events
  Requests,
  MaxCalls          \* bound: calls served

ASSUME PlansAssumption ==
  /\ NWeeks \in Nat /\ NMonths \in Nat /\ NItems \in Nat /\ NComments \in Nat
  /\ MaxCalls \in Nat
  /\ IsFiniteSet(Events)
  /\ MonthOf \in [1..NWeeks -> 1..NMonths]

VARIABLES
  plans,      \* periods that have a row of period_plans (a unique index)
  item,       \* period_plan_items
  comment,    \* plan_item_comments, and the events each cites
  event,      \* which events exist
  cites,      \* event_plan_references: the items an event fulfils
  request,    \* requests between their statements
  calls       \* how many were begun

rows == <<plans, item, comment, event, cites>>
vars == <<rows, request, calls>>

Items == 1..NItems
Comments == 1..NComments
None == 0
Clear == -1                  \* "parentItemId": null
Week(w) == [scope |-> "week", n |-> w]
Month(m) == [scope |-> "month", n |-> m]
Periods == {Week(w) : w \in 1..NWeeks} \union {Month(m) : m \in 1..NMonths}
NoPeriod == Week(0)
Statuses == {"open", "closed", "deferred"}

\* stale: the item was linked to a parent that had been deleted meanwhile.
Item == [state : {"absent", "live", "deleted"}, period : Periods \union {NoPeriod},
         status : Statuses, parent : Items \union {None}, from : Items \union {None},
         stale : BOOLEAN]
NoItem == [state |-> "absent", period |-> NoPeriod, status |-> "open",
           parent |-> None, from |-> None, stale |-> FALSE]

\* orphan: the comment was written after its item had been deleted.
Comment == [state : {"absent", "live", "deleted"}, item : Items \union {None},
            refs : SUBSET Events, orphan : BOOLEAN]
NoComment == [state |-> "absent", item |-> None, refs |-> {}, orphan |-> FALSE]

\* What a handler holds: the item it read, the period it writes to, the
\* parent it was given, the item it defers, the status it sets, the events
\* its comment cites.
Request == [op : {"idle", "newPlan", "link", "insert", "mark", "relink", "update",
                  "delete", "comment"},
            item : Items \union {None}, period : Periods \union {NoPeriod},
            parent : Items \union {None, Clear}, from : Items \union {None},
            status : Statuses \union {"keep"}, refs : SUBSET Events]
Idle == [op |-> "idle", item |-> None, period |-> NoPeriod, parent |-> None,
         from |-> None, status |-> "keep", refs |-> {}]

TypeOK ==
  /\ plans \subseteq Periods
  /\ item \in [Items -> Item]
  /\ comment \in [Comments -> Comment]
  /\ event \in [Events -> {"absent", "live", "deleted"}]
  /\ cites \in [Events -> SUBSET Items]
  /\ request \in [Requests -> Request]
  /\ calls \in 0..MaxCalls
  /\ \A i \in Items : item[i].state # "absent" => item[i].period \in plans

Init ==
  /\ plans = {}
  /\ item = [i \in Items |-> NoItem]
  /\ comment = [c \in Comments |-> NoComment]
  /\ event = [e \in Events |-> "absent"]
  /\ cites = [e \in Events |-> {}]
  /\ request = [r \in Requests |-> Idle]
  /\ calls = 0

At(r, op) == request[r].op = op
Goto(r, held) == request' = [request EXCEPT ![r] = held]
Finish(r) == Goto(r, Idle)

(***************************************************************************)
(* Queries.                                                                *)
(***************************************************************************)
Live(i) == i \in Items /\ item[i].state = "live"
GetPeriodPlanByPeriod(p) == p \in plans
GetPlanItem(i) == Live(i)
FindComment(c) == comment[c].state = "live"
ListPlanItemsByPlanIDs(P) == {i \in Items : Live(i) /\ item[i].period \in P}
ListPlanItemsByParentIDs(I) == {i \in Items : Live(i) /\ item[i].parent \in I}
ListWeekPlansStartingInRange(m) == {p \in plans : p.scope = "week" /\ MonthOf[p.n] = m}
ListFulfillmentEventIDs(I) == {e \in Events : cites[e] \intersect I # {}}
ListFulfillingEvents(I) == {e \in ListFulfillmentEventIDs(I) : event[e] = "live"}
ListPlanReferrerEvents(i) == {e \in Events : event[e] = "live" /\ i \in cites[e]}
ListPlanItemComments(I) ==
  {c \in Comments : comment[c].state = "live" /\ comment[c].item \in I /\ Live(comment[c].item)}
ListPlanItemsByPlanID(p) == ListPlanItemsByPlanIDs({p})
CountPlanItemCommentsByItemIDs(I) ==
  Cardinality({c \in Comments : comment[c].state = "live" /\ comment[c].item \in I})
CountEventComments(e) ==
  Cardinality({c \in Comments : comment[c].state = "live" /\ e \in comment[c].refs})
ListCommentReferrers(e) == {c \in ListPlanItemComments(Items) : e \in comment[c].refs}

Unused(S, row) == {i \in S : row[i].state = "absent" /\ \A j \in S : j < i => row[j].state # "absent"}
InsertPeriodPlan(p) == p \notin plans /\ plans' = plans \union {p}
InsertPlanItem(new) == \E i \in Unused(Items, item) : item' = [item EXCEPT ![i] = new]

\* What the row is after an update; a row that is gone is an error.
UpdatePlanItem(i, status) ==
  [item[i] EXCEPT !.status = IF status = "keep" THEN @ ELSE status]
UpdatePlanItemWithParent(i, status, p) ==
  [UpdatePlanItem(i, status) EXCEPT !.parent = p, !.stale = p # None /\ ~Live(p)]

(***************************************************************************)
(* Creating and deferring items.                                           *)
(***************************************************************************)
NextPeriod(p) == [p EXCEPT !.n = @ + 1]

\* A week item may link to an item of the month its week starts in.
ValidateParentLink(p, i) ==
  /\ p.scope = "week"
  /\ Live(i) /\ item[i].period = Month(MonthOf[p.n])

EnsurePeriodPlan(r, held) ==
  Goto(r, [held EXCEPT !.op = IF GetPeriodPlanByPeriod(held.period) THEN "link" ELSE "newPlan"])

CreatePlanItem(r, p, parent) ==
  /\ At(r, "idle")
  /\ EnsurePeriodPlan(r, [Idle EXCEPT !.period = p, !.parent = parent])
  /\ UNCHANGED rows

DeferPlanItem(r, i) ==
  /\ At(r, "idle")
  /\ GetPlanItem(i) /\ item[i].status = "open"
  /\ NextPeriod(item[i].period) \in Periods        \* bound: the calendar
  /\ EnsurePeriodPlan(r, [Idle EXCEPT !.period = NextPeriod(item[i].period),
                                      !.parent = item[i].parent, !.from = i])
  /\ UNCHANGED rows

\* The other of two first items of a period fails on the unique index.
NewPlan(r) ==
  /\ At(r, "newPlan")
  /\ IF GetPeriodPlanByPeriod(request[r].period)
       THEN UNCHANGED plans /\ Finish(r)
       ELSE InsertPeriodPlan(request[r].period) /\ Goto(r, [request[r] EXCEPT !.op = "link"])
  /\ UNCHANGED <<item, comment, event, cites>>

\* Mutant: the inherited link is not validated for the new period.
LinkInherits(r) ==
  LET held == request[r]
      ok == held.parent = None \/ held.from # None \/ ValidateParentLink(held.period, held.parent)
  IN /\ At(r, "link")
     /\ IF ok THEN Goto(r, [held EXCEPT !.op = "insert"]) ELSE Finish(r)
     /\ UNCHANGED rows
\* A link the new period does not allow refuses the item, unless it is
\* inherited: then it is dropped.
Link(r) ==
  LET held == request[r]
      ok == held.parent = None \/ ValidateParentLink(held.period, held.parent)
  IN /\ At(r, "link")
     /\ IF ok THEN Goto(r, [held EXCEPT !.op = "insert"])
        ELSE IF held.from # None
          THEN Goto(r, [held EXCEPT !.op = "insert", !.parent = None])
        ELSE Finish(r)
     /\ UNCHANGED rows

Insert(r) ==
  LET held == request[r]
  IN /\ At(r, "insert")
     /\ InsertPlanItem([state |-> "live", period |-> held.period, status |-> "open",
                        parent |-> held.parent, from |-> held.from,
                        stale |-> held.parent # None /\ ~Live(held.parent)])
     /\ Goto(r, IF held.from = None THEN Idle ELSE [held EXCEPT !.op = "mark"])
     /\ UNCHANGED <<plans, comment, event, cites>>

\* The last statement of a deferral, whatever the item has become.
MarkDeferred(r) ==
  LET i == request[r].from
  IN /\ At(r, "mark")
     /\ item' = IF Live(i) THEN [item EXCEPT ![i] = UpdatePlanItem(i, "deferred")] ELSE item
     /\ Finish(r)
     /\ UNCHANGED <<plans, comment, event, cites>>

(***************************************************************************)
(* Editing and deleting items.                                             *)
(***************************************************************************)
UpdateBegins(r, i, status, parent) ==
  /\ At(r, "idle")
  /\ GetPlanItem(i)
  /\ Goto(r, [Idle EXCEPT !.op = IF parent \in Items THEN "relink" ELSE "update",
                          !.item = i, !.status = status, !.parent = parent])
  /\ UNCHANGED rows

Relink(r) ==
  LET held == request[r]
  IN /\ At(r, "relink")
     /\ IF ValidateParentLink(item[held.item].period, held.parent)
          THEN Goto(r, [held EXCEPT !.op = "update"])
          ELSE Finish(r)
     /\ UNCHANGED rows

Update(r) ==
  LET held == request[r]
      i == held.item
      p == IF held.parent = Clear THEN None ELSE held.parent
  IN /\ At(r, "update")
     /\ item' = IF ~Live(i) THEN item
                ELSE [item EXCEPT ![i] =
                  IF held.parent = None THEN UpdatePlanItem(i, held.status)
                  ELSE UpdatePlanItemWithParent(i, held.status, p)]
     /\ Finish(r)
     /\ UNCHANGED <<plans, comment, event, cites>>

DeletePlanItemBegins(r, i) ==
  /\ At(r, "idle")
  /\ GetPlanItem(i)
  /\ Goto(r, [Idle EXCEPT !.op = "delete", !.item = i])
  /\ UNCHANGED rows

\* Mutant: the children keep their link.
KeepPlanItemChildParents(i) == [item EXCEPT ![i].state = "deleted"]
ClearPlanItemChildParents(i) ==
  [j \in Items |->
    IF j = i THEN [item[j] EXCEPT !.state = "deleted"]
    ELSE IF Live(j) /\ item[j].parent = i THEN [item[j] EXCEPT !.parent = None, !.stale = FALSE]
    ELSE item[j]]

DeleteCommentsByPlanItem(i) ==
  [c \in Comments |-> IF comment[c].item = i
                        THEN [comment[c] EXCEPT !.state = "deleted", !.refs = {}]
                        ELSE comment[c]]

\* The items deferred from this one keep naming it.
DeletePlanItem(r) ==
  LET i == request[r].item
  IN /\ At(r, "delete")
     /\ item' = ClearPlanItemChildParents(i)
     /\ cites' = [e \in Events |-> cites[e] \ {i}]
     /\ comment' = DeleteCommentsByPlanItem(i)
     /\ Finish(r)
     /\ UNCHANGED <<plans, event>>

(***************************************************************************)
(* Comments, and the events that cite items or are cited.                  *)
(***************************************************************************)
CreateCommentBegins(r, i, E) ==
  /\ At(r, "idle")
  /\ GetPlanItem(i)
  /\ Goto(r, [Idle EXCEPT !.op = "comment", !.item = i, !.refs = E])
  /\ UNCHANGED rows

CreateComment(r) ==
  LET held == request[r]
  IN /\ At(r, "comment")
     /\ \E c \in Unused(Comments, comment) :
          comment' = [comment EXCEPT ![c] =
            [state |-> "live", item |-> held.item, refs |-> held.refs,
             orphan |-> ~Live(held.item)]]
     /\ Finish(r)
     /\ UNCHANGED <<plans, item, event, cites>>

\* A comment is found under its item only.  The checks and the transaction
\* are one step: a row deleted in between is deleted once.
DeleteComment(c) ==
  /\ FindComment(c) /\ GetPlanItem(comment[c].item)
  /\ comment' = [comment EXCEPT ![c].state = "deleted", ![c].refs = {}]
  /\ UNCHANGED <<plans, item, event, cites, request>>

\* A manual event is written, or written again; ids are not looked up.
SyncEventPlanReferences(e, I) ==
  /\ event[e] # "deleted"
  /\ event' = [event EXCEPT ![e] = "live"]
  /\ cites' = [cites EXCEPT ![e] = I]
  /\ UNCHANGED <<plans, item, comment, request>>

\* Mutant: the rows outlive the event.
KeepEventPlanReferences(e) == [cites EXCEPT ![e] = @]
DeleteEventPlanReferencesByEventID(e) == [cites EXCEPT ![e] = {}]

DeleteEvent(e) ==
  /\ event[e] = "live"
  /\ event' = [event EXCEPT ![e] = "deleted"]
  /\ cites' = DeleteEventPlanReferencesByEventID(e)
  /\ comment' = [c \in Comments |-> [comment[c] EXCEPT !.refs = @ \ {e}]]
  /\ UNCHANGED <<plans, item, request>>

Abandon(r) == ~At(r, "idle") /\ Finish(r) /\ UNCHANGED rows

\* A call changes the status of an item or its link, and names ids it was
\* given before.
Known == {i \in Items : item[i].state # "absent"}
Calls ==
  \/ \E r \in Requests, i \in Items :
       \/ DeferPlanItem(r, i)
       \/ \E s \in Statuses : UpdateBegins(r, i, s, None)
       \/ \E q \in Known \union {Clear} : UpdateBegins(r, i, "keep", q)
       \/ DeletePlanItemBegins(r, i)
       \/ \E E \in SUBSET Events : CreateCommentBegins(r, i, E)
  \/ \E r \in Requests, p \in Periods, q \in Known \union {None} : CreatePlanItem(r, p, q)
  \/ \E c \in Comments : DeleteComment(c)
  \/ \E e \in Events, I \in SUBSET Known : SyncEventPlanReferences(e, I)
  \/ \E e \in Events : DeleteEvent(e)

Statements(r) ==
  \/ NewPlan(r) \/ Link(r) \/ Insert(r) \/ MarkDeferred(r)
  \/ Relink(r) \/ Update(r) \/ DeletePlanItem(r) \/ CreateComment(r)
  \/ Abandon(r)

Next ==
  \/ calls < MaxCalls /\ calls' = calls + 1 /\ Calls
  \/ UNCHANGED calls /\ \E r \in Requests : Statements(r)

Spec == Init /\ [][Next]_vars

(***************************************************************************)
(* The lists of a week and the review of a month.                          *)
(***************************************************************************)
\* An item and those it was deferred from, up to the first that is gone.
FulfillmentChain(i) ==
  LET chain[j \in Items \union {None}] ==
        IF ~Live(j) THEN {} ELSE {j} \union chain[item[j].from]
  IN chain[i]

FulfillmentCount(i) == Cardinality(ListFulfillmentEventIDs(FulfillmentChain(i)))
FulfillingEvents(i) == ListFulfillingEvents(FulfillmentChain(i))
ChainCommentCount(i) == CountPlanItemCommentsByItemIDs(FulfillmentChain(i))
ListChainComments(i) == ListPlanItemComments(FulfillmentChain(i))

\* What the page of an item and its two expanded sections are answered with.
GetItem(i) == [chain |-> FulfillmentChain(i), referrers |-> ListPlanReferrerEvents(i)]
Fulfillment(i) == IF GetPlanItem(i) THEN FulfillingEvents(i) ELSE {}
ListComments(i) ==
  LET comments == IF GetPlanItem(i) THEN ListChainComments(i) ELSE {}
  IN [comments |-> comments, count |-> Cardinality(comments)]

ListPlans(p) ==
  [i \in ListPlanItemsByPlanID(p) |->
    [fulfilled |-> FulfillmentCount(i), commented |-> ChainCommentCount(i)]]

ChildRows(i) ==
  {j \in ListPlanItemsByPlanIDs(ListWeekPlansStartingInRange(item[i].period.n)) :
     item[j].parent = i}

BuildAttachCandidates(m) ==
  {j \in ListPlanItemsByPlanIDs(ListWeekPlansStartingInRange(m)) : item[j].parent = None}

\* The week items of the month items an item was deferred from.
InheritedChildGroups(i) ==
  [a \in FulfillmentChain(i) \ {i} |-> ListPlanItemsByParentIDs({a})]

DistinctItemIDs(I) == UNION {FulfillmentChain(j) : j \in I}

\* Mutant: counts are added.
IndirectFulfillmentSum(indirect, direct) == Cardinality(indirect)
\* Events that cite a child and the item itself are counted with the item.
IndirectFulfillmentCount(indirect, direct) == Cardinality(indirect \ direct)

ComposeMonthReview(i) ==
  LET chain == FulfillmentChain(i)
      groups == InheritedChildGroups(i)
      children == ChildRows(i) \union UNION {groups[a] : a \in DOMAIN groups}
      direct == ListFulfillmentEventIDs(chain)
      indirect == ListFulfillmentEventIDs(DistinctItemIDs(children))
  IN Cardinality(direct) + IndirectFulfillmentCount(indirect, direct)

(***************************************************************************)
(* Properties.                                                             *)
(***************************************************************************)
\* A link never crosses months, whatever was edited, deferred or deleted
\* meanwhile: the parent of a week item is, or was, an item of the month its
\* week starts in (the comment of validateParentLink).
ParentsAreOfTheMonth ==
  \A i \in Items : item[i].state # "absent" /\ item[i].parent # None =>
    /\ item[i].period.scope = "week"
    /\ item[item[i].parent].period = Month(MonthOf[item[i].period.n])

\* Every week item shows up once in the review of its month: under the item
\* it is linked to, or among the candidates to attach.  The exception is the
\* item linked to a parent that was deleted between the check and the write.
WeekItemsAreReviewed ==
  \A i \in Items : Live(i) /\ item[i].period.scope = "week" /\ ~item[i].stale =>
    LET m == MonthOf[item[i].period.n]
        shown == {j \in Items : Live(j) /\ item[j].period = Month(m) /\ i \in ChildRows(j)}
    IN Cardinality(shown) + (IF i \in BuildAttachCandidates(m) THEN 1 ELSE 0) = 1

\* An item is deferred from an item of the period before its own and of the
\* same scope, so a deferral chain ends.
DeferralsGoForward ==
  \A i \in Items : item[i].state # "absent" /\ item[i].from # None =>
    item[item[i].from].period = [item[i].period EXCEPT !.n = @ - 1]

\* The count of a month item is that of the events that cite the item, an
\* item it was deferred from, a week item linked to one of these, or an item
\* such a week item was deferred from, each counted once.
ClosedUpward(S) == \A j \in S : item[j].from # None /\ Live(item[j].from) => item[j].from \in S
Origins(I) == {j \in Items : Live(j) /\ \A S \in SUBSET Items : I \subseteq S /\ ClosedUpward(S) => j \in S}
ReviewCountsEventsOnce ==
  \A i \in Items : Live(i) /\ item[i].period.scope = "month" =>
    LET own == Origins({i})
        linked == Origins({j \in Items : Live(j) /\ item[j].parent \in own})
    IN ComposeMonthReview(i) =
         Cardinality({e \in Events : event[e] = "live" /\ cites[e] \intersect (own \union linked) # {}})

\* The counts listed with an item are those of the events and comments its
\* expanded sections show, though only the lists look up the event's row; and
\* the events are those that the pages of the items it was deferred from name.
BadgesMatchLists ==
  \A p \in plans : LET listed == ListPlans(p) IN
    \A i \in DOMAIN listed :
      /\ listed[i].fulfilled = Cardinality(Fulfillment(i))
      /\ Fulfillment(i) = UNION {GetItem(j).referrers : j \in GetItem(i).chain}
      /\ listed[i].commented = ListComments(i).count

\* The warning before deleting an event counts the comments its page lists,
\* except those written for an item deleted meanwhile.
CitedByMatchesComments ==
  \A e \in Events : (\A c \in Comments : ~comment[c].orphan) =>
    CountEventComments(e) = Cardinality(ListCommentReferrers(e))

(***************************************************************************)
(* The inductive invariant.  Rows are never reused, so what a handler or a *)
(* row has once found of another item's period stays true; a deletion      *)
(* unlinks the children and takes the comments along.                      *)
(***************************************************************************)
AbsentItemsAreBlank == \A i \in Items : item[i].state = "absent" => item[i] = NoItem

OriginsExist ==
  \A i \in Items : item[i].state # "absent" /\ item[i].from # None =>
    item[item[i].from].state # "absent"

LinksAreLive ==
  \A i \in Items : Live(i) /\ item[i].parent # None /\ ~item[i].stale => Live(item[i].parent)

CommentsFollowItems ==
  \A c \in Comments : comment[c].state = "live" /\ ~comment[c].orphan => Live(comment[c].item)

\* What a handler has checked by the time it holds this.
Fits(held) ==
  /\ held.op \in {"newPlan", "link", "insert"} =>
       /\ held.period \in Periods /\ held.parent # Clear
       /\ held.op # "newPlan" => held.period \in plans
       /\ held.from # None =>
            /\ item[held.from].state # "absent"
            /\ item[held.from].period = [held.period EXCEPT !.n = @ - 1]
       /\ held.op = "insert" /\ held.parent # None =>
            /\ held.period.scope = "week"
            /\ item[held.parent].period = Month(MonthOf[held.period.n])
  /\ held.op \in {"relink", "update", "delete", "comment"} =>
       /\ held.item \in Items /\ item[held.item].state # "absent"
       /\ held.op = "relink" => held.parent \in Items
       /\ held.op = "update" /\ held.parent \in Items =>
            /\ item[held.item].period.scope = "week"
            /\ item[held.parent].period = Month(MonthOf[item[held.item].period.n])

IndInv ==
  /\ TypeOK
  /\ AbsentItemsAreBlank
  /\ ParentsAreOfTheMonth
  /\ DeferralsGoForward
  /\ OriginsExist
  /\ LinksAreLive
  /\ CommentsFollowItems
  /\ \A r \in Requests : Fits(request[r])

\* The rows that say what an event fulfils go with the event.
OnlyLiveEventsCite == \A e \in Events : event[e] # "live" => cites[e] = {}

\* The tables are of their types, plans are unique, links and deferrals go where
\* they may, and the warnings about comments count what their pages list.
WellFormed == IndInv /\ OnlyLiveEventsCite /\ CitedByMatchesComments

\* Not kept by the code: only an unfinished item is deferred (the comment of the check in
\* deferPlanItemHandler).
OnlyOpenItemsAreDeferred ==
  [][\A r \in Requests : MarkDeferred(r) /\ Live(request[r].from) =>
       item[request[r].from].status = "open"]_vars
=============================================================================
