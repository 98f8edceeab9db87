---------------------------- MODULE EventLedger ----------------------------
(***************************************************************************)
(* The timeline: raw_events, the tags and event references written in      *)
(* their text and stored a second time in tables of their own, and what    *)
(* the lists read back from both.                                          *)
(*                                                                         *)
(* A text is the tags (#a) and the references (@1) it names.  Requests     *)
(* that change an event read it first and change it in a transaction;      *)
(* other requests run in between.                                          *)
(***************************************************************************)
EXTENDS Integers, FiniteSets, Sequences, SequencesExt

CONSTANTS
  NEvents,        \* bound: ids of raw_events (AUTOINCREMENT)
  Tags,
  Requests,
  MaxTime,        \* bound: event times 1..MaxTime, in seconds
  DayLength,      \* seconds of a day
  MaxCalls        \* bound: calls served

ASSUME EventsAssumption ==
  /\ NEvents \in Nat /\ MaxTime \in Nat \ {0} /\ MaxCalls \in Nat
  /\ DayLength \in Nat \ {0}

VARIABLES
  event,          \* raw_events
  eventTags,      \* event_tags: names by event
  references,     \* event_references: referenced ids by event
  selfRenamed,    \* events whose tags a rename of a tag to itself removed
  request,        \* requests between their statements
  calls           \* how many were begun

tables == <<event, eventTags, references, selfRenamed>>
vars == <<tables, request, calls>>

Ids == 1..NEvents
Times == 1..MaxTime
Texts == [tags : SUBSET Tags, refs : SUBSET Ids]
Event == [state : {"absent", "live", "deleted"}, source : {"manual", "auto"},
          time : Times, text : Texts]
NoText == [tags |-> {}, refs |-> {}]
NoEvent == [state |-> "absent", source |-> "manual", time |-> 1, text |-> NoText]

Request == [op : {"idle", "update", "delete"}, id : Ids \union {0},
            source : {"manual", "auto"}, time : Times \union {0},
            written : BOOLEAN, text : Texts]
Idle == [op |-> "idle", id |-> 0, source |-> "manual", time |-> 0,
         written |-> FALSE, text |-> NoText]

TypeOK ==
  /\ event \in [Ids -> Event]
  /\ eventTags \in [Ids -> SUBSET Tags]
  /\ references \in [Ids -> SUBSET Ids]
  /\ selfRenamed \subseteq Ids
  /\ request \in [Requests -> Request]
  /\ calls \in 0..MaxCalls
  /\ \A e \in Ids : event[e].state # "live" => eventTags[e] = {} /\ references[e] = {}

Init ==
  /\ event = [e \in Ids |-> NoEvent]
  /\ eventTags = [e \in Ids |-> {}]
  /\ references = [e \in Ids |-> {}]
  /\ selfRenamed = {}
  /\ request = [r \in Requests |-> Idle]
  /\ calls = 0

Live(e) == event[e].state = "live"
At(r, op) == request[r].op = op
Goto(r, held) == request' = [request EXCEPT ![r] = held]
Finish(r) == Goto(r, Idle)
Unused == {e \in Ids : event[e].state = "absent" /\ \A f \in Ids : f < e => event[f].state # "absent"}

ParseTags(text) == text.tags
ParseReferences(text) == text.refs

(***************************************************************************)
(* Queries.                                                                *)
(***************************************************************************)
GetRawEvent(e) == event[e]
ListEventTagNames(e) == eventTags[e]
GetEvent(e) == [row |-> GetRawEvent(e), tags |-> ListEventTagNames(e)]
ListTagsWithCounts(t) == Cardinality({e \in Ids : t \in eventTags[e]})
ListEventsByTagName(t) == {e \in Ids : Live(e) /\ t \in eventTags[e]}
ListEventReferrers(e) == {f \in Ids : Live(f) /\ e \in references[f]}

InsertRawEvent(e, source, time, text) ==
  event' = [event EXCEPT ![e] = [state |-> "live", source |-> source, time |-> time, text |-> text]]

\* Mutant: the rows of the old text stay.
AddEventReferences(e, R) == references' = [references EXCEPT ![e] = @ \union R]
SyncEventTags(e, T) == eventTags' = [eventTags EXCEPT ![e] = T]
SyncEventReferences(e, R) == references' = [references EXCEPT ![e] = R]

(***************************************************************************)
(* Writing events.                                                         *)
(***************************************************************************)
CreateEvent(time, text) ==
  \E e \in Unused :
    /\ InsertRawEvent(e, "manual", time, text)
    /\ SyncEventTags(e, ParseTags(text))
    /\ SyncEventReferences(e, ParseReferences(text))
    /\ UNCHANGED <<selfRenamed, request>>

\* A collected commit; what looks like a tag in its message is not one.
InsertCollectedEvent(time, text) ==
  /\ \E e \in Unused : InsertRawEvent(e, "auto", time, text)
  /\ UNCHANGED <<eventTags, references, selfRenamed, request>>

UpdateBegins(r, e, time, written, text) ==
  /\ At(r, "idle") /\ Live(e)
  /\ Goto(r, [op |-> "update", id |-> e, source |-> GetRawEvent(e).source,
              time |-> time, written |-> written, text |-> text])
  /\ UNCHANGED tables

UpdatesARow(r) == Live(request[r].id)

\* A row that is gone by now is an error, and nothing is written.  The text
\* of a collected event is indexed no more than when it was inserted.
UpdateEvent(r) ==
  LET held == request[r]
      e == held.id
  IN /\ At(r, "update")
     /\ IF UpdatesARow(r)
          THEN /\ event' = [event EXCEPT
                    ![e].time = IF held.time = 0 THEN @ ELSE held.time,
                    ![e].text = IF held.written THEN held.text ELSE @]
               /\ IF held.written /\ held.source = "manual"
                    THEN /\ SyncEventTags(e, ParseTags(held.text))
                         /\ SyncEventReferences(e, ParseReferences(held.text))
                         /\ selfRenamed' = selfRenamed \ {e}
                    ELSE UNCHANGED <<eventTags, references, selfRenamed>>
          ELSE UNCHANGED tables
     /\ Finish(r)

DeleteBegins(r, e) ==
  /\ At(r, "idle") /\ Live(e) /\ GetRawEvent(e).source = "manual"
  /\ Goto(r, [Idle EXCEPT !.op = "delete", !.id = e])
  /\ UNCHANGED tables

\* Mutant: only the rows the event points with are deleted.
DeleteOwnReferences(e) == [references EXCEPT ![e] = {}]
DeleteEventReferencesForEvent(e) ==
  [f \in Ids |-> IF f = e THEN {} ELSE references[f] \ {e}]

\* Mutant: the event goes without its tags.
KeepEventTags(e) == eventTags
DeleteEventTagsByEventID(e) == [eventTags EXCEPT ![e] = {}]

DeleteEvent(r) ==
  LET e == request[r].id
  IN /\ At(r, "delete")
     /\ event' = [event EXCEPT ![e].state = "deleted"]
     /\ eventTags' = DeleteEventTagsByEventID(e)
     /\ references' = DeleteEventReferencesForEvent(e)
     /\ selfRenamed' = selfRenamed \ {e}
     /\ Finish(r)

Abandon(r) == ~At(r, "idle") /\ Finish(r) /\ UNCHANGED tables

(***************************************************************************)
(* Tags.  Each change is one transaction over the text and the table.      *)
(***************************************************************************)
RewriteText(E, tags(_)) ==
  [e \in Ids |-> IF e \in E THEN [event[e] EXCEPT !.text.tags = tags(@)] ELSE event[e]]

RemoveTagFromContent(T, t) == T \ {t}

RemoveTagGlobally(t) ==
  LET without(T) == RemoveTagFromContent(T, t) IN
  /\ event' = RewriteText(ListEventsByTagName(t), without)
  /\ eventTags' = [e \in Ids |-> eventTags[e] \ {t}]
  /\ UNCHANGED <<references, selfRenamed, request>>

RenameIn(T, old, new) == IF old \in T THEN (T \ {old}) \union {new} ELSE T

\* Rows of events that carry the new name as well, then the other rows.
DeleteOverlappingEventTags(old, new) ==
  [e \in Ids |-> IF new \in eventTags[e] THEN eventTags[e] \ {old} ELSE eventTags[e]]

\* Mutant: the table is renamed, the text keeps the old name.
RenameRowsOnly(text, old, new) == text
RenameTagInContent(T, old, new) == RenameIn(T, old, new)

RenameTagGlobally(old, new) ==
  LET left == DeleteOverlappingEventTags(old, new)
      renamed(T) == RenameTagInContent(T, old, new)
  IN /\ ListEventsByTagName(old) # {}
     /\ eventTags' = [e \in Ids |-> RenameIn(left[e], old, new)]
     /\ event' = RewriteText(ListEventsByTagName(old), renamed)
     /\ selfRenamed' = IF old = new THEN selfRenamed \union ListEventsByTagName(old) ELSE selfRenamed
     /\ UNCHANGED <<references, request>>

(***************************************************************************)
(* A call names a new text or a new time; a text names tags or one event.  *)
(***************************************************************************)
Written == {[NoText EXCEPT !.tags = T] : T \in SUBSET Tags}
           \union {[NoText EXCEPT !.refs = {e}] : e \in Ids}

Calls ==
  \/ \E time \in Times, text \in Written : CreateEvent(time, text)
  \/ \E time \in Times, T \in SUBSET Tags :
       InsertCollectedEvent(time, [NoText EXCEPT !.tags = T])
  \/ \E r \in Requests, e \in Ids :
       \/ \E time \in Times : UpdateBegins(r, e, time, FALSE, NoText)
       \/ \E text \in Written : UpdateBegins(r, e, 0, TRUE, text)
       \/ DeleteBegins(r, e)
  \/ \E t \in Tags : RemoveTagGlobally(t)
  \/ \E old, new \in Tags : RenameTagGlobally(old, new)

Statements(r) == UpdateEvent(r) \/ DeleteEvent(r) \/ Abandon(r)

Next ==
  \/ calls < MaxCalls /\ calls' = calls + 1 /\ Calls
  \/ UNCHANGED calls /\ \E r \in Requests : Statements(r)

Spec == Init /\ [][Next]_vars

(***************************************************************************)
(* The lists.                                                              *)
(***************************************************************************)
\* The order of ListEvents: time only.  SQLite has no index to read equal
\* times by, and its sorter keeps the order of their ids.
Before(e, f) == event[e].time > event[f].time \/ (event[e].time = event[f].time /\ e < f)

\* Mutant: the row of the cursor itself is read again.
FromCursor(e, cursor) ==
  event[e].time < cursor.time \/ (event[e].time = cursor.time /\ e <= cursor.id)
\* NoCursor is the first page.
NoCursor == [time |-> MaxTime + 1, id |-> 0]
AfterCursor(e, cursor) ==
  event[e].time < cursor.time \/ (event[e].time = cursor.time /\ e < cursor.id)

Listed(S, cursor) ==
  LET rows == {e \in S : AfterCursor(e, cursor)}
  IN CHOOSE list \in [1..Cardinality(rows) -> rows] :
       \A i, j \in DOMAIN list : i < j => Before(list[i], list[j])

\* One more row than a page is read, for hasMore.
EventsPage(S, cursor, limit) ==
  LET rows == Listed(S, cursor)
      page == SubSeq(rows, 1, IF Len(rows) > limit THEN limit ELSE Len(rows))
  IN [ids |-> page, hasMore |-> Len(rows) > limit,
      cursor |-> IF page = <<>> THEN NoCursor
                 ELSE [time |-> event[Last(page)].time, id |-> Last(page)]]

\* All pages, as the client reads them while hasMore.
NothingRead == [ids |-> <<>>, hasMore |-> TRUE, cursor |-> NoCursor]
ReadOn(S, limit, read) ==
  LET page == EventsPage(S, read.cursor, limit)
  IN IF ~read.hasMore THEN read ELSE [page EXCEPT !.ids = read.ids \o @]

AllPages(S, limit) ==
  LET pages[k \in 0..NEvents] ==
        IF k = 0 THEN NothingRead ELSE ReadOn(S, limit, pages[k - 1])
  IN pages[NEvents].ids

SourceFilter(source) == {e \in Ids : Live(e) /\ (source = "all" \/ event[e].source = source)}
ListEventsByTags(T) == {e \in Ids : Live(e) /\ eventTags[e] \intersect T # {}}

DayKey(t) == t \div DayLength
ListEventsOfDay(d) == {e \in Ids : Live(e) /\ DayKey(event[e].time) = d}
ListHeatmapEventTimes(cutoff) == {e \in Ids : Live(e) /\ event[e].time >= cutoff}
CutoffSeconds(now, days) == now - days * DayLength
Heatmap(now, days) ==
  [d \in 0..DayKey(MaxTime) |->
     Cardinality({e \in ListHeatmapEventTimes(CutoffSeconds(now, days)) : DayKey(event[e].time) = d})]

(***************************************************************************)
(* Properties.                                                             *)
(***************************************************************************)
\* Not kept by the code: the table and the text of a manual event name the same tags (ADR-0012).
TagsMirrorContent ==
  \A e \in Ids : Live(e) /\ event[e].source = "manual" =>
    GetEvent(e).tags = ParseTags(GetEvent(e).row.text)

\* They do, except where a tag was renamed to itself.
TagsMirrorContentUnlessSelfRenamed ==
  \A e \in Ids : Live(e) /\ event[e].source = "manual" /\ e \notin selfRenamed =>
    GetEvent(e).tags = ParseTags(GetEvent(e).row.text)

\* The reference table is what the texts of the manual events say: no row
\* names an id its text does not, and an event that is there lists as its
\* referrers exactly the events whose text names it, also when it was
\* created after the text (ADR-0016).
ReferencesMirrorContent ==
  /\ \A e \in Ids : references[e] \subseteq ParseReferences(event[e].text)
  /\ \A f \in Ids : Live(f) =>
       ListEventReferrers(f) =
         {e \in Ids : Live(e) /\ event[e].source = "manual" /\ f \in ParseReferences(event[e].text)}

(***************************************************************************)
(* The inductive invariant.  A request between its statements holds an      *)
(* event that was there, whose source never changes; a collected event has *)
(* no rows beside it; a name of an event yet to come is kept for it.       *)
(***************************************************************************)
HeldRowsExist ==
  \A r \in Requests : ~At(r, "idle") =>
    /\ request[r].id \in Ids
    /\ event[request[r].id].state # "absent"
    /\ event[request[r].id].source = request[r].source

CollectedEventsAreBare ==
  \A e \in Ids : event[e].source = "auto" => eventTags[e] = {} /\ references[e] = {}

ReferencesFollowText ==
  \A e \in Ids :
    /\ references[e] \subseteq ParseReferences(event[e].text)
    /\ Live(e) /\ event[e].source = "manual" =>
         \A f \in ParseReferences(event[e].text) :
           event[f].state # "deleted" => f \in references[e]

IndInv ==
  /\ TypeOK
  /\ HeldRowsExist
  /\ CollectedEventsAreBare
  /\ TagsMirrorContentUnlessSelfRenamed
  /\ ReferencesFollowText

\* What points to an event when it is deleted stops doing so.
DeletionClearsReferrers ==
  [][\A e \in Ids : Live(e) /\ event'[e].state = "deleted" =>
       (ListEventReferrers(e) = {})']_vars

\* The count listed with a tag is the number of events a filter by it lists.
TagCountsMatchFilter ==
  \A t \in Tags : ListTagsWithCounts(t) = Len(Listed(ListEventsByTags({t}), NoCursor))

\* Not kept by the code: reading page after page, by whichever filter and page size, lists every
\* event once (the test that pages follow a composite cursor).
PagesListEventsOnce ==
  \A limit \in 1..NEvents, source \in {"all", "manual", "auto"} :
    LET S == SourceFilter(source)
        read == AllPages(S, limit)
    IN ToSet(read) = S /\ Len(read) = Cardinality(S)

\* They do if no two events have the same time.
PagesListEventsOfDistinctTimesOnce ==
  (\A e, f \in Ids : Live(e) /\ Live(f) /\ e # f => event[e].time # event[f].time)
    => PagesListEventsOnce

\* Whenever the heatmap is read, each of its last days, today included,
\* counts the events listed for that day, though the window begins at the
\* hour of the call (the comment of cutoffSeconds).
HeatmapMatchesDays ==
  \A now \in Times, days \in 1..2 : \A d \in 0..DayKey(MaxTime) :
    d > DayKey(now) - days => Heatmap(now, days)[d] = Cardinality(ListEventsOfDay(d))

\* The tables are of their types, and the counts shown beside a tag or for a day
\* are those of the lists behind them.
WellFormed == IndInv /\ TagCountsMatchFilter /\ HeatmapMatchesDays
=============================================================================
