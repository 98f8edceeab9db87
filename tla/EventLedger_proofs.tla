------------------------ MODULE EventLedger_proofs ------------------------
(***************************************************************************)
(* Proofs about EventLedger, for any number of events, tags, times and     *)
(* requests: IndInv is inductive, and what the tables promise follows;     *)
(* then what the lists promise that are read from them, page by page.      *)
(***************************************************************************)
EXTENDS EventLedger, FiniteSetTheorems, WellFoundedInduction, TLAPS

USE DEF At, Live, Goto, Finish, tables, GetRawEvent, ParseTags, ParseReferences

LEMMA InitInv == Init => IndInv
<1> SUFFICES ASSUME Init PROVE IndInv
  OBVIOUS
<1>1. NoEvent \in Event
  BY EventsAssumption DEF NoEvent, Event, Texts, NoText, Ids, Times
<1>2. Idle \in Request
  BY DEF Idle, Request, NoText, Texts
<1>3. TypeOK
  BY <1>1, <1>2, EventsAssumption DEF Init, TypeOK, NoEvent
<1> QED
  BY <1>3 DEF Init, IndInv, HeldRowsExist, CollectedEventsAreBare, ReferencesFollowText,
     TagsMirrorContentUnlessSelfRenamed, NoEvent, Idle

LEMMA WrittenTexts == \A text \in Written : text \in Texts
BY DEF Written, Texts, NoText, Ids

LEMMA CreatePreserves ==
  ASSUME IndInv, NEW time \in Times, NEW text \in Texts, CreateEvent(time, text),
         calls' \in 0..MaxCalls
  PROVE  IndInv'
<1> PICK e \in Unused :
      /\ event' = [event EXCEPT ![e] = [state |-> "live", source |-> "manual", time |-> time, text |-> text]]
      /\ eventTags' = [eventTags EXCEPT ![e] = text.tags]
      /\ references' = [references EXCEPT ![e] = text.refs]
      /\ UNCHANGED <<selfRenamed, request>>
  BY DEF CreateEvent, InsertRawEvent, SyncEventTags, SyncEventReferences
<1>0. e \in Ids /\ event[e].state = "absent"
  BY DEF Unused
<1>1. TypeOK'
  BY <1>0 DEF IndInv, TypeOK, Event, Texts
<1>2. HeldRowsExist'
  BY <1>0 DEF IndInv, TypeOK, HeldRowsExist
<1>3. CollectedEventsAreBare'
  BY <1>0 DEF IndInv, TypeOK, CollectedEventsAreBare
<1>4. TagsMirrorContentUnlessSelfRenamed'
  BY <1>0 DEF IndInv, TypeOK, TagsMirrorContentUnlessSelfRenamed, GetEvent, ListEventTagNames
<1>5. ReferencesFollowText'
  BY <1>0 DEF IndInv, TypeOK, ReferencesFollowText, Texts, Event
<1> QED
  BY <1>1, <1>2, <1>3, <1>4, <1>5 DEF IndInv

LEMMA CollectPreserves ==
  ASSUME IndInv, NEW time \in Times, NEW text \in Texts, InsertCollectedEvent(time, text),
         calls' \in 0..MaxCalls
  PROVE  IndInv'
<1> PICK e \in Unused :
      event' = [event EXCEPT ![e] = [state |-> "live", source |-> "auto", time |-> time, text |-> text]]
  BY DEF InsertCollectedEvent, InsertRawEvent
<1> UNCHANGED <<eventTags, references, selfRenamed, request>>
  BY DEF InsertCollectedEvent
<1>0. e \in Ids /\ event[e].state = "absent" /\ eventTags[e] = {} /\ references[e] = {}
  BY DEF Unused, IndInv, TypeOK
<1>1. TypeOK'
  BY <1>0 DEF IndInv, TypeOK, Event, Texts
<1>2. HeldRowsExist'
  BY <1>0 DEF IndInv, TypeOK, HeldRowsExist
<1>3. CollectedEventsAreBare'
  BY <1>0 DEF IndInv, TypeOK, CollectedEventsAreBare
<1>4. TagsMirrorContentUnlessSelfRenamed'
  BY <1>0 DEF IndInv, TypeOK, TagsMirrorContentUnlessSelfRenamed, GetEvent, ListEventTagNames
<1>5. ReferencesFollowText'
  BY <1>0 DEF IndInv, TypeOK, ReferencesFollowText, Texts, Event
<1> QED
  BY <1>1, <1>2, <1>3, <1>4, <1>5 DEF IndInv

\* Requests come and go without touching the tables.
LEMMA RequestPreserves ==
  ASSUME IndInv, UNCHANGED tables, calls' \in 0..MaxCalls,
         NEW r \in Requests, NEW held \in Request, request' = [request EXCEPT ![r] = held],
         held.op # "idle" =>
           /\ held.id \in Ids /\ event[held.id].state # "absent"
           /\ event[held.id].source = held.source
  PROVE  IndInv'
<1>1. TypeOK'
  BY DEF IndInv, TypeOK
<1>2. HeldRowsExist'
  BY DEF IndInv, TypeOK, HeldRowsExist
<1>3. CollectedEventsAreBare' /\ TagsMirrorContentUnlessSelfRenamed' /\ ReferencesFollowText'
  BY DEF IndInv, CollectedEventsAreBare, TagsMirrorContentUnlessSelfRenamed, GetEvent,
     ListEventTagNames, ReferencesFollowText
<1> QED
  BY <1>1, <1>2, <1>3 DEF IndInv

LEMMA IdleIsARequest == Idle \in Request /\ Idle.op = "idle"
BY DEF Idle, Request, NoText, Texts

LEMMA UpdatePreserves ==
  ASSUME IndInv, NEW r \in Requests, UpdateEvent(r), calls' \in 0..MaxCalls
  PROVE  IndInv'
<1> DEFINE held == request[r]
           e == held.id
<1>0. /\ held \in Request /\ held.op = "update" /\ e \in Ids
      /\ event[e].source = held.source
      /\ request' = [request EXCEPT ![r] = Idle]
  BY DEF UpdateEvent, IndInv, TypeOK, HeldRowsExist
<1>1. CASE ~UpdatesARow(r)
  BY <1>0, <1>1, RequestPreserves, IdleIsARequest DEF UpdateEvent
<1>2. CASE UpdatesARow(r) /\ ~(held.written /\ held.source = "manual")
  <2>1. /\ event' = [event EXCEPT ![e].time = IF held.time = 0 THEN @ ELSE held.time,
                                  ![e].text = IF held.written THEN held.text ELSE @]
        /\ UNCHANGED <<eventTags, references, selfRenamed>>
    BY <1>2 DEF UpdateEvent
  <2>2. event' \in [Ids -> Event]
    BY <1>0, <2>1 DEF IndInv, TypeOK, Event, Request
  <2>3. /\ \A f \in Ids : event'[f].state = event[f].state /\ event'[f].source = event[f].source
        /\ \A f \in Ids : event'[f].text = event[f].text \/ event[f].source = "auto"
    BY <1>0, <1>2, <2>1 DEF IndInv, TypeOK, Event, Request
  <2>4. TypeOK'
    BY <1>0, <2>1, <2>2, <2>3, IdleIsARequest DEF IndInv, TypeOK
  <2>5. HeldRowsExist'
    BY <1>0, <2>3, IdleIsARequest DEF IndInv, TypeOK, HeldRowsExist
  <2>6. CollectedEventsAreBare'
    BY <2>1, <2>3 DEF IndInv, CollectedEventsAreBare
  <2>7. TagsMirrorContentUnlessSelfRenamed'
    BY <2>1, <2>3 DEF IndInv, TagsMirrorContentUnlessSelfRenamed, GetEvent, ListEventTagNames
  <2>8. ReferencesFollowText'
    <3> SUFFICES ASSUME NEW f \in Ids
                 PROVE  /\ references[f] \subseteq event'[f].text.refs
                        /\ event'[f].state = "live" /\ event'[f].source = "manual" =>
                             \A g \in event'[f].text.refs :
                               event'[g].state # "deleted" => g \in references[f]
      BY <2>1 DEF ReferencesFollowText
    <3>1. CASE event[f].source = "auto"
      BY <3>1, <2>3 DEF IndInv, CollectedEventsAreBare
    <3>2. CASE event'[f].text = event[f].text
      <4>1. event[f].text.refs \subseteq Ids
        BY DEF IndInv, TypeOK, Event, Texts
      <4> QED
        BY <3>2, <2>3, <4>1 DEF IndInv, ReferencesFollowText
    <3> QED
      BY <3>1, <3>2, <2>3
  <2> QED
    BY <2>4, <2>5, <2>6, <2>7, <2>8 DEF IndInv
<1>3. CASE UpdatesARow(r) /\ held.written /\ held.source = "manual"
  <2>0. calls' \in 0..MaxCalls
    OBVIOUS
  <2>1. /\ event' = [event EXCEPT ![e].time = IF held.time = 0 THEN @ ELSE held.time,
                                  ![e].text = held.text]
        /\ eventTags' = [eventTags EXCEPT ![e] = held.text.tags]
        /\ references' = [references EXCEPT ![e] = held.text.refs]
        /\ selfRenamed' = selfRenamed \ {e}
    BY <1>3 DEF UpdateEvent, SyncEventTags, SyncEventReferences
  <2>2. event' \in [Ids -> Event] /\ held.text.tags \subseteq Tags /\ held.text.refs \subseteq Ids
    <3>1. held.text \in Texts /\ held.time \in Times \union {0}
      BY <1>0 DEF Request
    <3>2. event \in [Ids -> Event]
      BY DEF IndInv, TypeOK
    <3>3. event' \in [Ids -> Event]
      BY <1>0, <2>1, <3>1, <3>2 DEF Event
    <3> QED
      BY <3>1, <3>3 DEF Texts
  <2>3. /\ \A f \in Ids : event'[f].state = event[f].state /\ event'[f].source = event[f].source
        /\ \A f \in Ids : f # e => event'[f].text = event[f].text
        /\ event'[e].text = held.text
    BY <1>0, <2>1 DEF IndInv, TypeOK, Event, Request
  <2>4. TypeOK'
    <3>1. eventTags' \in [Ids -> SUBSET Tags] /\ references' \in [Ids -> SUBSET Ids]
      BY <2>1, <2>2 DEF IndInv, TypeOK
    <3>2. request' \in [Requests -> Request] /\ selfRenamed' \subseteq Ids
      BY <1>0, <2>1, IdleIsARequest DEF IndInv, TypeOK
    <3>3. \A f \in Ids : event'[f].state # "live" => eventTags'[f] = {} /\ references'[f] = {}
      BY ZenonT(40), <1>0, <1>3, <2>1, <2>3 DEF IndInv, TypeOK, UpdatesARow
    <3> QED
      BY <2>0, <2>2, <3>1, <3>2, <3>3 DEF TypeOK
  <2>5. HeldRowsExist'
    BY <1>0, <2>3, IdleIsARequest DEF IndInv, TypeOK, HeldRowsExist
  <2>6. CollectedEventsAreBare'
    BY ZenonT(40), <1>0, <1>3, <2>1, <2>3 DEF IndInv, TypeOK, CollectedEventsAreBare
  <2>7. TagsMirrorContentUnlessSelfRenamed'
    BY ZenonT(40), <2>1, <2>3, <1>0 DEF IndInv, TypeOK, TagsMirrorContentUnlessSelfRenamed, GetEvent, ListEventTagNames
  <2>8. ReferencesFollowText'
    <3> SUFFICES ASSUME NEW f \in Ids
                 PROVE  /\ references'[f] \subseteq event'[f].text.refs
                        /\ event'[f].state = "live" /\ event'[f].source = "manual" =>
                             \A g \in event'[f].text.refs :
                               event'[g].state # "deleted" => g \in references'[f]
      BY DEF ReferencesFollowText
    <3>1. CASE f = e
      BY <3>1, <2>1, <2>3, <1>0 DEF IndInv, TypeOK
    <3>2. CASE f # e
      <4>1. event[f].text.refs \subseteq Ids
        BY DEF IndInv, TypeOK, Event, Texts
      <4>2. references'[f] = references[f] /\ event'[f].text = event[f].text
        BY <3>2, <2>1, <2>3 DEF IndInv, TypeOK
      <4> QED
        BY <2>3, <4>1, <4>2 DEF IndInv, ReferencesFollowText
    <3> QED
      BY <3>1, <3>2
  <2> QED
    BY <2>4, <2>5, <2>6, <2>7, <2>8 DEF IndInv
<1> QED
  BY <1>1, <1>2, <1>3

LEMMA DeletePreserves ==
  ASSUME IndInv, NEW r \in Requests, DeleteEvent(r), calls' \in 0..MaxCalls
  PROVE  IndInv'
<1> DEFINE e == request[r].id
<1>0. /\ e \in Ids
      /\ event' = [event EXCEPT ![e].state = "deleted"]
      /\ eventTags' = [eventTags EXCEPT ![e] = {}]
      /\ references' = [f \in Ids |-> IF f = e THEN {} ELSE references[f] \ {e}]
      /\ selfRenamed' = selfRenamed \ {e}
      /\ request' = [request EXCEPT ![r] = Idle]
  BY DEF DeleteEvent, DeleteEventTagsByEventID, DeleteEventReferencesForEvent, IndInv, HeldRowsExist
<1>1. event' \in [Ids -> Event]
  BY ZenonT(40), <1>0 DEF IndInv, TypeOK, Event
<1>2. /\ \A f \in Ids : event'[f].text = event[f].text /\ event'[f].source = event[f].source
      /\ \A f \in Ids : event'[f].state = IF f = e THEN "deleted" ELSE event[f].state
      /\ \A f \in Ids : event[f].text.refs \subseteq Ids
  BY <1>0 DEF IndInv, TypeOK, Event, Texts
<1>3. TypeOK'
  BY <1>0, <1>1, <1>2, IdleIsARequest DEF IndInv, TypeOK
<1>4. HeldRowsExist'
  BY <1>0, <1>2, IdleIsARequest DEF IndInv, TypeOK, HeldRowsExist
<1>5. CollectedEventsAreBare'
  BY <1>0, <1>2 DEF IndInv, TypeOK, CollectedEventsAreBare
<1>6. TagsMirrorContentUnlessSelfRenamed'
  BY <1>0, <1>2 DEF IndInv, TypeOK, TagsMirrorContentUnlessSelfRenamed, GetEvent, ListEventTagNames
<1>7. ReferencesFollowText'
  BY <1>0, <1>2 DEF IndInv, TypeOK, ReferencesFollowText
<1> QED
  BY <1>3, <1>4, <1>5, <1>6, <1>7 DEF IndInv

\* What a change of a tag everywhere does to the rows: other columns stay,
\* and the text changes only where the tag's rows were.
LEMMA RewritePreserves ==
  ASSUME IndInv, NEW E \in SUBSET Ids, NEW new \in [Ids -> SUBSET Tags],
         event' = [e \in Ids |-> IF e \in E THEN [event[e] EXCEPT !.text.tags = new[e]] ELSE event[e]],
         eventTags' \in [Ids -> SUBSET Tags],
         \A e \in Ids : eventTags[e] = {} => eventTags'[e] = {},
         selfRenamed' \in SUBSET Ids,
         UNCHANGED <<references, request>>, calls' \in 0..MaxCalls,
         TagsMirrorContentUnlessSelfRenamed'
  PROVE  IndInv'
<1>1. event' \in [Ids -> Event]
  <2>1. ASSUME NEW e \in Ids PROVE [event[e] EXCEPT !.text.tags = new[e]] \in Event
    <3>1. event[e] \in Event /\ new[e] \subseteq Tags
      BY DEF IndInv, TypeOK
    <3>2. [event[e].text EXCEPT !.tags = new[e]] \in Texts
      BY <3>1 DEF Event, Texts
    <3>3. [event[e] EXCEPT !.text = [event[e].text EXCEPT !.tags = new[e]]] \in Event
      BY <3>1, <3>2 DEF Event
    <3> QED
      BY <3>3
  <2> QED
    BY <2>1 DEF IndInv, TypeOK
<1>2. \A f \in Ids : /\ event'[f].state = event[f].state /\ event'[f].source = event[f].source
                     /\ event'[f].text.refs = event[f].text.refs
                     /\ event[f].text.refs \subseteq Ids
  BY DEF IndInv, TypeOK, Event, Texts
<1>3. TypeOK'
  BY <1>1, <1>2 DEF IndInv, TypeOK
<1>4. HeldRowsExist'
  BY <1>2 DEF IndInv, HeldRowsExist
<1>5. CollectedEventsAreBare'
  BY <1>2 DEF IndInv, CollectedEventsAreBare
<1>6. ReferencesFollowText'
  BY <1>2 DEF IndInv, ReferencesFollowText
<1> QED
  BY <1>3, <1>4, <1>5, <1>6 DEF IndInv

LEMMA RemoveTagPreserves ==
  ASSUME IndInv, NEW t \in Tags, RemoveTagGlobally(t), calls' \in 0..MaxCalls
  PROVE  IndInv'
<1> DEFINE E == ListEventsByTagName(t)
           new == [e \in Ids |-> event[e].text.tags \ {t}]
<1>1. /\ event' = [e \in Ids |-> IF e \in E THEN [event[e] EXCEPT !.text.tags = event[e].text.tags \ {t}]
                                ELSE event[e]]
      /\ eventTags' = [e \in Ids |-> eventTags[e] \ {t}]
      /\ UNCHANGED <<references, selfRenamed, request>>
  BY DEF RemoveTagGlobally, RewriteText, RemoveTagFromContent
<1>2. E \in SUBSET Ids /\ new \in [Ids -> SUBSET Tags]
  BY DEF ListEventsByTagName, IndInv, TypeOK, Event, Texts
<1>3. event' = [e \in Ids |-> IF e \in E THEN [event[e] EXCEPT !.text.tags = new[e]] ELSE event[e]]
  BY <1>1
<1>4. TagsMirrorContentUnlessSelfRenamed'
  <2> SUFFICES ASSUME NEW e \in Ids, event'[e].state = "live", event'[e].source = "manual",
                      e \notin selfRenamed
               PROVE  eventTags[e] \ {t} = event'[e].text.tags
    BY <1>1 DEF TagsMirrorContentUnlessSelfRenamed, GetEvent, ListEventTagNames
  <2>1. event[e].state = "live" /\ event[e].source = "manual"
    BY <1>1 DEF IndInv, TypeOK, Event
  <2>2. eventTags[e] = event[e].text.tags
    BY <2>1 DEF IndInv, TagsMirrorContentUnlessSelfRenamed, GetEvent, ListEventTagNames
  <2>3. CASE e \in E
    <3>1. event'[e].text.tags = event[e].text.tags \ {t}
      BY <1>1, <2>3 DEF IndInv, TypeOK, Event, Texts
    <3> QED
      BY <3>1, <2>2
  <2>4. CASE e \notin E
    BY <1>1, <2>1, <2>2, <2>4 DEF ListEventsByTagName
  <2> QED
    BY <2>3, <2>4
<1>5. /\ eventTags' \in [Ids -> SUBSET Tags] /\ selfRenamed' \in SUBSET Ids
      /\ \A e \in Ids : eventTags[e] = {} => eventTags'[e] = {}
  BY <1>1 DEF IndInv, TypeOK
<1> QED
  BY <1>1, <1>2, <1>3, <1>4, <1>5, RewritePreserves

LEMMA RenameTagPreserves ==
  ASSUME IndInv, NEW old \in Tags, NEW to \in Tags, RenameTagGlobally(old, to),
         calls' \in 0..MaxCalls
  PROVE  IndInv'
<1> DEFINE E == ListEventsByTagName(old)
           left == DeleteOverlappingEventTags(old, to)
           new == [e \in Ids |-> RenameIn(event[e].text.tags, old, to)]
<1>1. /\ event' = [e \in Ids |-> IF e \in E THEN [event[e] EXCEPT !.text.tags =
                                                    RenameIn(event[e].text.tags, old, to)]
                                ELSE event[e]]
      /\ eventTags' = [e \in Ids |-> RenameIn(left[e], old, to)]
      /\ selfRenamed' = IF old = to THEN selfRenamed \union E ELSE selfRenamed
      /\ UNCHANGED <<references, request>>
  BY DEF RenameTagGlobally, RewriteText, RenameTagInContent
<1>2. E \in SUBSET Ids /\ new \in [Ids -> SUBSET Tags]
  BY DEF ListEventsByTagName, IndInv, TypeOK, Event, Texts, RenameIn
<1>3. event' = [e \in Ids |-> IF e \in E THEN [event[e] EXCEPT !.text.tags = new[e]] ELSE event[e]]
  BY <1>1
<1>4. \A e \in Ids : left[e] = IF to \in eventTags[e] THEN eventTags[e] \ {old} ELSE eventTags[e]
  BY DEF DeleteOverlappingEventTags
<1>5. TagsMirrorContentUnlessSelfRenamed'
  <2> SUFFICES ASSUME NEW e \in Ids, event'[e].state = "live", event'[e].source = "manual",
                      e \notin selfRenamed'
               PROVE  RenameIn(left[e], old, to) = event'[e].text.tags
    BY <1>1 DEF TagsMirrorContentUnlessSelfRenamed, GetEvent, ListEventTagNames
  <2>1. event[e].state = "live" /\ event[e].source = "manual" /\ e \notin selfRenamed
    BY <1>1 DEF IndInv, TypeOK, Event
  <2>2. eventTags[e] = event[e].text.tags
    BY <2>1 DEF IndInv, TagsMirrorContentUnlessSelfRenamed, GetEvent, ListEventTagNames
  <2>3. CASE e \in E
    <3>1. event'[e].text.tags = RenameIn(event[e].text.tags, old, to) /\ old # to /\ old \in eventTags[e]
      BY <1>1, <2>3 DEF IndInv, TypeOK, Event, Texts, ListEventsByTagName
    <3> QED
      BY <3>1, <2>2, <1>4 DEF RenameIn
  <2>4. CASE e \notin E
    BY <1>1, <1>4, <2>1, <2>2, <2>4 DEF ListEventsByTagName, RenameIn
  <2> QED
    BY <2>3, <2>4
<1>6. /\ eventTags' \in [Ids -> SUBSET Tags] /\ selfRenamed' \in SUBSET Ids
      /\ \A e \in Ids : eventTags[e] = {} => eventTags'[e] = {}
  BY <1>1, <1>2, <1>4 DEF IndInv, TypeOK, RenameIn
<1> QED
  BY <1>1, <1>2, <1>3, <1>5, <1>6, RewritePreserves

LEMMA NextInv == IndInv /\ [Next]_vars => IndInv'
<1> SUFFICES ASSUME IndInv, [Next]_vars PROVE IndInv'
  OBVIOUS
<1>1. CASE UNCHANGED vars
  BY <1>1 DEF vars, IndInv, TypeOK, HeldRowsExist, CollectedEventsAreBare, ReferencesFollowText,
     TagsMirrorContentUnlessSelfRenamed, GetEvent, ListEventTagNames
<1>2. CASE calls < MaxCalls /\ calls' = calls + 1 /\ Calls
  <2>0. calls' \in 0..MaxCalls
    BY <1>2, EventsAssumption DEF IndInv, TypeOK
  <2>1. ASSUME NEW time \in Times, NEW text \in Written, CreateEvent(time, text) PROVE IndInv'
    BY <2>0, <2>1, WrittenTexts, CreatePreserves
  <2>2. ASSUME NEW time \in Times, NEW T \in SUBSET Tags,
               InsertCollectedEvent(time, [NoText EXCEPT !.tags = T])
        PROVE  IndInv'
    <3>1. [NoText EXCEPT !.tags = T] \in Texts
      BY DEF NoText, Texts
    <3> QED
      BY <2>0, <2>2, <3>1, CollectPreserves
  <2>3. ASSUME NEW r \in Requests, NEW e \in Ids, NEW time \in Times \union {0},
               NEW written \in BOOLEAN, NEW text \in Texts, UpdateBegins(r, e, time, written, text)
        PROVE  IndInv'
    <3> DEFINE held == [op |-> "update", id |-> e, source |-> event[e].source,
                        time |-> time, written |-> written, text |-> text]
    <3>1. held \in Request
      BY DEF Request, IndInv, TypeOK, Event
    <3> QED
      BY <2>0, <2>3, <3>1, RequestPreserves DEF UpdateBegins
  <2>4. ASSUME NEW r \in Requests, NEW e \in Ids, DeleteBegins(r, e) PROVE IndInv'
    <3> DEFINE held == [Idle EXCEPT !.op = "delete", !.id = e]
    <3>1. held \in Request /\ held.id = e /\ held.source = "manual"
      BY DEF Request, Idle, NoText, Texts
    <3>2. /\ UNCHANGED tables /\ request' = [request EXCEPT ![r] = held]
          /\ event[e].state = "live" /\ event[e].source = "manual"
      BY <2>4 DEF DeleteBegins
    <3> HIDE DEF held
    <3> QED
      BY <2>0, <3>1, <3>2, RequestPreserves
  <2>5. NoText \in Texts
    BY DEF NoText, Texts
  <2> QED
    BY <1>2, <2>0, <2>1, <2>2, <2>3, <2>4, <2>5, WrittenTexts, RemoveTagPreserves,
       RenameTagPreserves DEF Calls
<1>3. ASSUME NEW r \in Requests, calls' = calls, Statements(r) PROVE IndInv'
  <2>0. calls' \in 0..MaxCalls
    BY <1>3 DEF IndInv, TypeOK
  <2>1. CASE Abandon(r)
    BY <2>0, <2>1, IdleIsARequest, RequestPreserves DEF Abandon
  <2> QED
    BY <1>3, <2>0, <2>1, UpdatePreserves, DeletePreserves DEF Statements
<1> QED
  BY <1>1, <1>2, <1>3 DEF Next

\* The inductive invariant holds in every state.
THEOREM Invariance == Spec => []IndInv
BY InitInv, NextInv, PTL DEF Spec

\* The tables keep to their types, and an event that is not there has no rows
\* in the tables beside it.
THEOREM TypeOKHolds == Spec => []TypeOK
<1>1. IndInv => TypeOK
  BY DEF IndInv
<1> QED
  BY <1>1, Invariance, PTL

\* Syncing, renaming, removing and deleting keep a manual event's tag rows
\* equal to its text, except where a tag was renamed to itself (ADR-0012).
THEOREM TagsMirrorUnlessSelfRenamed == Spec => []TagsMirrorContentUnlessSelfRenamed
<1>1. IndInv => TagsMirrorContentUnlessSelfRenamed
  BY DEF IndInv
<1> QED
  BY <1>1, Invariance, PTL

\* The referrers listed of an event that is there are the manual events whose
\* text names it (ADR-0016).
THEOREM ReferencesMirror == Spec => []ReferencesMirrorContent
<1>1. IndInv => ReferencesMirrorContent
  <2> SUFFICES ASSUME IndInv PROVE ReferencesMirrorContent
    OBVIOUS
  <2>1. ASSUME NEW f \in Ids, event[f].state = "live", NEW e \in Ids
        PROVE  event[e].state = "live" /\ f \in references[e]
                 <=> event[e].state = "live" /\ event[e].source = "manual" /\ f \in event[e].text.refs
    <3>1. event[e].source \in {"manual", "auto"}
      BY DEF IndInv, TypeOK, Event
    <3> QED
      BY <2>1, <3>1 DEF IndInv, ReferencesFollowText, CollectedEventsAreBare
  <2> QED
    BY <2>1 DEF IndInv, ReferencesMirrorContent, ReferencesFollowText, ListEventReferrers
<1> QED
  BY <1>1, Invariance, PTL

\* A deletion leaves no row that points to the event.
THEOREM DeletionClears == Spec => DeletionClearsReferrers
<1> DEFINE Clears == \A e \in Ids : Live(e) /\ event'[e].state = "deleted" =>
                       (ListEventReferrers(e) = {})'
<1>1. IndInv /\ [Next]_vars => [Clears]_vars
  <2> SUFFICES ASSUME IndInv, [Next]_vars, ~UNCHANGED vars,
                      NEW e \in Ids, event[e].state = "live", event'[e].state = "deleted"
               PROVE  \A f \in Ids : e \notin references'[f]
    BY DEF ListEventReferrers
  <2>1. PICK r \in Requests : DeleteEvent(r)
    <3>1. ASSUME NEW time, NEW text, CreateEvent(time, text) PROVE FALSE
      BY <3>1 DEF CreateEvent, InsertRawEvent, IndInv, TypeOK
    <3>2. ASSUME NEW time, NEW text, InsertCollectedEvent(time, text) PROVE FALSE
      BY <3>2 DEF InsertCollectedEvent, InsertRawEvent, IndInv, TypeOK
    <3>3. ASSUME NEW t \in Tags, RemoveTagGlobally(t) PROVE FALSE
      BY <3>3 DEF RemoveTagGlobally, RewriteText, RemoveTagFromContent, IndInv, TypeOK, Event
    <3>4. ASSUME NEW old \in Tags, NEW to \in Tags, RenameTagGlobally(old, to) PROVE FALSE
      BY <3>4 DEF RenameTagGlobally, RewriteText, RenameTagInContent, IndInv, TypeOK, Event
    <3>5. ASSUME NEW r \in Requests, UpdateEvent(r) PROVE FALSE
      BY <3>5 DEF UpdateEvent, IndInv, TypeOK, Event
    <3> QED
      BY <3>1, <3>2, <3>3, <3>4, <3>5 DEF Next, Calls, Statements, UpdateBegins, DeleteBegins, Abandon
  <2>2. event' = [event EXCEPT ![request[r].id].state = "deleted"]
    BY <2>1 DEF DeleteEvent
  <2>3. request[r].id = e
    BY <2>2 DEF IndInv, TypeOK
  <2> QED
    BY <2>1, <2>3 DEF DeleteEvent, DeleteEventReferencesForEvent
<1> QED
  BY <1>1, Invariance, PTL DEF Spec, DeletionClearsReferrers

(***************************************************************************)
(* Listings.  A finite set has one place for each element in a listing of  *)
(* it by an order; that a listing exists is proved on the smallest subset  *)
(* without one.                                                            *)
(***************************************************************************)
\* A set of naturals that is not empty has a least element; what is said of
\* every element is proved by looking at the least that it fails for.
LEMMA Least ==
  ASSUME NEW S \in SUBSET Nat, S # {}
  PROVE  \E n \in S : \A m \in S : n <= m
<1>1. PICK n \in S : \A m \in S : ~(<<m, n>> \in OpToRel(<, Nat))
  BY NatLessThanWellFounded, WFMin
<1>2. \A m \in S : ~(m < n)
  BY <1>1 DEF OpToRel
<1> QED
  BY <1>2

\* R orders S: two elements are related in one of the two ways.
Orders(R, S) ==
  /\ \A x \in S : <<x, x>> \notin R
  /\ \A x, y \in S : x # y => <<x, y>> \in R \/ <<y, x>> \in R
  /\ \A x, y, z \in S : <<x, y>> \in R /\ <<y, z>> \in R => <<x, z>> \in R

\* A set whose elements have a property that not all have: a smallest subset
\* without it.
LEMMA SmallestSubset ==
  ASSUME NEW S, IsFiniteSet(S), NEW Bad \in SUBSET (SUBSET S), Bad # {}
  PROVE  \E T \in Bad : \A x \in T : T \ {x} \notin Bad
<1> DEFINE sizes == {Cardinality(T) : T \in Bad}
<1>1. \A T \in SUBSET S : IsFiniteSet(T) /\ Cardinality(T) \in Nat
  BY FS_Subset, FS_CardinalityType
<1>2. sizes \in SUBSET Nat /\ sizes # {}
  BY <1>1
<1>3. PICK n \in sizes : \A m \in sizes : n <= m
  <2> HIDE DEF sizes
  <2> QED
    BY <1>2, Least
<1>4. PICK T \in Bad : Cardinality(T) = n
  OBVIOUS
<1>5. ASSUME NEW x \in T, T \ {x} \in Bad PROVE FALSE
  <2>1. Cardinality(T \ {x}) = n - 1
    BY <1>1, <1>4, FS_RemoveElement
  <2>2. n <= n - 1
    BY <1>3, <1>5, <2>1
  <2> QED
    BY <1>2, <2>2
<1> QED
  BY <1>5

LEMMA HasLast ==
  ASSUME NEW S, IsFiniteSet(S), S # {}, NEW R, Orders(R, S)
  PROVE  \E l \in S : \A x \in S \ {l} : <<x, l>> \in R
<1> DEFINE Ends(T) == \E l \in T : \A x \in T \ {l} : <<x, l>> \in R
           Bad == {T \in SUBSET S : T # {} /\ ~Ends(T)}
<1> SUFFICES ASSUME Bad # {} PROVE FALSE
  OBVIOUS
<1>1. Bad \in SUBSET (SUBSET S)
  OBVIOUS
<1>2. PICK T \in Bad : \A x \in T : T \ {x} \notin Bad
  <2> HIDE DEF Bad
  <2> QED
    BY <1>1, SmallestSubset
<1>3. PICK x \in T : TRUE
  BY <1>2
<1>4. CASE T \ {x} = {}
  BY <1>2, <1>3, <1>4
<1>5. CASE T \ {x} # {}
  <2>1. Ends(T \ {x})
    BY <1>2, <1>3, <1>5
  <2>2. PICK l \in T \ {x} : \A y \in (T \ {x}) \ {l} : <<y, l>> \in R
    BY <2>1
  <2>3. x \in S /\ l \in S /\ x # l
    BY <1>2, <1>3, <2>2
  <2>4. CASE <<x, l>> \in R
    <3>1. \A y \in T \ {l} : <<y, l>> \in R
      BY <2>2, <2>4
    <3> QED
      BY <1>2, <2>2, <3>1
  <2>5. CASE <<l, x>> \in R
    <3>1. ASSUME NEW y \in T \ {x} PROVE <<y, x>> \in R
      <4>1. CASE y = l
        BY <2>5, <4>1
      <4>2. CASE y # l
        <5>1. <<y, l>> \in R /\ y \in S
          BY <1>2, <2>2, <4>2
        <5> QED
          BY <2>3, <2>5, <5>1 DEF Orders
      <4> QED
        BY <4>1, <4>2
    <3> QED
      BY <1>2, <1>3, <3>1
  <2> QED
    BY <2>3, <2>4, <2>5 DEF Orders
<1> QED
  BY <1>4, <1>5

\* A finite set can be listed in any order of it.
IsListing(s, S, R) ==
  /\ s \in [1..Cardinality(S) -> S]
  /\ \A i, j \in 1..Cardinality(S) : i < j => <<s[i], s[j]>> \in R

LEMMA ListingExists ==
  ASSUME NEW S, IsFiniteSet(S), NEW R, Orders(R, S)
  PROVE  \E s : IsListing(s, S, R)
<1> DEFINE Bad == {T \in SUBSET S : ~\E s : IsListing(s, T, R)}
<1> SUFFICES ASSUME Bad # {} PROVE FALSE
  OBVIOUS
<1>1. Bad \in SUBSET (SUBSET S)
  OBVIOUS
<1>2. PICK T \in Bad : \A x \in T : T \ {x} \notin Bad
  <2> HIDE DEF Bad
  <2> QED
    BY <1>1, SmallestSubset
<1>3. T \in SUBSET S /\ IsFiniteSet(T)
  BY <1>2, FS_Subset
<1>4. T # {}
  <2> SUFFICES ASSUME T = {} PROVE FALSE
    OBVIOUS
  <2>1. Cardinality(T) = 0
    BY FS_EmptySet
  <2>2. IsListing([i \in 1..0 |-> i], T, R)
    BY <2>1 DEF IsListing
  <2> QED
    BY <1>2, <2>2
<1>5. Orders(R, T)
  BY <1>3 DEF Orders
<1>6. PICK l \in T : \A x \in T \ {l} : <<x, l>> \in R
  BY <1>3, <1>4, <1>5, HasLast
<1> DEFINE U == T \ {l}
           n == Cardinality(T)
<1>7. IsFiniteSet(U) /\ Cardinality(U) = n - 1 /\ n \in Nat
  BY <1>3, <1>6, FS_RemoveElement, FS_CardinalityType
<1>8. PICK s : IsListing(s, U, R)
  BY <1>2, <1>3, <1>6
<1> DEFINE t == [i \in 1..n |-> IF i = n THEN l ELSE s[i]]
<1>9. s \in [1..(n - 1) -> U] /\ \A i, j \in 1..(n - 1) : i < j => <<s[i], s[j]>> \in R
  BY <1>7, <1>8 DEF IsListing
<1>10. t \in [1..n -> T]
  BY <1>7, <1>9
<1>11. ASSUME NEW i \in 1..n, NEW j \in 1..n, i < j PROVE <<t[i], t[j]>> \in R
  <2>1. i \in 1..(n - 1) /\ t[i] = s[i] /\ s[i] \in U
    BY <1>7, <1>9, <1>11
  <2>2. CASE j = n
    BY <1>6, <2>1, <2>2
  <2>3. CASE j # n
    BY <1>7, <1>9, <1>11, <2>1, <2>3
  <2> QED
    BY <2>2, <2>3
<1>12. IsListing(t, T, R)
  BY <1>10, <1>11 DEF IsListing
<1> QED
  BY <1>2, <1>12

\* A listing has every element in one place.
LEMMA ListingIsComplete ==
  ASSUME NEW S, IsFiniteSet(S), NEW R, Orders(R, S), NEW s, IsListing(s, S, R)
  PROVE  /\ s \in Seq(S) /\ Len(s) = Cardinality(S)
         /\ \A i, j \in 1..Len(s) : s[i] = s[j] => i = j
         /\ \A x \in S : \E i \in 1..Len(s) : s[i] = x
<1> DEFINE n == Cardinality(S)
<1>1. n \in Nat
  BY FS_CardinalityType
<1>2. s \in Seq(S) /\ Len(s) = n /\ s \in [1..n -> S]
  BY <1>1 DEF IsListing
<1>3. ASSUME NEW i \in 1..n, NEW j \in 1..n, s[i] = s[j] PROVE i = j
  <2>1. s[i] \in S /\ <<s[i], s[i]>> \notin R
    BY <1>2 DEF Orders
  <2>2. ~(i < j) /\ ~(j < i)
    BY <1>3, <2>1 DEF IsListing
  <2> QED
    BY <1>1, <2>2
<1>4. IsFiniteSet(1..n) /\ Cardinality(1..n) = n
  BY <1>1, FS_Interval
<1>5. s \in Injection(1..n, S)
  BY <1>2, <1>3 DEF Injection, IsInjective
<1>6. s \in Surjection(1..n, S)
  <2> HIDE DEF n
  <2>1. Cardinality(1..n) = Cardinality(S) <=> s \in Surjection(1..n, S)
    BY <1>5, FS_Injection
  <2> QED
    BY <1>4, <2>1 DEF n
<1>7. \A x \in S : \E i \in 1..n : s[i] = x
  BY <1>6 DEF Surjection
<1> QED
  BY <1>2, <1>3, <1>7

(***************************************************************************)
(* The lists of the timeline.                                              *)
(***************************************************************************)
Occurs(x, s) == \E i \in 1..Len(s) : s[i] = x
Distinct(s) == \A i, j \in 1..Len(s) : s[i] = s[j] => i = j

LEMMA IdsAreFinite ==
  /\ IsFiniteSet(Ids)
  /\ \A S \in SUBSET Ids : IsFiniteSet(S) /\ Cardinality(S) \in Nat
<1>1. IsFiniteSet(Ids)
  BY EventsAssumption, FS_Interval DEF Ids
<1> QED
  BY <1>1, FS_Subset, FS_CardinalityType

LEMMA EventTimes ==
  ASSUME TypeOK, NEW e \in Ids
  PROVE  event[e].time \in Times /\ event[e].time \in Nat /\ e \in Nat
BY EventsAssumption DEF TypeOK, Event, Times, Ids

\* A page's rows are listed, each in one place, later rows after earlier ones.
LEMMA ListedFacts ==
  ASSUME TypeOK, NEW S \in SUBSET Ids, NEW cursor
  PROVE  LET rows == {e \in S : AfterCursor(e, cursor)}
             list == Listed(S, cursor)
         IN  /\ list \in Seq(rows) /\ Len(list) = Cardinality(rows) /\ Len(list) \in Nat
             /\ Distinct(list)
             /\ \A e \in rows : Occurs(e, list)
             /\ \A i, j \in 1..Len(list) : i < j => Before(list[i], list[j])
<1> DEFINE rows == {e \in S : AfterCursor(e, cursor)}
           n == Cardinality(rows)
           R == {p \in rows \X rows : Before(p[1], p[2])}
           InOrder(list) == \A i, j \in DOMAIN list : i < j => Before(list[i], list[j])
           list == CHOOSE list \in [1..n -> rows] : InOrder(list)
<1>1. rows \in SUBSET Ids
  OBVIOUS
<1> HIDE DEF rows
<1>2. IsFiniteSet(rows) /\ n \in Nat
  BY <1>1, IdsAreFinite
<1>3. Orders(R, rows)
  BY <1>1, EventTimes DEF Orders, Before
<1>4. PICK s : IsListing(s, rows, R)
  <2> HIDE DEF R
  <2> QED
    BY <1>2, <1>3, ListingExists
<1>5. s \in [1..n -> rows] /\ InOrder(s)
  BY <1>4 DEF IsListing
<1>6. list \in [1..n -> rows] /\ InOrder(list)
  <2> HIDE DEF n, InOrder
  <2> QED
    BY <1>5
<1>7. Listed(S, cursor) = list
  BY DEF Listed, rows
<1> HIDE DEF list
<1>8. IsListing(list, rows, R)
  BY <1>6 DEF IsListing
<1>9. /\ list \in Seq(rows) /\ Len(list) = n
      /\ Distinct(list)
      /\ \A x \in rows : Occurs(x, list)
  <2> HIDE DEF n, R
  <2> QED
    BY <1>2, <1>3, <1>8, ListingIsComplete DEF n, Distinct, Occurs
<1>10. \A i, j \in 1..Len(list) : i < j => Before(list[i], list[j])
  BY <1>2, <1>6, <1>9
<1> QED
  BY <1>2, <1>7, <1>9, <1>10 DEF rows

LEMMA TagCounts == TypeOK => TagCountsMatchFilter
<1> SUFFICES ASSUME TypeOK, NEW t \in Tags
             PROVE  ListTagsWithCounts(t) = Len(Listed(ListEventsByTags({t}), NoCursor))
  BY DEF TagCountsMatchFilter
<1> DEFINE S == ListEventsByTags({t})
           rows == {e \in S : AfterCursor(e, NoCursor)}
<1>1. S \in SUBSET Ids
  BY DEF ListEventsByTags
<1>2. \A e \in S : AfterCursor(e, NoCursor)
  BY <1>1, EventTimes, EventsAssumption DEF AfterCursor, NoCursor, Times
<1>3. rows = {e \in Ids : t \in eventTags[e]}
  BY <1>2 DEF ListEventsByTags, TypeOK
<1>4. Len(Listed(S, NoCursor)) = Cardinality(rows)
  <2> HIDE DEF S
  <2> QED
    BY <1>1, ListedFacts
<1> QED
  BY <1>3, <1>4 DEF ListTagsWithCounts

\* An event of one of the last days is later than the window's beginning.
LEMMA HeatmapDays == TypeOK => HeatmapMatchesDays
<1> SUFFICES ASSUME TypeOK, NEW now \in Times, NEW days \in 1..2,
                    NEW d \in 0..DayKey(MaxTime), d > DayKey(now) - days
             PROVE  Heatmap(now, days)[d] = Cardinality(ListEventsOfDay(d))
  BY DEF HeatmapMatchesDays
<1>1. now \in Nat /\ DayLength \in Nat /\ DayLength > 0 /\ days \in Nat
  BY EventsAssumption DEF Times
<1>2. ASSUME NEW time \in Nat, time \div DayLength = d PROVE time >= now - days * DayLength
  <2> DEFINE q == now \div DayLength
  <2>1. q \in Nat /\ now < DayLength * q + DayLength
    BY <1>1
  <2>2. d \in Nat /\ DayLength * d <= time
    BY <1>1, <1>2
  <2>3. d >= q - days + 1
    BY <1>1, <2>1, <2>2 DEF DayKey
  <2> HIDE DEF q
  <2>4. DayLength * d >= DayLength * (q - days + 1)
    BY <1>1, <2>1, <2>2, <2>3
  <2>5. DayLength * (q - days + 1) = DayLength * q - days * DayLength + DayLength
    BY <1>1, <2>1
  <2> QED
    BY <1>1, <2>1, <2>2, <2>4, <2>5
<1>3. {e \in ListHeatmapEventTimes(CutoffSeconds(now, days)) : DayKey(event[e].time) = d}
        = ListEventsOfDay(d)
  BY <1>2, EventTimes DEF ListHeatmapEventTimes, ListEventsOfDay, CutoffSeconds, DayKey
<1> QED
  BY <1>3 DEF Heatmap

DistinctTimes(S) == \A e, f \in S : e # f => event[e].time # event[f].time
Cursor == [time : Nat, id : Nat]
Rest(S, cursor) == {e \in S : AfterCursor(e, cursor)}

\* A page takes the first of the rows after the cursor, and the next cursor
\* stands between what it took and what it left.
LEMMA PageFacts ==
  ASSUME TypeOK, NEW S \in SUBSET Ids, DistinctTimes(S), NEW limit \in Nat \ {0}, NEW cursor \in Cursor
  PROVE  LET page == EventsPage(S, cursor, limit)
         IN  /\ page.ids \in Seq(Rest(S, cursor)) /\ Distinct(page.ids)
             /\ page.hasMore \in BOOLEAN
             /\ ~page.hasMore => \A e \in Rest(S, cursor) : Occurs(e, page.ids)
             /\ page.hasMore =>
                  /\ page.cursor \in Cursor /\ Len(page.ids) >= 1
                  /\ Rest(S, page.cursor) \subseteq Rest(S, cursor)
                  /\ Rest(S, page.cursor) # {}
                  /\ \A e \in Rest(S, cursor) : Occurs(e, page.ids) <=> e \notin Rest(S, page.cursor)
<1> DEFINE rows == Listed(S, cursor)
           page == EventsPage(S, cursor, limit)
           T == Rest(S, cursor)
<1>1. /\ rows \in Seq(T) /\ Len(rows) \in Nat /\ Distinct(rows)
      /\ \A e \in T : Occurs(e, rows)
      /\ \A i, j \in 1..Len(rows) : i < j => Before(rows[i], rows[j])
  BY ListedFacts DEF Rest
<1>2. /\ page.ids = SubSeq(rows, 1, IF Len(rows) > limit THEN limit ELSE Len(rows))
      /\ page.hasMore = (Len(rows) > limit)
      /\ page.ids # <<>> => page.cursor = [time |-> event[Last(page.ids)].time, id |-> Last(page.ids)]
  BY DEF EventsPage
<1>3. T \in SUBSET S
  BY DEF Rest
<1> HIDE DEF rows, page, T
<1> DEFINE m == IF Len(rows) > limit THEN limit ELSE Len(rows)
<1>4. /\ page.ids \in Seq(T) /\ Len(page.ids) = m /\ m \in 0..Len(rows)
      /\ \A i \in 1..m : page.ids[i] = rows[i]
  BY <1>1, <1>2
<1> HIDE DEF m
<1>5. Distinct(page.ids)
  BY <1>1, <1>4 DEF Distinct
<1>6. CASE ~page.hasMore
  <2>1. m = Len(rows)
    BY <1>2, <1>6 DEF m
  <2>2. \A e \in T : Occurs(e, page.ids)
    BY <1>1, <1>4, <2>1 DEF Occurs
  <2> QED
    BY <1>2, <1>4, <1>5, <1>6, <2>2 DEF T, page
<1>7. CASE page.hasMore
  <2> DEFINE l == rows[m]
  <2>1. m = limit /\ m < Len(rows) /\ m \in 1..Len(rows) /\ m \in Nat
    <3>1. Len(rows) > limit
      BY <1>2, <1>7
    <3>2. m = limit
      BY <3>1 DEF m
    <3> QED
      BY <1>1, <3>1, <3>2
  <2>2. l \in T /\ l \in S /\ l \in Ids
    BY <1>1, <1>3, <2>1
  <2>3. page.cursor = [time |-> event[l].time, id |-> l]
    <3>1. page.ids # <<>> /\ Last(page.ids) = l
      BY <1>4, <2>1 DEF Last
    <3> QED
      BY <1>2, <3>1
  <2>4. page.cursor \in Cursor
    BY <2>2, <2>3, EventTimes DEF Cursor
  <2>5. \A e \in S : AfterCursor(e, page.cursor) <=> event[e].time < event[l].time
    BY <2>2, <2>3, EventTimes DEF AfterCursor, DistinctTimes
  <2>6. ASSUME NEW i \in 1..Len(rows)
        PROVE  event[rows[i]].time < event[l].time <=> i > m
    <3>1. rows[i] \in S /\ rows[i] \in Ids
      BY <1>1, <1>3
    <3>2. event[rows[i]].time \in Nat /\ event[l].time \in Nat
      BY <2>2, <3>1, EventTimes
    <3>3. CASE i > m
      <4>1. Before(l, rows[i]) /\ l # rows[i]
        BY <1>1, <2>1, <3>3 DEF Distinct
      <4>2. event[l].time # event[rows[i]].time
        BY <2>2, <3>1, <4>1 DEF DistinctTimes
      <4> QED
        BY <3>2, <3>3, <4>1, <4>2 DEF Before
    <3>4. CASE i = m
      BY <2>1, <3>2, <3>4
    <3>5. CASE i < m
      <4>1. Before(rows[i], l)
        BY <1>1, <2>1, <3>5
      <4> QED
        BY <2>1, <3>2, <3>5, <4>1 DEF Before
    <3> QED
      BY <2>1, <3>3, <3>4, <3>5
  <2>7. Rest(S, page.cursor) \subseteq T
    <3> SUFFICES ASSUME NEW e \in S, event[e].time < event[l].time PROVE AfterCursor(e, cursor)
      BY <2>5 DEF Rest, T
    <3>1. AfterCursor(l, cursor)
      BY <2>2 DEF T, Rest
    <3>2. event[e].time \in Nat /\ event[l].time \in Nat /\ cursor.time \in Nat
      BY <2>2, EventTimes DEF Cursor
    <3> QED
      BY <3>1, <3>2 DEF AfterCursor
  <2>8. Rest(S, page.cursor) # {}
    <3>1. m + 1 \in 1..Len(rows) /\ m + 1 > m
      BY <1>1, <2>1
    <3>2. rows[m + 1] \in S
      BY <1>1, <1>3, <3>1
    <3> QED
      BY <2>5, <2>6, <3>1, <3>2 DEF Rest
  <2>9. ASSUME NEW e \in T PROVE Occurs(e, page.ids) <=> e \notin Rest(S, page.cursor)
    <3>1. PICK i \in 1..Len(rows) : rows[i] = e
      BY <1>1 DEF Occurs
    <3>2. e \in Rest(S, page.cursor) <=> i > m
      BY <1>3, <2>5, <2>6, <3>1 DEF Rest
    <3>3. Occurs(e, page.ids) <=> i <= m
      <4>1. ASSUME i <= m PROVE Occurs(e, page.ids)
        <5>1. i \in 1..m
          BY <2>1, <4>1
        <5>2. page.ids[i] = e /\ i \in 1..Len(page.ids)
          BY <1>4, <3>1, <5>1
        <5> QED
          BY <5>2 DEF Occurs
      <4>2. ASSUME Occurs(e, page.ids) PROVE i <= m
        <5>1. PICK j \in 1..m : page.ids[j] = e
          BY <1>4, <4>2 DEF Occurs
        <5>2. j \in 1..Len(rows) /\ rows[j] = e
          BY <1>4, <2>1, <5>1
        <5>3. i = j
          BY <1>1, <3>1, <5>2 DEF Distinct
        <5> QED
          BY <5>1, <5>3
      <4> QED
        BY <4>1, <4>2
    <3> QED
      BY <2>1, <3>2, <3>3
  <2>10. Len(page.ids) >= 1
    BY <1>4, <2>1
  <2> QED
    BY <1>2, <1>4, <1>5, <1>7, <2>4, <2>7, <2>8, <2>9, <2>10 DEF T, page
<1> QED
  BY <1>2, <1>6, <1>7

\* Reading on: what was read is listed, each event in one place.
ReadSoFar(S, k, read) ==
  /\ read.ids \in Seq(S) /\ Distinct(read.ids)
  /\ read.hasMore \in BOOLEAN
  /\ ~read.hasMore => \A e \in S : Occurs(e, read.ids)
  /\ read.hasMore =>
       /\ read.cursor \in Cursor /\ Len(read.ids) >= k
       /\ k > 0 => Rest(S, read.cursor) # {}
       /\ \A e \in S : Occurs(e, read.ids) <=> e \notin Rest(S, read.cursor)

LEMMA ReadingStarts ==
  ASSUME TypeOK, NEW S \in SUBSET Ids
  PROVE  ReadSoFar(S, 0, NothingRead)
<1>1. NoCursor \in Cursor
  BY EventsAssumption DEF NoCursor, Cursor
<1>2. \A e \in S : AfterCursor(e, NoCursor)
  BY EventTimes, EventsAssumption DEF AfterCursor, NoCursor, Times
<1>3. \A e \in S : ~Occurs(e, <<>>)
  BY DEF Occurs
<1>4. <<>> \in Seq(S) /\ Distinct(<<>>) /\ Len(<<>>) = 0
  BY DEF Distinct
<1> QED
  BY <1>1, <1>2, <1>3, <1>4 DEF ReadSoFar, NothingRead, Rest

LEMMA ConcatFacts ==
  ASSUME NEW S, NEW s \in Seq(S), NEW t \in Seq(S)
  PROVE  /\ s \o t \in Seq(S) /\ Len(s \o t) = Len(s) + Len(t)
         /\ \A e : Occurs(e, s \o t) <=> Occurs(e, s) \/ Occurs(e, t)
         /\ Distinct(s) /\ Distinct(t) /\ (\A e : ~(Occurs(e, s) /\ Occurs(e, t))) => Distinct(s \o t)
<1> DEFINE u == s \o t
<1>1. /\ u \in Seq(S) /\ Len(u) = Len(s) + Len(t) /\ Len(s) \in Nat /\ Len(t) \in Nat
      /\ \A i \in 1..Len(s) : i \in 1..Len(u) /\ u[i] = s[i]
      /\ \A i \in 1..Len(t) : i + Len(s) \in 1..Len(u) /\ u[i + Len(s)] = t[i]
  OBVIOUS
<1> HIDE DEF u
<1>2. ASSUME NEW i \in 1..Len(u)
      PROVE  i \in 1..Len(s) \/ (i - Len(s) \in 1..Len(t) /\ i = (i - Len(s)) + Len(s))
  BY <1>1
<1>3. \A i \in 1..Len(u) : (i \in 1..Len(s) /\ u[i] = s[i])
                           \/ (i - Len(s) \in 1..Len(t) /\ u[i] = t[i - Len(s)])
  BY <1>1, <1>2
<1>4. \A e : Occurs(e, u) <=> Occurs(e, s) \/ Occurs(e, t)
  BY <1>1, <1>3 DEF Occurs
<1>5. ASSUME Distinct(s), Distinct(t), \A e : ~(Occurs(e, s) /\ Occurs(e, t)),
             NEW i \in 1..Len(u), NEW j \in 1..Len(u), u[i] = u[j]
      PROVE  i = j
  <2>1. CASE i \in 1..Len(s) /\ j \in 1..Len(s)
    BY <1>1, <1>5, <2>1 DEF Distinct
  <2>2. CASE i \notin 1..Len(s) /\ j \notin 1..Len(s)
    <3>1. i - Len(s) \in 1..Len(t) /\ j - Len(s) \in 1..Len(t) /\ t[i - Len(s)] = t[j - Len(s)]
      BY <1>3, <1>5, <2>2
    <3>2. i - Len(s) = j - Len(s)
      BY <1>5, <3>1 DEF Distinct
    <3> QED
      BY <1>1, <3>2
  <2>3. CASE i \in 1..Len(s) /\ j \notin 1..Len(s)
    <3>1. Occurs(u[i], s)
      BY <1>1, <2>3 DEF Occurs
    <3>2. Occurs(u[j], t)
      BY <1>3, <1>5, <2>3 DEF Occurs
    <3> QED
      BY <1>5, <3>1, <3>2
  <2>4. CASE i \notin 1..Len(s) /\ j \in 1..Len(s)
    <3>1. Occurs(u[j], s)
      BY <1>1, <2>4 DEF Occurs
    <3>2. Occurs(u[i], t)
      BY <1>3, <1>5, <2>4 DEF Occurs
    <3> QED
      BY <1>5, <3>1, <3>2
  <2> QED
    BY <2>1, <2>2, <2>3, <2>4
<1> QED
  BY <1>1, <1>4, <1>5 DEF u, Distinct

LEMMA ReadingGoesOn ==
  ASSUME TypeOK, NEW S \in SUBSET Ids, DistinctTimes(S), NEW limit \in Nat \ {0},
         NEW k \in Nat, NEW read, ReadSoFar(S, k, read)
  PROVE  ReadSoFar(S, k + 1, ReadOn(S, limit, read))
<1>1. CASE ~read.hasMore
  BY <1>1 DEF ReadSoFar, ReadOn
<1>2. CASE read.hasMore
  <2> DEFINE page == EventsPage(S, read.cursor, limit)
             T == Rest(S, read.cursor)
             on == ReadOn(S, limit, read)
  <2>1. on = [ids |-> read.ids \o page.ids, hasMore |-> page.hasMore, cursor |-> page.cursor]
    BY <1>2 DEF ReadOn, EventsPage
  <2>2. /\ page.ids \in Seq(T) /\ Distinct(page.ids)
        /\ page.hasMore \in BOOLEAN
        /\ ~page.hasMore => \A e \in T : Occurs(e, page.ids)
        /\ page.hasMore =>
             /\ page.cursor \in Cursor /\ Len(page.ids) >= 1
             /\ Rest(S, page.cursor) \subseteq T
             /\ Rest(S, page.cursor) # {}
             /\ \A e \in T : Occurs(e, page.ids) <=> e \notin Rest(S, page.cursor)
    BY <1>2, PageFacts DEF ReadSoFar
  <2>3. /\ read.ids \in Seq(S) /\ Distinct(read.ids) /\ Len(read.ids) >= k
        /\ \A e \in S : Occurs(e, read.ids) <=> e \notin T
    BY <1>2 DEF ReadSoFar
  <2>4. T \in SUBSET S
    BY DEF Rest
  <2> HIDE DEF page, T, on
  <2>5. page.ids \in Seq(S) /\ \A e : Occurs(e, page.ids) => e \in T
    BY <2>2, <2>4 DEF Occurs
  <2>6. \A e : ~(Occurs(e, read.ids) /\ Occurs(e, page.ids))
    BY <2>3, <2>4, <2>5
  <2>7. /\ on.ids \in Seq(S) /\ Distinct(on.ids) /\ Len(on.ids) = Len(read.ids) + Len(page.ids)
        /\ \A e : Occurs(e, on.ids) <=> Occurs(e, read.ids) \/ Occurs(e, page.ids)
    BY <2>1, <2>2, <2>3, <2>5, <2>6, ConcatFacts
  <2>8. on.hasMore = page.hasMore /\ on.cursor = page.cursor
    BY <2>1
  <2>9. ASSUME ~page.hasMore PROVE \A e \in S : Occurs(e, on.ids)
    BY <2>2, <2>3, <2>7, <2>9
  <2>10. ASSUME page.hasMore
         PROVE  /\ page.cursor \in Cursor /\ Len(on.ids) >= k + 1
                /\ Rest(S, page.cursor) # {}
                /\ \A e \in S : Occurs(e, on.ids) <=> e \notin Rest(S, page.cursor)
    <3>1. page.cursor \in Cursor /\ Rest(S, page.cursor) # {}
      BY <2>2, <2>10
    <3>2. Len(on.ids) >= k + 1
      <4>1. /\ Len(read.ids) \in Nat /\ Len(page.ids) \in Nat
            /\ Len(read.ids) >= k /\ Len(page.ids) >= 1
        BY <2>2, <2>3, <2>5, <2>10
      <4>2. Len(on.ids) = Len(read.ids) + Len(page.ids)
        BY <2>7
      <4>3. \A a, b \in Nat : a >= k /\ b >= 1 => a + b >= k + 1
        OBVIOUS
      <4> QED
        BY <4>1, <4>2, <4>3
    <3>3. ASSUME NEW e \in S PROVE Occurs(e, on.ids) <=> e \notin Rest(S, page.cursor)
      <4>1. CASE e \in T
        BY <2>2, <2>3, <2>7, <2>10, <4>1
      <4>2. CASE e \notin T
        BY <2>2, <2>3, <2>7, <2>10, <4>2
      <4> QED
        BY <4>1, <4>2
    <3> QED
      BY <3>1, <3>2, <3>3
  <2> QED
    BY <2>2, <2>7, <2>8, <2>9, <2>10 DEF ReadSoFar, on
<1> QED
  BY <1>1, <1>2 DEF ReadSoFar

\* A list of some of a finite set, each in one place, is as long as it at most.
LEMMA DistinctIsShort ==
  ASSUME NEW S, IsFiniteSet(S), NEW s \in Seq(S), Distinct(s)
  PROVE  /\ Len(s) <= Cardinality(S)
         /\ (\A e \in S : Occurs(e, s)) => Len(s) = Cardinality(S)
<1> DEFINE n == Len(s)
<1>1. n \in Nat /\ s \in [1..n -> S]
  OBVIOUS
<1>2. s \in Injection(1..n, S)
  BY <1>1 DEF Injection, IsInjective, Distinct
<1>3. Cardinality(1..n) = n
  BY SMTT(20), <1>1, FS_Interval
<1>4. Cardinality(1..n) <= Cardinality(S) /\ (Cardinality(1..n) = Cardinality(S) <=> s \in Surjection(1..n, S))
  <2> HIDE DEF n
  <2> QED
    BY <1>2, FS_Injection
<1>5. (\A e \in S : Occurs(e, s)) => s \in Surjection(1..n, S)
  BY <1>1 DEF Surjection, Occurs
<1> QED
  BY <1>3, <1>4, <1>5

\* What is read page by page, as a function of the number of pages.
IsReading(f, N, S, limit) ==
  f = [k \in 0..N |-> IF k = 0 THEN NothingRead ELSE ReadOn(S, limit, f[k - 1])]

LEMMA PagesAreRead ==
  ASSUME NEW N \in Nat, NEW S, NEW limit
  PROVE  \E f : IsReading(f, N, S, limit)
<1> USE DEF IsReading
<1> DEFINE IsRead(n, f) == IsReading(f, n, S, limit)
           Bad == {n \in Nat : ~\E f : IsRead(n, f)}
<1> SUFFICES ASSUME Bad # {} PROVE FALSE
  OBVIOUS
<1>1. PICK n \in Bad : \A m \in Bad : n <= m
  <2> HIDE DEF Bad
  <2>1. Bad \in SUBSET Nat
    BY DEF Bad
  <2> QED
    BY <2>1, Least
<1>2. CASE n = 0
  <2>1. IsRead(0, [k \in 0..0 |-> NothingRead])
    OBVIOUS
  <2> QED
    BY <1>1, <1>2, <2>1
<1>3. CASE n # 0
  <2>1. n - 1 \in Nat /\ n - 1 \notin Bad
    <3>1. n \in Nat
      OBVIOUS
    <3>2. ~(n <= n - 1)
      BY <3>1
    <3> HIDE DEF Bad
    <3> QED
      BY <1>1, <1>3, <3>1, <3>2
  <2>2. PICK f : IsRead(n - 1, f)
    BY <2>1
  <2> DEFINE g == [k \in 0..n |-> IF k = n THEN ReadOn(S, limit, f[n - 1]) ELSE f[k]]
  <2>3. ASSUME NEW k \in 0..n PROVE g[k] = IF k = 0 THEN NothingRead ELSE ReadOn(S, limit, g[k - 1])
    <3>1. CASE k = n
      <4>1. g[k - 1] = f[n - 1]
        BY <1>1, <1>3, <3>1
      <4> QED
        BY <1>3, <3>1, <4>1
    <3>2. CASE k # n
      <4>1. k \in 0..(n - 1) /\ g[k] = f[k]
        BY <1>1, <3>2
      <4>2. f[k] = IF k = 0 THEN NothingRead ELSE ReadOn(S, limit, f[k - 1])
        BY <2>2, <4>1
      <4>3. k # 0 => g[k - 1] = f[k - 1]
        BY <1>1, <4>1
      <4> QED
        BY <4>1, <4>2, <4>3
    <3> QED
      BY <3>1, <3>2
  <2>4. IsRead(n, g)
    BY <2>3
  <2> QED
    BY <1>1, <2>4
<1> QED
  BY <1>2, <1>3

\* Reading page after page lists every event once, if their times differ.
LEMMA AllPagesAreRead ==
  ASSUME TypeOK, NEW S \in SUBSET Ids, DistinctTimes(S), NEW limit \in 1..NEvents
  PROVE  ToSet(AllPages(S, limit)) = S /\ Len(AllPages(S, limit)) = Cardinality(S)
<1>0. NEvents \in Nat /\ limit \in Nat \ {0} /\ NEvents > 0
  BY EventsAssumption
<1> DEFINE Reads(f) == IsReading(f, NEvents, S, limit)
           pages == CHOOSE f : Reads(f)
           Wrong == {k \in 0..NEvents : ~ReadSoFar(S, k, pages[k])}
<1>1. Reads(pages)
  <2>1. \E f : Reads(f)
    <3>1. NEvents \in Nat
      BY <1>0
    <3> QED
      BY <3>1, PagesAreRead, Zenon
  <2> HIDE DEF Reads
  <2> QED
    BY <2>1, Zenon
<1>2. AllPages(S, limit) = pages[NEvents].ids
  BY DEF AllPages, IsReading
<1> HIDE DEF pages
<1>3. \A k \in 0..NEvents : pages[k] = IF k = 0 THEN NothingRead ELSE ReadOn(S, limit, pages[k - 1])
  BY <1>1 DEF IsReading
<1> HIDE DEF Reads
<1>4. Wrong = {}
  <2> SUFFICES ASSUME Wrong # {} PROVE FALSE
    OBVIOUS
  <2>1. Wrong \in SUBSET Nat
    BY <1>0
  <2>2. PICK k \in Wrong : \A m \in Wrong : k <= m
    <3> HIDE DEF Wrong
    <3> QED
      BY <2>1, Least
  <2>3. CASE k = 0
    BY <1>3, <2>2, <2>3, ReadingStarts
  <2>4. CASE k # 0
    <3>1. k - 1 \in 0..NEvents /\ k - 1 \in Nat /\ ~(k <= k - 1) /\ k = (k - 1) + 1
      BY <1>0, <2>4
    <3>2. ReadSoFar(S, k - 1, pages[k - 1])
      BY <2>2, <3>1
    <3>3. ReadSoFar(S, (k - 1) + 1, ReadOn(S, limit, pages[k - 1]))
      BY <1>0, <3>1, <3>2, ReadingGoesOn
    <3>4. pages[k] = ReadOn(S, limit, pages[k - 1])
      BY <1>3, <2>4
    <3> QED
      BY <3>1, <3>3, <3>4
  <2> QED
    BY <2>3, <2>4
<1> DEFINE read == pages[NEvents]
<1>5. ReadSoFar(S, NEvents, read)
  BY <1>0, <1>4
<1> HIDE DEF read
<1>6. read.ids \in Seq(S) /\ Distinct(read.ids) /\ IsFiniteSet(S)
  BY <1>5, IdsAreFinite DEF ReadSoFar
<1>7. ~read.hasMore
  <2> SUFFICES ASSUME read.hasMore PROVE FALSE
    OBVIOUS
  <2>1. PICK e \in S : e \in Rest(S, read.cursor)
    BY <1>0, <1>5 DEF ReadSoFar, Rest
  <2>2. ~Occurs(e, read.ids) /\ Len(read.ids) >= NEvents
    BY <1>5, <2>1 DEF ReadSoFar
  <2> DEFINE T == S \ {e}
  <2>3. read.ids \in Seq(T)
    BY <1>6, <2>2 DEF Occurs
  <2>4. IsFiniteSet(T) /\ Cardinality(T) = Cardinality(S) - 1
    BY <1>6, FS_RemoveElement
  <2>5. Len(read.ids) <= Cardinality(T)
    BY <1>6, <2>3, <2>4, DistinctIsShort
  <2>6. Cardinality(S) <= NEvents /\ Cardinality(S) \in Nat
    <3>1. Cardinality(Ids) = NEvents
      BY <1>0, FS_Interval DEF Ids
    <3> QED
      BY <3>1, IdsAreFinite, FS_Subset
  <2> QED
    BY <1>0, <1>6, <2>2, <2>4, <2>5, <2>6
<1>8. \A e \in S : Occurs(e, read.ids)
  BY <1>5, <1>7 DEF ReadSoFar
<1>9. Len(read.ids) = Cardinality(S)
  BY <1>6, <1>8, DistinctIsShort
<1>10. ToSet(read.ids) = S
  BY SMTT(20), <1>6, <1>8 DEF ToSet, Occurs
<1> QED
  BY <1>2, <1>9, <1>10 DEF read

LEMMA Pages == TypeOK => PagesListEventsOfDistinctTimesOnce
<1> SUFFICES ASSUME TypeOK,
                    \A e, f \in Ids : Live(e) /\ Live(f) /\ e # f => event[e].time # event[f].time,
                    NEW limit \in 1..NEvents, NEW source \in {"all", "manual", "auto"}
             PROVE  LET S == SourceFilter(source)
                    IN  /\ ToSet(AllPages(S, limit)) = S
                        /\ Len(AllPages(S, limit)) = Cardinality(S)
  BY DEF PagesListEventsOfDistinctTimesOnce, PagesListEventsOnce
<1> DEFINE S == SourceFilter(source)
<1>1. S \in SUBSET Ids /\ DistinctTimes(S)
  BY DEF SourceFilter, DistinctTimes
<1> HIDE DEF S
<1>2. ToSet(AllPages(S, limit)) = S /\ Len(AllPages(S, limit)) = Cardinality(S)
  BY <1>1, AllPagesAreRead
<1> QED
  BY <1>2 DEF S

\* The tables are of their types; the number shown beside a tag is the number
\* of events a filter by it lists, and the heatmap counts what each day lists.
THEOREM WellFormedHolds == Spec => []WellFormed
<1>1. IndInv => WellFormed
  BY TagCounts, HeatmapDays DEF WellFormed, IndInv
<1> QED
  BY <1>1, Invariance, PTL

\* Reading page after page, by whichever filter and page size, lists every
\* event once when no two of them have the same time.
THEOREM PagesListOnce == Spec => []PagesListEventsOfDistinctTimesOnce
<1>1. IndInv => PagesListEventsOfDistinctTimesOnce
  BY Pages DEF IndInv
<1> QED
  BY <1>1, Invariance, PTL
=============================================================================
