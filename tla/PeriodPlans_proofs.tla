------------------------ MODULE PeriodPlans_proofs ------------------------
(***************************************************************************)
(* Proofs about PeriodPlans, for every calendar and any number of items,   *)
(* comments, events and requests: IndInv is inductive, and what the pages  *)
(* of a month promise follows from it.                                     *)
(***************************************************************************)
EXTENDS PeriodPlans, FiniteSetTheorems, WellFoundedInduction, TLAPS

USE DEF At, Goto, Finish, rows, GetPeriodPlanByPeriod, GetPlanItem, None, Clear

LEMMA IdleFits == Idle \in Request /\ Fits(Idle)
BY DEF Idle, Request, Fits

\* A period in the calendar is not the blank one, and a month is not a week.
LEMMA PeriodFacts ==
  /\ NoPeriod \notin Periods
  /\ \A m : Month(m) # NoPeriod
  /\ \A p \in Periods : p.scope = "week" => p.n \in 1..NWeeks
  /\ \A p \in Periods : /\ p = [scope |-> p.scope, n |-> p.n] /\ p.n \in Nat \ {0}
                        /\ p.scope \in {"week", "month"}
<1>1. \A p \in Periods :
        \/ \E w \in 1..NWeeks : p = [scope |-> "week", n |-> w]
        \/ \E m \in 1..NMonths : p = [scope |-> "month", n |-> m]
  BY DEF Periods, Week, Month
<1>2. ASSUME NEW p \in Periods
      PROVE  /\ p.scope = "week" => p.n \in 1..NWeeks
             /\ p = [scope |-> p.scope, n |-> p.n] /\ p.n \in Nat \ {0}
             /\ p.scope \in {"week", "month"}
  <2>1. CASE \E w \in 1..NWeeks : p = [scope |-> "week", n |-> w]
    BY <2>1, PlansAssumption
  <2>2. CASE \E m \in 1..NMonths : p = [scope |-> "month", n |-> m]
    BY <2>2, PlansAssumption
  <2> QED
    BY <1>1, <2>1, <2>2
<1>3. NoPeriod.n = 0
  BY DEF NoPeriod, Week
<1>4. \A m : Month(m) # NoPeriod
  <2> SUFFICES ASSUME NEW m PROVE Month(m) # NoPeriod
    OBVIOUS
  <2>1. Month(m).scope = "month" /\ NoPeriod.scope = "week"
    BY DEF Month, Week, NoPeriod
  <2> QED
    BY <2>1
<1>5. NoPeriod \notin Periods
  BY <1>2, <1>3
<1> QED
  BY <1>2, <1>4, <1>5

LEMMA InitInv == Init => IndInv
<1> SUFFICES ASSUME Init PROVE IndInv
  OBVIOUS
<1>1. NoItem \in Item /\ NoComment \in Comment
  BY DEF NoItem, Item, NoComment, Comment, Statuses
<1>2. TypeOK
  <2>1. item \in [Items -> Item] /\ comment \in [Comments -> Comment]
    BY <1>1 DEF Init
  <2>2. request \in [Requests -> Request] /\ calls \in 0..MaxCalls /\ plans \subseteq Periods
    BY IdleFits, PlansAssumption DEF Init
  <2>3. event \in [Events -> {"absent", "live", "deleted"}] /\ cites \in [Events -> SUBSET Items]
    BY DEF Init
  <2>4. \A i \in Items : item[i].state = "absent"
    BY DEF Init, NoItem
  <2> QED
    BY <2>1, <2>2, <2>3, <2>4 DEF TypeOK
<1> QED
  BY <1>2, IdleFits DEF Init, IndInv, AbsentItemsAreBlank, ParentsAreOfTheMonth, DeferralsGoForward,
     OriginsExist, LinksAreLive, CommentsFollowItems, NoItem, NoComment, Live

(***************************************************************************)
(* Rows stay what they are to those who have read them.                    *)
(***************************************************************************)
Frame ==
  /\ plans \subseteq plans'
  /\ \A i \in Items : item[i].state # "absent" =>
       item'[i].state # "absent" /\ item'[i].period = item[i].period

\* What is linked to a month's item is linked to one that exists.
LEMMA MonthItemsExist ==
  ASSUME IndInv, NEW i \in Items, NEW m, item[i].period = Month(m)
  PROVE  item[i].state # "absent"
BY PeriodFacts DEF IndInv, AbsentItemsAreBlank, NoItem

LEMMA FitsStay ==
  ASSUME IndInv, Frame, NEW held \in Request, Fits(held)
  PROVE  Fits(held)'
<1>1. CASE held.op \in {"newPlan", "link", "insert"}
  <2>1. held.from \in Items \union {0} /\ held.parent \in Items \union {0, -1}
    BY DEF Request
  <2>2. held.op = "insert" /\ held.parent # 0 =>
          /\ held.period.scope = "week"
          /\ item'[held.parent].period = Month(MonthOf[held.period.n])
    BY <1>1, <2>1, MonthItemsExist DEF Fits, Frame
  <2>3. held.from # 0 =>
          /\ item'[held.from].state # "absent"
          /\ item'[held.from].period = [held.period EXCEPT !.n = @ - 1]
    BY <1>1, <2>1 DEF Fits, Frame
  <2> QED
    BY <1>1, <2>2, <2>3 DEF Fits, Frame
<1>2. CASE held.op \in {"relink", "update", "delete", "comment"}
  <2>1. held.op = "update" /\ held.parent \in Items =>
          /\ item'[held.item].period.scope = "week"
          /\ item'[held.parent].period = Month(MonthOf[item'[held.item].period.n])
    BY <1>2, MonthItemsExist DEF Fits, Frame
  <2> QED
    BY <1>2, <2>1 DEF Fits, Frame
<1>3. CASE held.op = "idle" \/ held.op = "mark"
  BY <1>3 DEF Fits
<1> QED
  BY <1>1, <1>2, <1>3 DEF Request

\* A request is replaced by one that fits.
LEMMA RequestsFit ==
  ASSUME IndInv, Frame, NEW r \in Requests, NEW held \in Request, Fits(held)',
         request' = [request EXCEPT ![r] = held]
  PROVE  request' \in [Requests -> Request] /\ \A q \in Requests : Fits(request[q])'
<1>1. request' \in [Requests -> Request]
  BY DEF IndInv, TypeOK
<1>2. ASSUME NEW q \in Requests PROVE Fits(request[q])'
  <2>1. CASE q = r
    BY <2>1 DEF IndInv, TypeOK, Fits
  <2>2. CASE q # r
    <3>1. request'[q] = request[q] /\ request[q] \in Request /\ Fits(request[q])
      BY <2>2 DEF IndInv, TypeOK
    <3> QED
      BY ZenonT(40), <3>1, FitsStay DEF Fits
  <2> QED
    BY <2>1, <2>2
<1> QED
  BY <1>1, <1>2

\* A step of a request that writes nothing but what the request holds.
LEMMA RequestPreserves ==
  ASSUME IndInv, UNCHANGED rows, calls' \in 0..MaxCalls,
         NEW r \in Requests, NEW held \in Request, Fits(held),
         request' = [request EXCEPT ![r] = held]
  PROVE  IndInv'
<1>1. Frame
  BY DEF Frame
<1>2. Fits(held)'
  BY <1>1, FitsStay
<1>3. request' \in [Requests -> Request] /\ \A q \in Requests : Fits(request[q])'
  BY <1>1, <1>2, RequestsFit
<1>4. TypeOK'
  BY <1>3 DEF IndInv, TypeOK
<1> QED
  BY <1>3, <1>4 DEF IndInv, AbsentItemsAreBlank, ParentsAreOfTheMonth, DeferralsGoForward,
     OriginsExist, LinksAreLive, CommentsFollowItems, Live

\* So is one that writes comments or events besides.
LEMMA CommentsPreserve ==
  ASSUME IndInv, UNCHANGED <<plans, item>>, calls' \in 0..MaxCalls,
         comment' \in [Comments -> Comment],
         event' \in [Events -> {"absent", "live", "deleted"}],
         cites' \in [Events -> SUBSET Items],
         CommentsFollowItems',
         request' \in [Requests -> Request], \A q \in Requests : Fits(request[q])'
  PROVE  IndInv'
<1>1. TypeOK'
  BY DEF IndInv, TypeOK
<1> QED
  BY <1>1 DEF IndInv, AbsentItemsAreBlank, ParentsAreOfTheMonth, DeferralsGoForward,
     OriginsExist, LinksAreLive, Live

LEMMA NewPlanPreserves ==
  ASSUME IndInv, NEW r \in Requests, NewPlan(r), calls' \in 0..MaxCalls
  PROVE  IndInv'
<1> DEFINE held == request[r]
<1>0. held \in Request /\ held.op = "newPlan" /\ Fits(held)
  BY DEF NewPlan, IndInv, TypeOK
<1>1. CASE held.period \in plans
  BY <1>1, IdleFits, RequestPreserves DEF NewPlan
<1>2. CASE held.period \notin plans
  <2>0. PICK linking \in Request : linking = [held EXCEPT !.op = "link"]
    BY <1>0 DEF Request
  <2>1. /\ plans' = plans \union {held.period}
        /\ request' = [request EXCEPT ![r] = linking]
        /\ UNCHANGED <<item, comment, event, cites>>
    BY <1>2, <2>0 DEF NewPlan, InsertPeriodPlan
  <2>2. Fits(linking)'
    <3>1. held.period \in Periods
      BY <1>0 DEF Fits
    <3> QED
      BY <1>0, <2>0, <2>1, <3>1 DEF Request, Fits
  <2>3. Frame
    BY <2>1 DEF Frame
  <2>4. request' \in [Requests -> Request] /\ \A q \in Requests : Fits(request[q])'
    BY <2>1, <2>2, <2>3, RequestsFit
  <2>5. held.period \in Periods
    BY <1>0 DEF Fits
  <2>6. TypeOK'
    BY <2>1, <2>4, <2>5 DEF IndInv, TypeOK
  <2> QED
    BY <2>1, <2>4, <2>6 DEF IndInv, AbsentItemsAreBlank, ParentsAreOfTheMonth, DeferralsGoForward,
       OriginsExist, LinksAreLive, CommentsFollowItems, Live
<1> QED
  BY <1>1, <1>2

LEMMA LinkPreserves ==
  ASSUME IndInv, NEW r \in Requests, Link(r), calls' \in 0..MaxCalls
  PROVE  IndInv'
<1> DEFINE held == request[r]
           linked == [held EXCEPT !.op = "insert"]
           unlinked == [held EXCEPT !.op = "insert", !.parent = 0]
<1>0. held \in Request /\ held.op = "link" /\ Fits(held) /\ UNCHANGED rows
  BY DEF Link, IndInv, TypeOK
<1>1. CASE held.parent = 0 \/ ValidateParentLink(held.period, held.parent)
  <2>1. linked \in Request
    BY <1>0 DEF Request
  <2>2. Fits(linked)
    BY <1>0, <1>1 DEF Fits, ValidateParentLink, Request
  <2>3. request' = [request EXCEPT ![r] = linked]
    BY <1>1 DEF Link
  <2> HIDE DEF linked
  <2> QED
    BY <1>0, <2>1, <2>2, <2>3, RequestPreserves
<1>2. CASE ~(held.parent = 0 \/ ValidateParentLink(held.period, held.parent)) /\ held.from # 0
  <2>1. unlinked \in Request
    BY <1>0 DEF Request
  <2>2. Fits(unlinked)
    BY <1>0 DEF Fits, Request
  <2>3. request' = [request EXCEPT ![r] = unlinked]
    BY <1>2 DEF Link
  <2> HIDE DEF unlinked
  <2> QED
    BY <1>0, <2>1, <2>2, <2>3, RequestPreserves
<1>3. CASE ~(held.parent = 0 \/ ValidateParentLink(held.period, held.parent)) /\ held.from = 0
  BY <1>0, <1>3, IdleFits, RequestPreserves DEF Link
<1> QED
  BY <1>1, <1>2, <1>3

LEMMA InsertPreserves ==
  ASSUME IndInv, NEW r \in Requests, Insert(r), calls' \in 0..MaxCalls
  PROVE  IndInv'
<1> DEFINE held == request[r]
           new == [state |-> "live", period |-> held.period, status |-> "open",
                   parent |-> held.parent, from |-> held.from,
                   stale |-> held.parent # 0 /\ ~Live(held.parent)]
<1> PICK left \in Request : left = IF held.from = 0 THEN Idle ELSE [held EXCEPT !.op = "mark"]
  BY IdleFits DEF Insert, IndInv, TypeOK, Request
<1>0. /\ held \in Request /\ held.op = "insert" /\ Fits(held)
      /\ request' = [request EXCEPT ![r] = left]
      /\ UNCHANGED <<plans, comment, event, cites>>
  BY DEF Insert, IndInv, TypeOK
<1>1. PICK i \in Items : item[i].state = "absent" /\ item' = [item EXCEPT ![i] = new]
  BY DEF Insert, InsertPlanItem, Unused
<1>2. /\ held.period \in plans /\ held.period \in Periods
      /\ held.parent \in Items \union {0} /\ held.from \in Items \union {0}
      /\ held.parent # 0 => /\ held.period.scope = "week"
                            /\ item[held.parent].period = Month(MonthOf[held.period.n])
                            /\ held.parent # i
      /\ held.from # 0 => /\ item[held.from].state # "absent"
                          /\ item[held.from].period = [held.period EXCEPT !.n = @ - 1]
                          /\ held.from # i
  BY <1>0, <1>1, MonthItemsExist DEF Fits, Request
<1>3. new \in Item
  BY <1>2 DEF Item, Statuses
<1>4. /\ new.state = "live" /\ new.period = held.period /\ new.parent = held.parent
      /\ new.from = held.from /\ (new.stale <=> held.parent # 0 /\ ~Live(held.parent))
  OBVIOUS
<1> HIDE DEF new
<1>5. item' \in [Items -> Item] /\ item'[i] = new /\ \A j \in Items : j # i => item'[j] = item[j]
  BY <1>1, <1>3 DEF IndInv, TypeOK
<1>6. Frame
  BY <1>0, <1>1, <1>5 DEF Frame
<1>7. Fits(left)'
  BY <1>0 DEF Request, Fits, Idle
<1>8. request' \in [Requests -> Request] /\ \A q \in Requests : Fits(request[q])'
  BY <1>0, <1>6, <1>7, RequestsFit
<1>9. TypeOK'
  BY <1>0, <1>2, <1>4, <1>5, <1>8 DEF IndInv, TypeOK
<1>10. AbsentItemsAreBlank'
  BY <1>4, <1>5 DEF IndInv, AbsentItemsAreBlank
<1>11. ParentsAreOfTheMonth'
  <2> SUFFICES ASSUME NEW j \in Items, item'[j].state # "absent", item'[j].parent # 0
               PROVE  /\ item'[j].period.scope = "week"
                      /\ item'[item'[j].parent].period = Month(MonthOf[item'[j].period.n])
    BY DEF ParentsAreOfTheMonth
  <2>1. CASE j = i
    BY <2>1, <1>2, <1>4, <1>5
  <2>2. CASE j # i
    <3>1. item[j].parent \in Items
      BY <2>2, <1>5 DEF IndInv, TypeOK, Item
    <3>2. item[item[j].parent].period = Month(MonthOf[item[j].period.n]) /\ item[j].period.scope = "week"
      BY <2>2, <1>5 DEF IndInv, ParentsAreOfTheMonth
    <3>3. item[j].parent # i
      BY <3>1, <3>2, <1>1, MonthItemsExist
    <3> QED
      BY <2>2, <1>5, <3>1, <3>2, <3>3
  <2> QED
    BY <2>1, <2>2
<1>12. DeferralsGoForward' /\ OriginsExist'
  <2> SUFFICES ASSUME NEW j \in Items, item'[j].state # "absent", item'[j].from # 0
               PROVE  /\ item'[item'[j].from].period = [item'[j].period EXCEPT !.n = @ - 1]
                      /\ item'[item'[j].from].state # "absent"
    BY DEF DeferralsGoForward, OriginsExist
  <2>1. CASE j = i
    BY <2>1, <1>2, <1>4, <1>5
  <2>2. CASE j # i
    <3>1. item[j].from \in Items
      BY <2>2, <1>5 DEF IndInv, TypeOK, Item
    <3> QED
      BY <2>2, <3>1, <1>1, <1>5 DEF IndInv, DeferralsGoForward, OriginsExist
  <2> QED
    BY <2>1, <2>2
<1>13. LinksAreLive'
  <2>1. \A j : Live(j) => Live(j)'
    BY <1>1, <1>5 DEF Live
  <2> SUFFICES ASSUME NEW j \in Items, item'[j].state = "live", item'[j].parent # 0, ~item'[j].stale
               PROVE  item'[j].parent \in Items /\ item'[item'[j].parent].state = "live"
    BY DEF LinksAreLive, Live
  <2>2. CASE j = i
    BY <2>1, <2>2, <1>2, <1>4, <1>5 DEF Live
  <2>3. CASE j # i
    BY <2>1, <2>3, <1>5 DEF IndInv, LinksAreLive, Live
  <2> QED
    BY <2>2, <2>3
<1>14. CommentsFollowItems'
  BY <1>0, <1>1, <1>5 DEF IndInv, CommentsFollowItems, Live
<1> QED
  BY <1>8, <1>9, <1>10, <1>11, <1>12, <1>13, <1>14 DEF IndInv

\* A write to rows that are there keeps their periods and origins.
LEMMA UpdatesPreserve ==
  ASSUME IndInv, UNCHANGED <<plans, event>>, calls' \in 0..MaxCalls,
         item' \in [Items -> Item],
         \A i \in Items : item[i].state = "absent" => item'[i] = item[i],
         \A i \in Items : item[i].state # "absent" =>
           /\ item'[i].state # "absent" /\ item'[i].period = item[i].period
           /\ item'[i].from = item[i].from
           /\ item'[i].parent # 0 =>
                \/ item'[i].parent = item[i].parent
                \/ /\ item[i].period.scope = "week"
                   /\ item[item'[i].parent].period = Month(MonthOf[item[i].period.n]),
         LinksAreLive', CommentsFollowItems',
         comment' \in [Comments -> Comment], cites' \in [Events -> SUBSET Items],
         NEW r \in Requests, request' = [request EXCEPT ![r] = Idle]
  PROVE  IndInv'
<1>1. Frame
  BY DEF Frame
<1>2. Fits(Idle)'
  BY DEF Fits, Idle
<1>3. request' \in [Requests -> Request] /\ \A q \in Requests : Fits(request[q])'
  <2> PICK held \in Request : held = Idle
    BY IdleFits
  <2>1. Fits(held)'
    BY DEF Fits, Idle
  <2> QED
    BY <1>1, <2>1, RequestsFit
<1>4. \A i \in Items : item'[i].state # "absent" => item[i].state # "absent"
  OBVIOUS
<1>5. TypeOK'
  BY <1>3, <1>4 DEF IndInv, TypeOK
<1>6. AbsentItemsAreBlank'
  BY DEF IndInv, AbsentItemsAreBlank
<1>7. ParentsAreOfTheMonth'
  <2> SUFFICES ASSUME NEW i \in Items, item'[i].state # "absent", item'[i].parent # 0
               PROVE  /\ item'[i].period.scope = "week"
                      /\ item'[item'[i].parent].period = Month(MonthOf[item'[i].period.n])
    BY DEF ParentsAreOfTheMonth
  <2>1. item'[i].parent \in Items /\ item[i].state # "absent"
    BY <1>4 DEF Item
  <2>2. item[i].period.scope = "week" /\ item[item'[i].parent].period = Month(MonthOf[item[i].period.n])
    BY <2>1 DEF IndInv, ParentsAreOfTheMonth
  <2>3. item[item'[i].parent].state # "absent"
    BY <2>1, <2>2, MonthItemsExist
  <2> QED
    BY <2>1, <2>2, <2>3
<1>8. DeferralsGoForward' /\ OriginsExist'
  <2> SUFFICES ASSUME NEW i \in Items, item'[i].state # "absent", item'[i].from # 0
               PROVE  /\ item'[item'[i].from].period = [item'[i].period EXCEPT !.n = @ - 1]
                      /\ item'[item'[i].from].state # "absent"
    BY DEF DeferralsGoForward, OriginsExist
  <2>1. item[i].state # "absent" /\ item'[i].from = item[i].from /\ item[i].from \in Items
    BY <1>4 DEF Item
  <2>2. /\ item[item[i].from].state # "absent"
        /\ item[item[i].from].period = [item[i].period EXCEPT !.n = @ - 1]
    BY <2>1 DEF IndInv, DeferralsGoForward, OriginsExist
  <2>3. /\ item'[item[i].from].state # "absent"
        /\ item'[item[i].from].period = item[item[i].from].period
        /\ item'[i].period = item[i].period
    BY <2>1, <2>2
  <2> QED
    BY <2>1, <2>2, <2>3
<1> QED
  BY <1>3, <1>5, <1>6, <1>7, <1>8 DEF IndInv

LEMMA MarkPreserves ==
  ASSUME IndInv, NEW r \in Requests, MarkDeferred(r), calls' \in 0..MaxCalls
  PROVE  IndInv'
<1> DEFINE i == request[r].from
<1>0. request' = [request EXCEPT ![r] = Idle] /\ UNCHANGED <<plans, comment, event, cites>>
  BY DEF MarkDeferred
<1>1. CASE ~Live(i)
  BY <1>0, <1>1, IdleFits, RequestPreserves DEF MarkDeferred
<1>2. CASE Live(i)
  <2>1. i \in Items /\ item' = [item EXCEPT ![i] = [item[i] EXCEPT !.status = "deferred"]]
    BY <1>2 DEF MarkDeferred, UpdatePlanItem, Live
  <2>2. item' \in [Items -> Item]
    BY <2>1 DEF IndInv, TypeOK, Item, Statuses
  <2>3. \A j \in Items : /\ item'[j].state = item[j].state /\ item'[j].period = item[j].period
                         /\ item'[j].parent = item[j].parent /\ item'[j].from = item[j].from
                         /\ item'[j].stale = item[j].stale
    BY <2>1 DEF IndInv, TypeOK, Item
  <2>4. \A j \in Items : item[j].state = "absent" => item'[j] = item[j]
    BY <2>1, <1>2 DEF IndInv, TypeOK, Live
  <2>5. LinksAreLive' /\ CommentsFollowItems'
    BY <1>0, <2>3 DEF IndInv, LinksAreLive, CommentsFollowItems, Live
  <2>6. comment' \in [Comments -> Comment] /\ cites' \in [Events -> SUBSET Items]
    BY <1>0 DEF IndInv, TypeOK
  <2> QED
    BY <1>0, <2>2, <2>3, <2>4, <2>5, <2>6, UpdatesPreserve
<1> QED
  BY <1>1, <1>2

LEMMA UpdatePreserves ==
  ASSUME IndInv, NEW r \in Requests, Update(r), calls' \in 0..MaxCalls
  PROVE  IndInv'
<1> DEFINE held == request[r]
           i == held.item
           p == IF held.parent = -1 THEN 0 ELSE held.parent
           kept == UpdatePlanItem(i, held.status)
           new == IF held.parent = 0 THEN kept ELSE UpdatePlanItemWithParent(i, held.status, p)
<1>0. /\ request' = [request EXCEPT ![r] = Idle] /\ UNCHANGED <<plans, comment, event, cites>>
      /\ held \in Request /\ held.op = "update" /\ Fits(held)
  BY DEF Update, IndInv, TypeOK
<1>1. CASE ~Live(i)
  BY <1>0, <1>1, IdleFits, RequestPreserves DEF Update
<1>2. CASE Live(i)
  <2>1. i \in Items /\ item[i].state = "live" /\ item' = [item EXCEPT ![i] = new]
    BY <1>2 DEF Update, Live
  <2>2. /\ p \in Items \union {0} /\ held.status \in Statuses \union {"keep"}
        /\ held.parent \in Items \union {0, -1}
    BY <1>0 DEF Request
  <2>3. item[i] \in Item
    BY <2>1 DEF IndInv, TypeOK
  <2>4. /\ kept \in Item /\ kept.state = item[i].state /\ kept.period = item[i].period
        /\ kept.parent = item[i].parent /\ kept.from = item[i].from /\ kept.stale = item[i].stale
    BY <2>2, <2>3 DEF UpdatePlanItem, Item
  <2>5. /\ new \in Item /\ new.state = item[i].state /\ new.period = item[i].period
        /\ new.from = item[i].from
        /\ held.parent = 0 => new.parent = item[i].parent /\ new.stale = item[i].stale
        /\ held.parent # 0 => new.parent = p /\ (new.stale <=> p # 0 /\ ~Live(p))
    <3>1. CASE held.parent = 0
      BY <3>1, <2>4
    <3>2. CASE held.parent # 0
      <4>1. new = [kept EXCEPT !.parent = p, !.stale = p # 0 /\ ~Live(p)]
        BY <3>2 DEF UpdatePlanItemWithParent
      <4> HIDE DEF new, kept
      <4> QED
        BY <3>2, <4>1, <2>2, <2>4 DEF Item
    <3> QED
      BY <3>1, <3>2
  <2> HIDE DEF new
  <2>6. /\ item' \in [Items -> Item] /\ item'[i] = new
        /\ \A j \in Items : j # i => item'[j] = item[j]
        /\ \A j \in Items : item'[j].state = item[j].state
    BY <2>1, <2>5 DEF IndInv, TypeOK
  <2>7. held.parent \in Items => /\ item[i].period.scope = "week"
                                 /\ item[held.parent].period = Month(MonthOf[item[i].period.n])
    BY <1>0 DEF Fits
  <2>8. \A j \in Items : item[j].state # "absent" =>
          /\ item'[j].state # "absent" /\ item'[j].period = item[j].period
          /\ item'[j].from = item[j].from
          /\ item'[j].parent # 0 =>
               \/ item'[j].parent = item[j].parent
               \/ /\ item[j].period.scope = "week"
                  /\ item[item'[j].parent].period = Month(MonthOf[item[j].period.n])
    BY <2>2, <2>5, <2>6, <2>7
  <2>9. LinksAreLive'
    <3> SUFFICES ASSUME NEW j \in Items, item'[j].state = "live", item'[j].parent # 0, ~item'[j].stale
                 PROVE  item'[j].parent \in Items /\ item'[item'[j].parent].state = "live"
      BY DEF LinksAreLive, Live
    <3>1. CASE j = i /\ held.parent # 0
      BY <3>1, <2>2, <2>5, <2>6 DEF Live
    <3>2. CASE j # i \/ held.parent = 0
      BY <3>2, <2>1, <2>5, <2>6 DEF IndInv, LinksAreLive, Live
    <3> QED
      BY <3>1, <3>2
  <2>10. CommentsFollowItems' /\ comment' \in [Comments -> Comment] /\ cites' \in [Events -> SUBSET Items]
    BY <1>0, <2>6 DEF IndInv, TypeOK, CommentsFollowItems, Live
  <2>11. \A j \in Items : item[j].state = "absent" => item'[j] = item[j]
    BY <2>1, <2>6
  <2> QED
    BY <1>0, <2>6, <2>8, <2>9, <2>10, <2>11, UpdatesPreserve
<1> QED
  BY <1>1, <1>2

LEMMA DeletePreserves ==
  ASSUME IndInv, NEW r \in Requests, DeletePlanItem(r), calls' \in 0..MaxCalls
  PROVE  IndInv'
<1> DEFINE i == request[r].item
<1>0. /\ request' = [request EXCEPT ![r] = Idle] /\ UNCHANGED <<plans, event>>
      /\ i \in Items /\ item[i].state # "absent"
  BY DEF DeletePlanItem, IndInv, Fits
<1>1. item' = [j \in Items |->
          IF j = i THEN [item[j] EXCEPT !.state = "deleted"]
          ELSE IF Live(j) /\ item[j].parent = i THEN [item[j] EXCEPT !.parent = 0, !.stale = FALSE]
          ELSE item[j]]
  BY DEF DeletePlanItem, ClearPlanItemChildParents
<1>2. item' \in [Items -> Item]
  <2> SUFFICES ASSUME NEW j \in Items PROVE item'[j] \in Item
    BY <1>1
  <2>1. item[j] \in Item
    BY DEF IndInv, TypeOK
  <2>2. /\ [item[j] EXCEPT !.state = "deleted"] \in Item
        /\ [item[j] EXCEPT !.parent = 0, !.stale = FALSE] \in Item
    BY <2>1 DEF Item
  <2> QED
    BY <1>1, <2>1, <2>2
<1>3. \A j \in Items : /\ item'[j].period = item[j].period /\ item'[j].from = item[j].from
                       /\ item'[j].state = IF j = i THEN "deleted" ELSE item[j].state
  BY <1>1 DEF IndInv, TypeOK, Item
<1>4. \A j \in Items : \/ item'[j].parent = item[j].parent /\ item'[j].stale = item[j].stale
                       \/ item'[j].parent = 0
  BY ZenonT(40), <1>1 DEF IndInv, TypeOK, Item
<1>5. \A j \in Items : item[j].state = "absent" => item'[j] = item[j]
  BY <1>0, <1>1 DEF Live
<1>6. LinksAreLive'
  <2> SUFFICES ASSUME NEW j \in Items, item'[j].state = "live", item'[j].parent # 0, ~item'[j].stale
               PROVE  item'[j].parent \in Items /\ item'[item'[j].parent].state = "live"
    BY DEF LinksAreLive, Live
  <2>1. j # i /\ item[j].state = "live" /\ item'[j].parent = item[j].parent /\ item'[j].stale = item[j].stale
    BY <1>3, <1>4
  <2>2. item[j].parent # i
    BY <1>0, <1>1, <2>1 DEF Live, IndInv, TypeOK, Item
  <2> QED
    BY <2>1, <2>2, <1>3 DEF IndInv, LinksAreLive, Live
<1>7. /\ comment' \in [Comments -> Comment]
      /\ \A c \in Comments : /\ comment'[c].item = comment[c].item /\ comment'[c].orphan = comment[c].orphan
                             /\ comment'[c].state = IF comment[c].item = i THEN "deleted" ELSE comment[c].state
  <2>1. comment' = [c \in Comments |-> IF comment[c].item = i
                                         THEN [comment[c] EXCEPT !.state = "deleted", !.refs = {}]
                                         ELSE comment[c]]
    BY DEF DeletePlanItem, DeleteCommentsByPlanItem
  <2>2. \A c \in Comments : comment[c] \in Comment
    BY DEF IndInv, TypeOK
  <2>3. \A x \in Comment :
          LET y == [x EXCEPT !.state = "deleted", !.refs = {}]
          IN y \in Comment /\ y.state = "deleted" /\ y.item = x.item /\ y.orphan = x.orphan
    BY DEF Comment
  <2>4. ASSUME NEW c \in Comments
        PROVE  /\ comment'[c] \in Comment
               /\ comment'[c].item = comment[c].item
               /\ comment'[c].orphan = comment[c].orphan
               /\ comment'[c].state = IF comment[c].item = i THEN "deleted" ELSE comment[c].state
    <3>1. CASE comment[c].item = i
      <4>1. comment'[c] = [comment[c] EXCEPT !.state = "deleted", !.refs = {}]
        BY <2>1, <3>1
      <4> QED
        BY <2>2, <2>3, <3>1, <4>1
    <3>2. CASE comment[c].item # i
      <4>1. comment'[c] = comment[c]
        BY <2>1, <3>2
      <4> QED
        BY <2>2, <3>2, <4>1
    <3> QED
      BY <3>1, <3>2
  <2>5. comment' = [c \in Comments |-> comment'[c]]
    BY <2>1
  <2>6. comment' \in [Comments -> Comment]
    BY <2>4, <2>5
  <2> QED
    BY <2>4, <2>6
<1>8. CommentsFollowItems'
  BY <1>3, <1>7 DEF IndInv, CommentsFollowItems, Live
<1>9. cites' \in [Events -> SUBSET Items]
  BY DEF DeletePlanItem, IndInv, TypeOK
<1> QED
  BY <1>0, <1>2, <1>3, <1>4, <1>5, <1>6, <1>7, <1>8, <1>9, UpdatesPreserve

(***************************************************************************)
(* The first statement of each handler, which reads and writes nothing.    *)
(***************************************************************************)
LEMMA CreatePlanItemPreserves ==
  ASSUME IndInv, NEW r \in Requests, NEW p \in Periods, NEW q \in Items \union {0},
         CreatePlanItem(r, p, q), calls' \in 0..MaxCalls
  PROVE  IndInv'
<1> DEFINE given == [Idle EXCEPT !.period = p, !.parent = q]
<1>1. PICK held \in Request : held = [given EXCEPT !.op = IF p \in plans THEN "link" ELSE "newPlan"]
  BY IdleFits DEF Request
<1>2. Fits(held)
  <2>1. /\ held.op = IF p \in plans THEN "link" ELSE "newPlan"
        /\ held.period = p /\ held.parent = q /\ held.from = 0
    BY <1>1 DEF Idle
  <2>2. q # -1
    BY PlansAssumption DEF Items
  <2> QED
    BY <2>1, <2>2 DEF Fits
<1>3. request' = [request EXCEPT ![r] = held] /\ UNCHANGED rows
  BY <1>1 DEF CreatePlanItem, EnsurePeriodPlan, Idle
<1> QED
  BY <1>2, <1>3, RequestPreserves

LEMMA DeferPlanItemPreserves ==
  ASSUME IndInv, NEW r \in Requests, NEW i \in Items, DeferPlanItem(r, i), calls' \in 0..MaxCalls
  PROVE  IndInv'
<1> DEFINE p == NextPeriod(item[i].period)
           given == [Idle EXCEPT !.period = p, !.parent = item[i].parent, !.from = i]
<1>1. /\ item[i].state = "live" /\ p \in Periods /\ item[i] \in Item
      /\ item[i].period \in plans /\ item[i].period \in Periods
  BY DEF DeferPlanItem, Live, IndInv, TypeOK
<1>2. PICK held \in Request : held = [given EXCEPT !.op = IF p \in plans THEN "link" ELSE "newPlan"]
  BY ZenonT(40), <1>1, IdleFits DEF Request, Item
<1>3. item[i].period = [p EXCEPT !.n = @ - 1]
  <2>1. PICK s \in {"week", "month"}, k \in Nat : item[i].period = [scope |-> s, n |-> k]
    BY <1>1, PeriodFacts
  <2>2. p = [scope |-> s, n |-> k + 1]
    BY <2>1 DEF NextPeriod
  <2> QED
    BY <2>1, <2>2
<1> HIDE DEF p
<1>4. Fits(held)
  <2>1. /\ held.op = IF p \in plans THEN "link" ELSE "newPlan"
        /\ held.period = p /\ held.parent = item[i].parent /\ held.from = i
    BY <1>2 DEF Idle
  <2>2. held.parent # -1
    BY <1>1, <2>1, PlansAssumption DEF Item, Items
  <2> QED
    BY <1>1, <1>3, <2>1, <2>2 DEF Fits
<1>5. request' = [request EXCEPT ![r] = held] /\ UNCHANGED rows
  BY <1>2 DEF DeferPlanItem, EnsurePeriodPlan, Idle, p
<1> QED
  BY <1>4, <1>5, RequestPreserves

LEMMA UpdateBeginsPreserves ==
  ASSUME IndInv, NEW r \in Requests, NEW i \in Items, NEW s \in Statuses \union {"keep"},
         NEW q \in Items \union {0, -1}, UpdateBegins(r, i, s, q), calls' \in 0..MaxCalls
  PROVE  IndInv'
<1>1. PICK held \in Request :
        held = [Idle EXCEPT !.op = IF q \in Items THEN "relink" ELSE "update",
                            !.item = i, !.status = s, !.parent = q]
  BY IdleFits DEF Request
<1>2. Fits(held)
  BY <1>1 DEF Fits, Idle, UpdateBegins, Live
<1>3. request' = [request EXCEPT ![r] = held] /\ UNCHANGED rows
  BY <1>1 DEF UpdateBegins
<1> QED
  BY <1>2, <1>3, RequestPreserves

LEMMA RelinkPreserves ==
  ASSUME IndInv, NEW r \in Requests, Relink(r), calls' \in 0..MaxCalls
  PROVE  IndInv'
<1> DEFINE held == request[r]
<1>0. held \in Request /\ held.op = "relink" /\ Fits(held) /\ UNCHANGED rows
  BY DEF Relink, IndInv, TypeOK
<1>1. CASE ValidateParentLink(item[held.item].period, held.parent)
  <2>1. PICK linked \in Request : linked = [held EXCEPT !.op = "update"]
    BY <1>0 DEF Request
  <2>2. Fits(linked)
    BY <1>0, <1>1, <2>1 DEF Fits, ValidateParentLink, Request
  <2>3. request' = [request EXCEPT ![r] = linked]
    BY <1>1, <2>1 DEF Relink
  <2> QED
    BY <1>0, <2>2, <2>3, RequestPreserves
<1>2. CASE ~ValidateParentLink(item[held.item].period, held.parent)
  BY <1>0, <1>2, IdleFits, RequestPreserves DEF Relink
<1> QED
  BY <1>1, <1>2

LEMMA DeleteBeginsPreserves ==
  ASSUME IndInv, NEW r \in Requests, NEW i \in Items, DeletePlanItemBegins(r, i), calls' \in 0..MaxCalls
  PROVE  IndInv'
<1>1. PICK held \in Request : held = [Idle EXCEPT !.op = "delete", !.item = i]
  BY IdleFits DEF Request
<1>2. Fits(held)
  BY <1>1 DEF Fits, Idle, DeletePlanItemBegins, Live
<1> QED
  BY <1>1, <1>2, RequestPreserves DEF DeletePlanItemBegins

LEMMA CommentBeginsPreserves ==
  ASSUME IndInv, NEW r \in Requests, NEW i \in Items, NEW E \in SUBSET Events,
         CreateCommentBegins(r, i, E), calls' \in 0..MaxCalls
  PROVE  IndInv'
<1>1. PICK held \in Request : held = [Idle EXCEPT !.op = "comment", !.item = i, !.refs = E]
  BY IdleFits DEF Request
<1>2. Fits(held)
  BY <1>1 DEF Fits, Idle, CreateCommentBegins, Live
<1> QED
  BY <1>1, <1>2, RequestPreserves DEF CreateCommentBegins

LEMMA AbandonPreserves ==
  ASSUME IndInv, NEW r \in Requests, Abandon(r), calls' \in 0..MaxCalls
  PROVE  IndInv'
BY IdleFits, RequestPreserves DEF Abandon

(***************************************************************************)
(* Comments and events.                                                    *)
(***************************************************************************)
\* What requests hold is not touched by a write to comments or events alone.
LEMMA RequestsStay ==
  ASSUME IndInv, UNCHANGED <<plans, item, request>>
  PROVE  request' \in [Requests -> Request] /\ \A q \in Requests : Fits(request[q])'
<1>1. request' \in [Requests -> Request]
  BY DEF IndInv, TypeOK
<1>2. ASSUME NEW q \in Requests PROVE Fits(request[q])'
  BY DEF IndInv, Fits
<1> QED
  BY <1>1, <1>2

LEMMA CreateCommentPreserves ==
  ASSUME IndInv, NEW r \in Requests, CreateComment(r), calls' \in 0..MaxCalls
  PROVE  IndInv'
<1> DEFINE held == request[r]
           new == [state |-> "live", item |-> held.item, refs |-> held.refs,
                   orphan |-> ~Live(held.item)]
<1>0. /\ held \in Request /\ request' = [request EXCEPT ![r] = Idle]
      /\ UNCHANGED <<plans, item, event, cites>>
  BY DEF CreateComment, IndInv, TypeOK
<1>1. PICK c \in Comments : comment' = [comment EXCEPT ![c] = new]
  BY DEF CreateComment, Unused
<1>2. new \in Comment
  BY <1>0 DEF Request, Comment
<1>3. new.state = "live" /\ new.item = held.item /\ new.orphan = ~Live(held.item)
  OBVIOUS
<1> HIDE DEF new
<1>4. /\ comment' \in [Comments -> Comment] /\ comment'[c] = new
      /\ \A d \in Comments : d # c => comment'[d] = comment[d]
  BY <1>1, <1>2 DEF IndInv, TypeOK
<1>5. CommentsFollowItems'
  BY <1>0, <1>3, <1>4 DEF IndInv, CommentsFollowItems, Live
<1>6. request' \in [Requests -> Request] /\ \A q \in Requests : Fits(request[q])'
  <2>1. PICK next \in Request : next = Idle
    BY IdleFits
  <2>2. Fits(next)'
    BY <2>1 DEF Fits, Idle
  <2>3. Frame
    BY <1>0 DEF Frame
  <2> QED
    BY <1>0, <2>1, <2>2, <2>3, RequestsFit
<1>7. event' \in [Events -> {"absent", "live", "deleted"}] /\ cites' \in [Events -> SUBSET Items]
  BY <1>0 DEF IndInv, TypeOK
<1> QED
  BY <1>0, <1>4, <1>5, <1>6, <1>7, CommentsPreserve

LEMMA DeleteCommentPreserves ==
  ASSUME IndInv, NEW c \in Comments, DeleteComment(c), calls' \in 0..MaxCalls
  PROVE  IndInv'
<1>0. UNCHANGED <<plans, item, event, cites, request>>
  BY DEF DeleteComment
<1>1. comment' = [comment EXCEPT ![c] = [comment[c] EXCEPT !.state = "deleted", !.refs = {}]]
  BY DEF DeleteComment, IndInv, TypeOK, Comment
<1>2. [comment[c] EXCEPT !.state = "deleted", !.refs = {}] \in Comment
  BY DEF IndInv, TypeOK, Comment
<1>3. comment' \in [Comments -> Comment]
  BY <1>1, <1>2 DEF IndInv, TypeOK
<1>4. comment'[c].state = "deleted" /\ \A d \in Comments : d # c => comment'[d] = comment[d]
  BY <1>1, <1>2 DEF IndInv, TypeOK, Comment
<1>5. CommentsFollowItems'
  BY <1>0, <1>4 DEF IndInv, CommentsFollowItems, Live
<1>6. event' \in [Events -> {"absent", "live", "deleted"}] /\ cites' \in [Events -> SUBSET Items]
  BY <1>0 DEF IndInv, TypeOK
<1> QED
  BY <1>0, <1>3, <1>5, <1>6, RequestsStay, CommentsPreserve

LEMMA EventPreserves ==
  ASSUME IndInv, NEW e \in Events, NEW I \in SUBSET Items,
         SyncEventPlanReferences(e, I) \/ DeleteEvent(e), calls' \in 0..MaxCalls
  PROVE  IndInv'
<1>0. UNCHANGED <<plans, item, request>>
  BY DEF SyncEventPlanReferences, DeleteEvent
<1>1. event' \in [Events -> {"absent", "live", "deleted"}] /\ cites' \in [Events -> SUBSET Items]
  BY DEF SyncEventPlanReferences, DeleteEvent, DeleteEventPlanReferencesByEventID, IndInv, TypeOK
<1>2. /\ comment' \in [Comments -> Comment]
      /\ \A c \in Comments : /\ comment'[c].state = comment[c].state
                             /\ comment'[c].item = comment[c].item
                             /\ comment'[c].orphan = comment[c].orphan
  <2>1. CASE SyncEventPlanReferences(e, I)
    BY <2>1 DEF SyncEventPlanReferences, IndInv, TypeOK
  <2>2. CASE DeleteEvent(e)
    <3>1. comment' = [c \in Comments |-> [comment[c] EXCEPT !.refs = comment[c].refs \ {e}]]
      BY <2>2 DEF DeleteEvent
    <3>2. ASSUME NEW c \in Comments
          PROVE  /\ comment'[c] \in Comment
                 /\ comment'[c].state = comment[c].state
                 /\ comment'[c].item = comment[c].item
                 /\ comment'[c].orphan = comment[c].orphan
      <4>1. comment[c] \in Comment
        BY DEF IndInv, TypeOK
      <4>2. comment'[c] = [comment[c] EXCEPT !.refs = comment[c].refs \ {e}]
        BY <3>1
      <4> QED
        BY <4>1, <4>2 DEF Comment
    <3> QED
      BY <3>1, <3>2
  <2> QED
    BY <2>1, <2>2
<1>3. CommentsFollowItems'
  BY <1>0, <1>2 DEF IndInv, CommentsFollowItems, Live
<1> QED
  BY <1>0, <1>1, <1>2, <1>3, RequestsStay, CommentsPreserve

LEMMA NextInv == IndInv /\ [Next]_vars => IndInv'
<1> SUFFICES ASSUME IndInv, [Next]_vars PROVE IndInv'
  OBVIOUS
<1>1. CASE UNCHANGED vars
  <2>1. CommentsFollowItems'
    BY <1>1 DEF vars, IndInv, CommentsFollowItems, Live
  <2> QED
    BY <1>1, <2>1, RequestsStay, CommentsPreserve DEF vars, IndInv, TypeOK
<1>2. CASE calls < MaxCalls /\ calls' = calls + 1 /\ Calls
  <2>0. calls' \in 0..MaxCalls
    BY <1>2, PlansAssumption DEF IndInv, TypeOK
  <2>1. ASSUME NEW r \in Requests, NEW i \in Items, DeferPlanItem(r, i) PROVE IndInv'
    BY <2>0, <2>1, DeferPlanItemPreserves
  <2>2. ASSUME NEW r \in Requests, NEW i \in Items, NEW s \in Statuses, UpdateBegins(r, i, s, 0)
        PROVE  IndInv'
    BY <2>0, <2>2, UpdateBeginsPreserves
  <2>3. ASSUME NEW r \in Requests, NEW i \in Items, NEW q \in Known \union {Clear},
               UpdateBegins(r, i, "keep", q)
        PROVE  IndInv'
    BY <2>0, <2>3, UpdateBeginsPreserves DEF Known
  <2>4. ASSUME NEW r \in Requests, NEW i \in Items, DeletePlanItemBegins(r, i) PROVE IndInv'
    BY <2>0, <2>4, DeleteBeginsPreserves
  <2>5. ASSUME NEW r \in Requests, NEW i \in Items, NEW E \in SUBSET Events,
               CreateCommentBegins(r, i, E)
        PROVE  IndInv'
    BY <2>0, <2>5, CommentBeginsPreserves
  <2>6. ASSUME NEW r \in Requests, NEW p \in Periods, NEW q \in Known \union {None},
               CreatePlanItem(r, p, q)
        PROVE  IndInv'
    BY <2>0, <2>6, CreatePlanItemPreserves DEF Known
  <2>7. ASSUME NEW c \in Comments, DeleteComment(c) PROVE IndInv'
    BY <2>0, <2>7, DeleteCommentPreserves
  <2>8. ASSUME NEW e \in Events, NEW I \in SUBSET Known, SyncEventPlanReferences(e, I) PROVE IndInv'
    <3>1. I \in SUBSET Items
      BY DEF Known
    <3> QED
      BY <2>0, <2>8, <3>1, EventPreserves
  <2>9. ASSUME NEW e \in Events, DeleteEvent(e) PROVE IndInv'
    <3>1. {} \in SUBSET Items
      OBVIOUS
    <3> QED
      BY <2>0, <2>9, <3>1, EventPreserves
  <2> QED
    BY <1>2, <2>1, <2>2, <2>3, <2>4, <2>5, <2>6, <2>7, <2>8, <2>9 DEF Calls
<1>3. CASE UNCHANGED calls /\ \E r \in Requests : Statements(r)
  <2>0. calls' \in 0..MaxCalls
    BY <1>3 DEF IndInv, TypeOK
  <2>1. PICK r \in Requests : Statements(r)
    BY <1>3
  <2> QED
    BY <2>0, <2>1, NewPlanPreserves, LinkPreserves, InsertPreserves, MarkPreserves, RelinkPreserves,
       UpdatePreserves, DeletePreserves, CreateCommentPreserves, AbandonPreserves DEF Statements
<1> QED
  BY <1>1, <1>2, <1>3 DEF Next

\* The invariant of the plans holds in every reachable state.
THEOREM Invariance == Spec => []IndInv
<1>1. Init => IndInv
  BY InitInv
<1>2. IndInv /\ [Next]_vars => IndInv'
  BY NextInv
<1> QED
  BY <1>1, <1>2, PTL DEF Spec

\* The tables are of their types, and an item's plan has its row.
THEOREM TypeOKHolds == Spec => []TypeOK
<1>1. IndInv => TypeOK
  BY DEF IndInv
<1> QED
  BY <1>1, Invariance, PTL

\* validateParentLink is run before the item is inserted or rewritten, in
\* another statement; the link is right all the same, since the period of an
\* item never changes.
THEOREM ParentsHold == Spec => []ParentsAreOfTheMonth
<1>1. IndInv => ParentsAreOfTheMonth
  BY DEF IndInv
<1> QED
  BY <1>1, Invariance, PTL

\* Deferrals go one period forward, so a chain ends.
THEOREM DeferralsHold == Spec => []DeferralsGoForward
<1>1. IndInv => DeferralsGoForward
  BY DEF IndInv
<1> QED
  BY <1>1, Invariance, PTL

LEMMA ReviewedOnce == IndInv => WeekItemsAreReviewed
<1> SUFFICES ASSUME IndInv, NEW i \in Items, Live(i), item[i].period.scope = "week", ~item[i].stale
    PROVE  LET m == MonthOf[item[i].period.n]
               shown == {j \in Items : Live(j) /\ item[j].period = Month(m) /\ i \in ChildRows(j)}
           IN Cardinality(shown) + (IF i \in BuildAttachCandidates(m) THEN 1 ELSE 0) = 1
  BY DEF WeekItemsAreReviewed
<1> DEFINE m == MonthOf[item[i].period.n]
           shown == {j \in Items : Live(j) /\ item[j].period = Month(m) /\ i \in ChildRows(j)}
<1>1. /\ item[i].period \in plans /\ item[i].period \in Periods
      /\ item[i].parent \in Items \union {0} /\ item[i].state = "live"
  BY DEF Live, IndInv, TypeOK, Item
<1>2. i \in ListPlanItemsByPlanIDs(ListWeekPlansStartingInRange(m))
  BY <1>1 DEF ListPlanItemsByPlanIDs, ListWeekPlansStartingInRange
<1>3. i \in BuildAttachCandidates(m) <=> item[i].parent = 0
  BY <1>2 DEF BuildAttachCandidates
<1>4. \A j \in Items : item[j].period = Month(m) => (i \in ChildRows(j) <=> item[i].parent = j)
  <2> SUFFICES ASSUME NEW j \in Items, item[j].period = Month(m)
               PROVE  i \in ChildRows(j) <=> item[i].parent = j
    OBVIOUS
  <2>1. item[j].period.n = m
    BY DEF Month
  <2> QED
    BY <1>2, <2>1 DEF ChildRows
<1>5. CASE item[i].parent = 0
  <2>1. shown = {}
    BY <1>4, <1>5, PlansAssumption DEF Items
  <2>2. Cardinality(shown) = 0
    BY <2>1, FS_EmptySet
  <2> QED
    BY <1>3, <1>5, <2>2
<1>6. CASE item[i].parent # 0
  <2>1. Live(item[i].parent) /\ item[item[i].parent].period = Month(m) /\ item[i].parent \in Items
    BY <1>1, <1>6 DEF IndInv, LinksAreLive, ParentsAreOfTheMonth
  <2>2. shown = {item[i].parent}
    BY <1>4, <2>1
  <2>3. Cardinality(shown) = 1
    BY <2>2, FS_Singleton
  <2> QED
    BY <1>3, <1>6, <2>3
<1> QED
  BY <1>5, <1>6

\* buildMonthReviewItem and buildAttachCandidates share the week items of a
\* month: none is shown twice and none is lost, unless its parent was deleted
\* between the check and the write.
THEOREM WeekItemsReviewed == Spec => []WeekItemsAreReviewed
<1> QED
  BY ReviewedOnce, Invariance, PTL

\* CountEventComments does not look up the items, the page of the event does.
THEOREM CitedBy == Spec => []CitedByMatchesComments
<1>1. IndInv => CitedByMatchesComments
  <2> SUFFICES ASSUME IndInv, NEW e \in Events, \A c \in Comments : ~comment[c].orphan
               PROVE  CountEventComments(e) = Cardinality(ListCommentReferrers(e))
    BY DEF CitedByMatchesComments
  <2>1. {c \in Comments : comment[c].state = "live" /\ e \in comment[c].refs} = ListCommentReferrers(e)
    BY DEF ListCommentReferrers, ListPlanItemComments, IndInv, CommentsFollowItems, Live
  <2> QED
    BY <2>1 DEF CountEventComments
<1> QED
  BY <1>1, Invariance, PTL

(***************************************************************************)
(* Deferral chains.  FulfillmentChain is a recursive function over links   *)
(* between rows: it exists because what is reached from a row satisfies    *)
(* its equation, and it is that because the links go back in time.         *)
(***************************************************************************)
\* A set of naturals that is not empty has a least element; what is said of
\* every element is proved by looking at the least that it fails for.
LEMMA Least ==
  ASSUME NEW S \in SUBSET Nat, S # {}
  PROVE  \E n \in S : \A m \in S : n <= m
<1>1. PICK n \in S : \A m \in S : ~(<<m, n>> \in OpToRel(<, Nat))
  BY NatLessThanWellFounded, WFMin
<1>2. \A m \in S : ~(m < n)
  BY <1>1 DEF OpToRel
<1> QED
  BY <1>2

\* What can be reached from live items along the origins that are live.
Reached == [j \in Items \union {None} |-> IF Live(j) THEN Origins({j}) ELSE {}]

\* A live item reaches itself and what its origin reaches.
LEMMA ReachedIsClosed ==
  ASSUME IndInv, NEW j \in Items, Live(j)
  PROVE  /\ item[j].from \in Items \union {0}
         /\ j \in Origins({j})
         /\ Origins({j}) = {j} \union (IF Live(item[j].from) THEN Origins({item[j].from}) ELSE {})
<1> DEFINE f == item[j].from
           R == {j} \union (IF Live(f) THEN Origins({f}) ELSE {})
<1>1. f \in Items \union {0} /\ ~Live(0) /\ 0 \notin Items
  BY PlansAssumption DEF IndInv, TypeOK, Item, Live, Items
<1>2. j \in Origins({j})
  BY DEF Origins
<1>3. Origins({j}) \subseteq R
  <2>1. R \subseteq Items /\ \A k \in R : Live(k)
    BY DEF Origins
  <2>2. ClosedUpward(R)
    <3> SUFFICES ASSUME NEW k \in R, item[k].from # 0, Live(item[k].from)
                 PROVE  item[k].from \in R
      BY DEF ClosedUpward
    <3>1. CASE k = j
      BY <3>1, <1>1 DEF Origins
    <3>2. CASE k # j
      <4>1. k \in Origins({f}) /\ Live(f)
        BY <3>2
      <4>2. item[k].from \in Origins({f})
        BY <4>1 DEF Origins, ClosedUpward, Live
      <4> QED
        BY <4>1, <4>2
    <3> QED
      BY <3>1, <3>2
  <2>3. R \in SUBSET Items /\ {j} \subseteq R
    BY <2>1
  <2> QED
    BY <2>2, <2>3 DEF Origins
<1>4. Live(f) => Origins({f}) \subseteq Origins({j})
  <2> SUFFICES ASSUME Live(f), NEW k \in Origins({f}),
                      NEW S \in SUBSET Items, {j} \subseteq S, ClosedUpward(S)
               PROVE  k \in S
    BY DEF Origins
  <2>1. f \in S
    BY <1>1 DEF ClosedUpward
  <2> QED
    BY <2>1 DEF Origins
<1> QED
  BY <1>1, <1>2, <1>3, <1>4

\* The function the chains are computed by exists.
LEMMA ChainEquation ==
  ASSUME IndInv, NEW j \in Items \union {0}
  PROVE  FulfillmentChain(j) =
           IF Live(j) THEN {j} \union FulfillmentChain(item[j].from) ELSE {}
<1> DEFINE D == Items \union {0}
           Chain(c) == c = [k \in D |-> IF ~Live(k) THEN {} ELSE {k} \union c[item[k].from]]
<1>1. Chain(Reached)
  <2>1. ASSUME NEW k \in D
        PROVE  Reached[k] = IF ~Live(k) THEN {} ELSE {k} \union Reached[item[k].from]
    <3>1. CASE Live(k)
      BY <3>1, ReachedIsClosed DEF Reached, Live
    <3>2. CASE ~Live(k)
      BY <3>2 DEF Reached
    <3> QED
      BY <3>1, <3>2
  <2>2. Reached = [k \in D |-> Reached[k]]
    BY DEF Reached
  <2> QED
    BY <2>1, <2>2
<1> DEFINE chain == CHOOSE c : Chain(c)
<1>2. Chain(chain)
  BY <1>1, Zenon
<1>3. \A k : FulfillmentChain(k) = chain[k]
  BY DEF FulfillmentChain
<1> HIDE DEF chain
<1>4. chain[j] = IF ~Live(j) THEN {} ELSE {j} \union chain[item[j].from]
  BY <1>2
<1> QED
  BY <1>3, <1>4

\* The chain of a live item is what can be reached from it: an item it was
\* deferred from is of the period before its own, so the chain has an end.
LEMMA ChainIsOrigins ==
  ASSUME IndInv, NEW i \in Items, Live(i)
  PROVE  FulfillmentChain(i) = Origins({i})
<1> DEFINE Wrong == {j \in Items : Live(j) /\ FulfillmentChain(j) # Origins({j})}
           S == {item[j].period.n : j \in Wrong}
<1>1. \A j \in Items : Live(j) => item[j].period \in Periods /\ item[j].period.n \in Nat
  BY PeriodFacts DEF Live, IndInv, TypeOK
<1> SUFFICES ASSUME Wrong # {} PROVE FALSE
  OBVIOUS
<1>2. S \in SUBSET Nat /\ S # {}
  BY <1>1
<1>3. PICK n \in S : \A m \in S : n <= m
  <2> HIDE DEF S
  <2> QED
    BY <1>2, Least
<1>4. PICK j \in Wrong : \A k \in Wrong : item[j].period.n <= item[k].period.n
  BY <1>3
<1> DEFINE f == item[j].from
<1>5. ~Live(0)
  BY PlansAssumption DEF Live, Items
<1>6. CASE ~Live(f)
  <2>1. FulfillmentChain(f) = {}
    BY <1>6, ReachedIsClosed, ChainEquation
  <2> QED
    BY <1>6, <2>1, ReachedIsClosed, ChainEquation
<1>7. CASE Live(f)
  <2>1. f \in Items /\ f # 0
    BY <1>5, <1>7 DEF Live
  <2>2. item[f].period = [item[j].period EXCEPT !.n = @ - 1]
    BY <2>1 DEF IndInv, DeferralsGoForward, Live
  <2>3. item[f].period.n = item[j].period.n - 1
    BY <1>1, <2>2, PeriodFacts
  <2>4. f \notin Wrong
    BY <1>1, <1>4, <1>7, <2>1, <2>3
  <2>5. FulfillmentChain(f) = Origins({f})
    BY <1>7, <2>1, <2>4
  <2> QED
    BY <1>7, <2>1, <2>5, ReachedIsClosed, ChainEquation
<1> QED
  BY <1>6, <1>7

\* What several items reach is what each of them reaches.
LEMMA ChainsAreOrigins ==
  ASSUME IndInv, NEW I \in SUBSET Items, \A j \in I : Live(j)
  PROVE  DistinctItemIDs(I) = Origins(I)
<1> DEFINE U == UNION {Origins({j}) : j \in I}
<1>1. DistinctItemIDs(I) = U
  BY ChainIsOrigins DEF DistinctItemIDs
<1>2. U \subseteq Origins(I)
  BY DEF Origins
<1>3. Origins(I) \subseteq U
  <2>1. U \in SUBSET Items
    BY DEF Origins
  <2>2. I \subseteq U
    BY ReachedIsClosed
  <2>3. ClosedUpward(U)
    <3> SUFFICES ASSUME NEW j \in I, NEW k \in Origins({j}), Live(item[k].from)
                 PROVE  item[k].from \in Origins({j})
      BY DEF ClosedUpward
    <3>1. item[k].from \in Items /\ item[k].from # 0
      BY PlansAssumption DEF Live, Items
    <3> QED
      BY <3>1 DEF Origins, ClosedUpward
  <2> QED
    BY <2>1, <2>2, <2>3 DEF Origins
<1> QED
  BY <1>1, <1>2, <1>3

\* The items linked to a month's item are week items of that month.
LEMMA ReviewedChildren ==
  ASSUME IndInv, NEW i \in Items, Live(i), item[i].period.scope = "month"
  PROVE  LET groups == InheritedChildGroups(i)
         IN ChildRows(i) \union UNION {groups[a] : a \in DOMAIN groups}
              = {j \in Items : Live(j) /\ item[j].parent \in FulfillmentChain(i)}
<1>1. i \in FulfillmentChain(i) /\ i # 0
  BY ChainEquation, PlansAssumption DEF Items
<1>2. \A j \in Items : Live(j) /\ item[j].parent = i => j \in ChildRows(i)
  <2> SUFFICES ASSUME NEW j \in Items, Live(j), item[j].parent = i PROVE j \in ChildRows(i)
    OBVIOUS
  <2>1. /\ item[j].period.scope = "week" /\ item[j].period \in plans
        /\ item[i].period = Month(MonthOf[item[j].period.n])
    BY <1>1 DEF IndInv, TypeOK, ParentsAreOfTheMonth, Live
  <2>2. MonthOf[item[j].period.n] = item[i].period.n
    BY <2>1 DEF Month
  <2> QED
    BY <2>1, <2>2 DEF ChildRows, ListPlanItemsByPlanIDs, ListWeekPlansStartingInRange
<1>3. ChildRows(i) = {j \in Items : Live(j) /\ item[j].parent = i}
  BY <1>2 DEF ChildRows, ListPlanItemsByPlanIDs
<1>4. UNION {InheritedChildGroups(i)[a] : a \in DOMAIN InheritedChildGroups(i)}
        = {j \in Items : Live(j) /\ item[j].parent \in FulfillmentChain(i) \ {i}}
  BY DEF InheritedChildGroups, ListPlanItemsByParentIDs
<1> QED
  BY <1>1, <1>3, <1>4

\* The review adds what only the others' events cite to what the item's own cite.
LEMMA ReviewCounts ==
  ASSUME IndInv, OnlyLiveEventsCite
  PROVE  ReviewCountsEventsOnce
<1> SUFFICES ASSUME NEW i \in Items, Live(i), item[i].period.scope = "month"
             PROVE  LET own == Origins({i})
                        linked == Origins({j \in Items : Live(j) /\ item[j].parent \in own})
                    IN ComposeMonthReview(i) =
                         Cardinality({e \in Events : event[e] = "live"
                                        /\ cites[e] \intersect (own \union linked) # {}})
  BY DEF ReviewCountsEventsOnce
<1> DEFINE own == Origins({i})
           children == {j \in Items : Live(j) /\ item[j].parent \in own}
           linked == Origins(children)
           direct == ListFulfillmentEventIDs(own)
           indirect == ListFulfillmentEventIDs(linked)
<1>1. FulfillmentChain(i) = own
  BY ChainIsOrigins
<1>2. DistinctItemIDs(children) = linked
  BY ChainsAreOrigins
<1>3. ComposeMonthReview(i) = Cardinality(direct) + Cardinality(indirect \ direct)
  BY <1>1, <1>2, ReviewedChildren DEF ComposeMonthReview, IndirectFulfillmentCount
<1>4. {e \in Events : event[e] = "live" /\ cites[e] \intersect (own \union linked) # {}}
        = direct \union (indirect \ direct)
  BY DEF ListFulfillmentEventIDs, OnlyLiveEventsCite
<1>5. IsFiniteSet(direct) /\ IsFiniteSet(indirect \ direct) /\ IsFiniteSet(direct \intersect (indirect \ direct))
  BY PlansAssumption, FS_Subset DEF ListFulfillmentEventIDs
<1>6. Cardinality(direct \intersect (indirect \ direct)) = 0
  BY FS_EmptySet, <1>5
<1> HIDE DEF direct, indirect
<1>7. Cardinality(direct \union (indirect \ direct))
        = Cardinality(direct) + Cardinality(indirect \ direct)
  <2>1. /\ Cardinality(direct) \in Nat /\ Cardinality(indirect \ direct) \in Nat
    BY <1>5, FS_CardinalityType
  <2>2. Cardinality(direct \union (indirect \ direct))
          = Cardinality(direct) + Cardinality(indirect \ direct)
              - Cardinality(direct \intersect (indirect \ direct))
    BY <1>5, FS_Union, Zenon
  <2> QED
    BY <1>6, <2>1, <2>2
<1> QED
  BY <1>3, <1>4, <1>7

\* Deleting an item or an event deletes the rows that cite the one or of the other.
LEMMA CitesInv == Init => OnlyLiveEventsCite
BY DEF Init, OnlyLiveEventsCite

LEMMA CitesNext == IndInv /\ OnlyLiveEventsCite /\ [Next]_vars => OnlyLiveEventsCite'
<1> SUFFICES ASSUME IndInv, OnlyLiveEventsCite, [Next]_vars,
                    NEW e \in Events, event'[e] # "live"
             PROVE  cites'[e] = {}
  BY DEF OnlyLiveEventsCite
<1>1. ASSUME NEW r \in Requests, DeletePlanItem(r) PROVE cites'[e] = {}
  BY <1>1 DEF DeletePlanItem, OnlyLiveEventsCite
<1>2. ASSUME NEW d \in Events, NEW I, SyncEventPlanReferences(d, I) PROVE cites'[e] = {}
  BY <1>2 DEF SyncEventPlanReferences, OnlyLiveEventsCite, IndInv, TypeOK
<1>3. ASSUME NEW d \in Events, DeleteEvent(d) PROVE cites'[e] = {}
  BY <1>3 DEF DeleteEvent, DeleteEventPlanReferencesByEventID, OnlyLiveEventsCite, IndInv, TypeOK
<1>4. CASE UNCHANGED <<event, cites>>
  BY <1>4 DEF OnlyLiveEventsCite
<1> QED
  BY <1>1, <1>2, <1>3, <1>4
     DEF Next, Calls, Statements, vars, rows, NewPlan, Link, Insert, MarkDeferred, Relink, Update,
         CreateComment, Abandon, CreatePlanItem, DeferPlanItem, UpdateBegins, DeletePlanItemBegins,
         CreateCommentBegins, DeleteComment

\* The lists count what the sections show, as chains hold live items only.
LEMMA BadgesMatch ==
  ASSUME IndInv, OnlyLiveEventsCite
  PROVE  BadgesMatchLists
<1> SUFFICES ASSUME NEW p \in plans, NEW i \in ListPlanItemsByPlanID(p)
             PROVE  /\ FulfillmentCount(i) = Cardinality(Fulfillment(i))
                    /\ Fulfillment(i) = UNION {GetItem(j).referrers : j \in GetItem(i).chain}
                    /\ ChainCommentCount(i) = ListComments(i).count
  BY DEF BadgesMatchLists, ListPlans
<1>1. i \in Items /\ Live(i)
  BY DEF ListPlanItemsByPlanID, ListPlanItemsByPlanIDs
<1>2. \A j \in FulfillmentChain(i) : j \in Items /\ Live(j)
  BY <1>1, ChainIsOrigins DEF Origins
<1>3. ListFulfillmentEventIDs(FulfillmentChain(i)) = ListFulfillingEvents(FulfillmentChain(i))
  BY DEF ListFulfillingEvents, ListFulfillmentEventIDs, OnlyLiveEventsCite
<1>4. Fulfillment(i) = ListFulfillingEvents(FulfillmentChain(i))
  BY <1>1 DEF Fulfillment, FulfillingEvents, GetPlanItem
<1>5. Fulfillment(i) = UNION {GetItem(j).referrers : j \in GetItem(i).chain}
  BY <1>4 DEF GetItem, ListFulfillingEvents, ListFulfillmentEventIDs, ListPlanReferrerEvents
<1>6. {c \in Comments : comment[c].state = "live" /\ comment[c].item \in FulfillmentChain(i)}
        = ListPlanItemComments(FulfillmentChain(i))
  BY <1>2 DEF ListPlanItemComments
<1> QED
  BY <1>1, <1>3, <1>4, <1>5, <1>6
     DEF FulfillmentCount, ChainCommentCount, CountPlanItemCommentsByItemIDs, ListComments,
         ListChainComments, GetPlanItem

\* What cites an item is an event that is there.
THEOREM CitesHold == Spec => []OnlyLiveEventsCite
<1> QED
  BY CitesInv, CitesNext, Invariance, PTL DEF Spec

\* composeMonthReview counts each event that cites a month's item, what it was
\* deferred from, or a week item linked to one of these, once, though it finds
\* them by two queries along two kinds of links.
THEOREM ReviewCountsOnce == Spec => []ReviewCountsEventsOnce
<1> QED
  BY ReviewCounts, Invariance, CitesHold, PTL

\* The badges of a list, computed from ids alone, are the lengths of the lists
\* that the page of the item reads with the rows.
THEOREM BadgesAreTrue == Spec => []BadgesMatchLists
<1> QED
  BY BadgesMatch, Invariance, CitesHold, PTL

\* Everything the run checks as one invariant.
THEOREM WellFormedHolds == Spec => []WellFormed
<1>1. IndInv /\ OnlyLiveEventsCite /\ CitedByMatchesComments => WellFormed
  BY DEF WellFormed
<1> QED
  BY <1>1, Invariance, CitesHold, CitedBy, PTL
=============================================================================
