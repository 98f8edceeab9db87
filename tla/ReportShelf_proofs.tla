------------------------ MODULE ReportShelf_proofs ------------------------
(***************************************************************************)
(* Proofs about ReportShelf, for every number of reports, weeks, lines and *)
(* calls.  IndInv holds initially, and every write of reports and every    *)
(* statement of a reader preserves it: a write changes one report and      *)
(* leaves what was read of it fitting, a reader's statement changes what   *)
(* that reader holds (and, for the turn's list queries, the chain of       *)
(* pages).  What it takes besides is what the sorting of rows, the pages   *)
(* cut from them and the windows around matching lines give.               *)
(***************************************************************************)
EXTENDS ReportShelf, FiniteSetTheorems, WellFoundedInduction, TLAPS

\* A set of naturals that is not empty has a least element; what is said of
\* every element is proved by looking at the least that it fails for.
LEMMA Least ==
  ASSUME NEW S \in SUBSET Nat, S # {}
  PROVE  \E n \in S : \A m \in S : n <= m
<1>1. PICK n \in S : \A m \in S : ~(<<m, n>> \in OpToRel(<, Nat))
  BY NatLessThanWellFounded, WFMin
<1>2. \A m \in S : ~(m < n)
  BY <1>1 DEF OpToRel
<1> QED
  BY <1>2

\* R orders S: two elements are related in one of the two ways.
Orders(R, S) ==
  /\ \A x \in S : <<x, x>> \notin R
  /\ \A x, y \in S : x # y => <<x, y>> \in R \/ <<y, x>> \in R
  /\ \A x, y, z \in S : <<x, y>> \in R /\ <<y, z>> \in R => <<x, z>> \in R

\* A set whose elements have a property that not all have: a smallest subset
\* without it.
LEMMA SmallestSubset ==
  ASSUME NEW S, IsFiniteSet(S), NEW Bad \in SUBSET (SUBSET S), Bad # {}
  PROVE  \E T \in Bad : \A x \in T : T \ {x} \notin Bad
<1> DEFINE sizes == {Cardinality(T) : T \in Bad}
<1>1. \A T \in SUBSET S : IsFiniteSet(T) /\ Cardinality(T) \in Nat
  BY FS_Subset, FS_CardinalityType
<1>2. sizes \in SUBSET Nat /\ sizes # {}
  BY <1>1
<1>3. PICK n \in sizes : \A m \in sizes : n <= m
  <2> HIDE DEF sizes
  <2> QED
    BY <1>2, Least
<1>4. PICK T \in Bad : Cardinality(T) = n
  OBVIOUS
<1>5. ASSUME NEW x \in T, T \ {x} \in Bad PROVE FALSE
  <2>1. Cardinality(T \ {x}) = n - 1
    BY <1>1, <1>4, FS_RemoveElement
  <2>2. n <= n - 1
    BY <1>3, <1>5, <2>1
  <2> QED
    BY <1>2, <2>2
<1> QED
  BY <1>5

LEMMA HasLast ==
  ASSUME NEW S, IsFiniteSet(S), S # {}, NEW R, Orders(R, S)
  PROVE  \E l \in S : \A x \in S \ {l} : <<x, l>> \in R
<1> DEFINE Ends(T) == \E l \in T : \A x \in T \ {l} : <<x, l>> \in R
           Bad == {T \in SUBSET S : T # {} /\ ~Ends(T)}
<1> SUFFICES ASSUME Bad # {} PROVE FALSE
  OBVIOUS
<1>1. Bad \in SUBSET (SUBSET S)
  OBVIOUS
<1>2. PICK T \in Bad : \A x \in T : T \ {x} \notin Bad
  <2> HIDE DEF Bad
  <2> QED
    BY <1>1, SmallestSubset
<1>3. PICK x \in T : TRUE
  BY <1>2
<1>4. CASE T \ {x} = {}
  BY <1>2, <1>3, <1>4
<1>5. CASE T \ {x} # {}
  <2>1. Ends(T \ {x})
    BY <1>2, <1>3, <1>5
  <2>2. PICK l \in T \ {x} : \A y \in (T \ {x}) \ {l} : <<y, l>> \in R
    BY <2>1
  <2>3. x \in S /\ l \in S /\ x # l
    BY <1>2, <1>3, <2>2
  <2>4. CASE <<x, l>> \in R
    <3>1. \A y \in T \ {l} : <<y, l>> \in R
      BY <2>2, <2>4
    <3> QED
      BY <1>2, <2>2, <3>1
  <2>5. CASE <<l, x>> \in R
    <3>1. ASSUME NEW y \in T \ {x} PROVE <<y, x>> \in R
      <4>1. CASE y = l
        BY <2>5, <4>1
      <4>2. CASE y # l
        <5>1. <<y, l>> \in R /\ y \in S
          BY <1>2, <2>2, <4>2
        <5> QED
          BY <2>3, <2>5, <5>1 DEF Orders
      <4> QED
        BY <4>1, <4>2
    <3> QED
      BY <1>2, <1>3, <3>1
  <2> QED
    BY <2>3, <2>4, <2>5 DEF Orders
<1> QED
  BY <1>4, <1>5

\* A finite set can be listed in any order of it.
IsListing(s, S, R) ==
  /\ s \in [1..Cardinality(S) -> S]
  /\ \A i, j \in 1..Cardinality(S) : i < j => <<s[i], s[j]>> \in R

LEMMA ListingExists ==
  ASSUME NEW S, IsFiniteSet(S), NEW R, Orders(R, S)
  PROVE  \E s : IsListing(s, S, R)
<1> DEFINE Bad == {T \in SUBSET S : ~\E s : IsListing(s, T, R)}
<1> SUFFICES ASSUME Bad # {} PROVE FALSE
  OBVIOUS
<1>1. Bad \in SUBSET (SUBSET S)
  OBVIOUS
<1>2. PICK T \in Bad : \A x \in T : T \ {x} \notin Bad
  <2> HIDE DEF Bad
  <2> QED
    BY <1>1, SmallestSubset
<1>3. T \in SUBSET S /\ IsFiniteSet(T)
  BY <1>2, FS_Subset
<1>4. T # {}
  <2> SUFFICES ASSUME T = {} PROVE FALSE
    OBVIOUS
  <2>1. Cardinality(T) = 0
    BY FS_EmptySet
  <2>2. IsListing([i \in 1..0 |-> i], T, R)
    BY <2>1 DEF IsListing
  <2> QED
    BY <1>2, <2>2
<1>5. Orders(R, T)
  BY <1>3 DEF Orders
<1>6. PICK l \in T : \A x \in T \ {l} : <<x, l>> \in R
  BY <1>3, <1>4, <1>5, HasLast
<1> DEFINE U == T \ {l}
           n == Cardinality(T)
<1>7. IsFiniteSet(U) /\ Cardinality(U) = n - 1 /\ n \in Nat
  BY <1>3, <1>6, FS_RemoveElement, FS_CardinalityType
<1>8. PICK s : IsListing(s, U, R)
  BY <1>2, <1>3, <1>6
<1> DEFINE t == [i \in 1..n |-> IF i = n THEN l ELSE s[i]]
<1>9. s \in [1..(n - 1) -> U] /\ \A i, j \in 1..(n - 1) : i < j => <<s[i], s[j]>> \in R
  BY <1>7, <1>8 DEF IsListing
<1>10. t \in [1..n -> T]
  BY <1>7, <1>9
<1>11. ASSUME NEW i \in 1..n, NEW j \in 1..n, i < j PROVE <<t[i], t[j]>> \in R
  <2>1. i \in 1..(n - 1) /\ t[i] = s[i] /\ s[i] \in U
    BY <1>7, <1>9, <1>11
  <2>2. CASE j = n
    BY <1>6, <2>1, <2>2
  <2>3. CASE j # n
    BY <1>7, <1>9, <1>11, <2>1, <2>3
  <2> QED
    BY <2>2, <2>3
<1>12. IsListing(t, T, R)
  BY <1>10, <1>11 DEF IsListing
<1> QED
  BY <1>2, <1>12

\* A listing has every element in one place.
LEMMA ListingIsComplete ==
  ASSUME NEW S, IsFiniteSet(S), NEW R, Orders(R, S), NEW s, IsListing(s, S, R)
  PROVE  /\ s \in Seq(S) /\ Len(s) = Cardinality(S)
         /\ \A i, j \in 1..Len(s) : s[i] = s[j] => i = j
         /\ \A x \in S : \E i \in 1..Len(s) : s[i] = x
<1> DEFINE n == Cardinality(S)
<1>1. n \in Nat
  BY FS_CardinalityType
<1>2. s \in Seq(S) /\ Len(s) = n /\ s \in [1..n -> S]
  BY <1>1 DEF IsListing
<1>3. ASSUME NEW i \in 1..n, NEW j \in 1..n, s[i] = s[j] PROVE i = j
  <2>1. s[i] \in S /\ <<s[i], s[i]>> \notin R
    BY <1>2 DEF Orders
  <2>2. ~(i < j) /\ ~(j < i)
    BY <1>3, <2>1 DEF IsListing
  <2> QED
    BY <1>1, <2>2
<1>4. IsFiniteSet(1..n) /\ Cardinality(1..n) = n
  BY <1>1, FS_Interval
<1>5. s \in Injection(1..n, S)
  BY <1>2, <1>3 DEF Injection, IsInjective
<1>6. s \in Surjection(1..n, S)
  <2> HIDE DEF n
  <2>1. Cardinality(1..n) = Cardinality(S) <=> s \in Surjection(1..n, S)
    BY <1>5, FS_Injection
  <2> QED
    BY <1>4, <2>1 DEF n
<1>7. \A x \in S : \E i \in 1..n : s[i] = x
  BY <1>6 DEF Surjection
<1> QED
  BY <1>2, <1>3, <1>7

(***************************************************************************)
(* Pages of the list tool.                                                 *)
(***************************************************************************)
OfDifferentReports(rows) == \A x, y \in rows : x.id = y.id => x = y

LEMMA WeeksAreNumbers ==
  ASSUME TypeOK, NEW r \in Reports
  PROVE  r \in Nat /\ report[r].week \in 1..NWeeks /\ report[r].week \in Nat
<1>1. report[r] \in Report
  BY DEF TypeOK
<1> QED
  BY <1>1, ShelfAssumption DEF Report, Reports

LEMMA RowsAreFinite ==
  ASSUME NEW rows \in SUBSET Row, OfDifferentReports(rows)
  PROVE  IsFiniteSet(rows) /\ Cardinality(rows) \in Nat
<1> DEFINE ids == [row \in rows |-> row.id]
<1>1. IsFiniteSet(Reports)
  BY ShelfAssumption, FS_Interval DEF Reports
<1>2. ids \in Injection(rows, Reports)
  BY DEF Injection, IsInjective, OfDifferentReports, Row
<1>3. IsFiniteSet(rows)
  BY <1>1, <1>2, FS_Injection
<1> QED
  BY <1>3, FS_CardinalityType

\* What Sorted makes of rows: each of them in one place, newer ones first.
SortsRows(list, rows) ==
  /\ list \in Seq(rows) /\ Len(list) = Cardinality(rows) /\ Len(list) \in Nat
  /\ \A row \in rows : \E i \in 1..Len(list) : list[i] = row
  /\ \A i, j \in 1..Len(list) : i < j => Newer(list[i].id, list[j].id)

LEMMA SortedFacts ==
  ASSUME TypeOK, NEW rows \in SUBSET Row, OfDifferentReports(rows)
  PROVE  SortsRows(Sorted(rows), rows)
<1> DEFINE n == Cardinality(rows)
           R == {p \in rows \X rows : Newer(p[1].id, p[2].id)}
           InOrder(list) == \A i, j \in DOMAIN list : i < j => Newer(list[i].id, list[j].id)
           list == CHOOSE list \in [1..n -> rows] : InOrder(list)
<1>1. IsFiniteSet(rows) /\ n \in Nat
  BY RowsAreFinite
<1>2. Orders(R, rows)
  <2>1. \A x \in rows : x.id \in Reports
    BY DEF Row
  <2>2. \A x \in rows : x.id \in Nat /\ report[x.id].week \in Nat
    BY <2>1, WeeksAreNumbers
  <2>3. \A x \in rows : ~Newer(x.id, x.id)
    BY <2>2 DEF Newer
  <2>4. \A x, y \in rows : x # y => Newer(x.id, y.id) \/ Newer(y.id, x.id)
    BY <2>2 DEF Newer, OfDifferentReports
  <2>5. \A x, y, z \in rows : Newer(x.id, y.id) /\ Newer(y.id, z.id) => Newer(x.id, z.id)
    BY <2>2 DEF Newer
  <2> QED
    BY <2>3, <2>4, <2>5 DEF Orders
<1>3. PICK s : IsListing(s, rows, R)
  <2> HIDE DEF R
  <2> QED
    BY <1>1, <1>2, ListingExists
<1>4. s \in [1..n -> rows] /\ InOrder(s)
  BY <1>3 DEF IsListing
<1>5. list \in [1..n -> rows] /\ InOrder(list)
  <2> HIDE DEF n, InOrder
  <2> QED
    BY <1>4
<1>6. Sorted(rows) = list
  BY DEF Sorted
<1> HIDE DEF list
<1>7. IsListing(list, rows, R)
  BY <1>5 DEF IsListing
<1>8. /\ list \in Seq(rows) /\ Len(list) = n
      /\ \A x \in rows : \E i \in 1..Len(list) : list[i] = x
  <2> HIDE DEF n, R
  <2> QED
    BY <1>1, <1>2, <1>7, ListingIsComplete DEF n
<1> QED
  BY <1>1, <1>5, <1>6, <1>8 DEF SortsRows

\* The rows that a page is made of, and what it takes of them.
PageRows(rows, query) == {row \in rows : Related(row, query)}
PageLimit(query) == IF query.relation = "overlap" THEN Limit ELSE 1

Cursors == {NoCursor} \union (1..NWeeks) \X Reports
CursorAt(r) == <<report[r].week, r>>

LEMMA CursorFacts ==
  ASSUME TypeOK, NEW r \in Reports
  PROVE  /\ CursorAt(r) \in Cursors /\ CursorAt(r) # NoCursor
         /\ \A s \in Reports : AfterCursor(s, CursorAt(r)) <=> Newer(r, s)
<1>1. r \in Nat /\ report[r].week \in 1..NWeeks /\ report[r].week \in Nat
  BY WeeksAreNumbers
<1>2. CursorAt(r) \in (1..NWeeks) \X Reports /\ CursorAt(r)[1] = report[r].week /\ CursorAt(r)[2] = r
  BY <1>1 DEF CursorAt
<1>3. CursorAt(r) # NoCursor
  BY DEF CursorAt, NoCursor
<1>4. ASSUME NEW s \in Reports PROVE AfterCursor(s, CursorAt(r)) <=> Newer(r, s)
  <2>1. s \in Nat /\ report[s].week \in Nat
    BY WeeksAreNumbers
  <2> QED
    BY <1>1, <1>2, <1>3, <2>1 DEF AfterCursor, Newer
<1> QED
  BY <1>2, <1>3, <1>4 DEF Cursors

On(row, items) == \E i \in 1..Len(items) : items[i] = row

\* What a page is of the rows it is made of: the first of them in their order,
\* and all of them unless its cursor stands between it and the rest.
IsPage(page, rows, query) ==
  /\ page.items \in Seq(PageRows(rows, query))
  /\ \A i, j \in 1..Len(page.items) : i < j => Newer(page.items[i].id, page.items[j].id)
  /\ page.cursor \in Cursors
  /\ page.cursor = NoCursor /\ query.relation = "overlap" =>
       \A row \in PageRows(rows, query) : On(row, page.items)
  /\ page.cursor # NoCursor =>
       /\ query.relation = "overlap" /\ Len(page.items) # 0
       /\ \A i \in 1..Len(page.items) : ~AfterCursor(page.items[i].id, page.cursor)
       /\ \A row \in PageRows(rows, query) :
            On(row, page.items) \/ AfterCursor(row.id, page.cursor)

LEMMA PageFacts ==
  ASSUME TypeOK, NEW rows \in SUBSET Row, OfDifferentReports(rows), NEW query \in ListQuery
  PROVE  IsPage(Page(rows, query), rows, query)
<1> DEFINE T == PageRows(rows, query)
           list == Sorted(T)
           limit == PageLimit(query)
           m == IF Len(list) < limit THEN Len(list) ELSE limit
           page == Page(rows, query)
<1>1. limit \in Nat \ {0}
  BY ShelfAssumption DEF PageLimit
<1>2. T \in SUBSET Row /\ OfDifferentReports(T)
  BY DEF PageRows, OfDifferentReports
<1>3. SortsRows(list, T)
  <2> HIDE DEF T
  <2> QED
    BY <1>2, SortedFacts
<1>4. page = [items |-> SubSeq(list, 1, m),
              cursor |-> IF query.relation = "overlap" /\ Len(list) > limit
                           THEN CursorAt(Last(SubSeq(list, 1, m)).id) ELSE NoCursor]
  BY DEF Page, PageRows, PageLimit, CursorAt
<1> HIDE DEF T, list, limit, page
<1>5. list \in Seq(T) /\ Len(list) \in Nat /\ m \in 0..Len(list)
  BY <1>1, <1>3 DEF SortsRows
<1>6. /\ page.items \in Seq(T) /\ Len(page.items) = m
      /\ \A i \in 1..m : page.items[i] = list[i]
  BY <1>4, <1>5
<1>7. \A i, j \in 1..Len(page.items) : i < j => Newer(page.items[i].id, page.items[j].id)
  <2>1. \A i \in 1..m : i \in 1..Len(list)
    BY <1>5
  <2> HIDE DEF m
  <2> QED
    BY <1>3, <1>6, <2>1 DEF SortsRows
<1>8. CASE ~(query.relation = "overlap" /\ Len(list) > limit)
  <2>1. page.cursor = NoCursor
    BY <1>4, <1>8
  <2>2. ASSUME query.relation = "overlap", NEW row \in T PROVE On(row, page.items)
    <3>1. m = Len(list)
      BY <1>1, <1>5, <1>8, <2>2
    <3> QED
      BY <1>3, <1>6, <3>1 DEF SortsRows, On
  <2> QED
    BY <1>6, <1>7, <2>1, <2>2 DEF IsPage, Cursors, T, page
<1>9. CASE query.relation = "overlap" /\ Len(list) > limit
  <2> DEFINE l == list[m].id
  <2>1. m = limit /\ m \in 1..Len(list) /\ m \in Nat
    BY <1>1, <1>5, <1>9
  <2>2. list[m] \in T /\ l \in Reports
    BY <1>2, <1>5, <2>1 DEF Row
  <2>3. page.cursor = CursorAt(l)
    <3>1. Last(SubSeq(list, 1, m)) = list[m]
      BY <1>4, <1>6, <2>1 DEF Last
    <3> QED
      BY <1>4, <1>9, <3>1
  <2> HIDE DEF l, m
  <2>4. /\ page.cursor \in Cursors /\ page.cursor # NoCursor
        /\ \A s \in Reports : AfterCursor(s, page.cursor) <=> Newer(l, s)
    BY <2>2, <2>3, CursorFacts
  <2>5. ASSUME NEW i \in 1..Len(list) PROVE list[i].id \in Reports /\ (Newer(l, list[i].id) <=> i > m)
    <3>1. list[i] \in T /\ list[i].id \in Reports
      BY <1>2, <1>5 DEF Row
    <3>2. /\ list[i].id \in Nat /\ report[list[i].id].week \in Nat
          /\ l \in Nat /\ report[l].week \in Nat
      BY <2>2, <3>1, WeeksAreNumbers
    <3>3. CASE i > m
      BY <1>3, <2>1, <3>1, <3>3 DEF SortsRows, l
    <3>4. CASE i = m
      BY <2>1, <3>1, <3>2, <3>4 DEF Newer, l
    <3>5. CASE i < m
      <4>1. Newer(list[i].id, l)
        BY <1>3, <2>1, <3>5 DEF SortsRows, l
      <4>2. ~(i > m)
        BY <2>1, <3>5
      <4> QED
        BY <3>1, <3>2, <4>1, <4>2 DEF Newer
    <3> QED
      BY <2>1, <3>3, <3>4, <3>5
  <2>6. ASSUME NEW i \in 1..Len(page.items) PROVE ~AfterCursor(page.items[i].id, page.cursor)
    <3>1. i \in 1..Len(list) /\ page.items[i] = list[i] /\ ~(i > m)
      BY <1>5, <1>6, <2>1
    <3> QED
      BY <2>4, <2>5, <3>1
  <2>7. ASSUME NEW row \in T PROVE On(row, page.items) \/ AfterCursor(row.id, page.cursor)
    <3>1. PICK i \in 1..Len(list) : list[i] = row
      BY <1>3 DEF SortsRows
    <3>2. CASE i > m
      BY <2>4, <2>5, <3>1, <3>2
    <3>3. CASE i <= m
      <4>1. i \in 1..m
        BY <3>3, <2>1
      <4> QED
        BY <1>6, <3>1, <4>1 DEF On
    <3> QED
      BY <2>1, <3>2, <3>3
  <2>8. Len(page.items) # 0
    BY <1>6, <2>1
  <2> QED
    BY <1>6, <1>7, <1>9, <2>4, <2>6, <2>7, <2>8 DEF IsPage, T, page
<1> QED
  BY <1>8, <1>9

Interval == [start : 1..NLines, end : 1..NLines]
InSome(x, ranges) == \E i \in 1..Len(ranges) : ranges[i].start <= x /\ x <= ranges[i].end
NearOne(x, lines, k, context) == \E m \in lines : m <= k /\ m - context <= x /\ x <= m + context

\* What the ranges are after the first k lines: as many as lines match at most,
\* apart, none beyond the window of the k-th line, and together the lines near
\* a matching one.
CoverUpTo(ranges, lines, k, context) ==
  /\ ranges \in Seq(Interval) /\ Len(ranges) <= Cardinality(lines \intersect 1..k)
  /\ \A i \in 1..(Len(ranges) - 1) : ranges[i].end + 1 < ranges[i + 1].start
  /\ \A i \in 1..Len(ranges) :
       /\ ranges[i].start = 1 \/ ranges[i].start <= k - context
       /\ ranges[i].end <= k + context
  /\ \A x \in 1..NLines : InSome(x, ranges) <=> NearOne(x, lines, k, context)

LEMMA IsInSome ==
  ASSUME NEW ranges, NEW x, NEW i \in 1..Len(ranges), ranges[i].start <= x /\ x <= ranges[i].end
  PROVE  InSome(x, ranges)
BY Zenon DEF InSome

LEMMA NLinesIsNat == NLines \in Nat
BY ShelfAssumption

LEMMA RangesFacts ==
  ASSUME NEW ranges \in Seq(Interval)
  PROVE  /\ Len(ranges) \in Nat
         /\ \A i \in 1..Len(ranges) :
              /\ ranges[i] \in Interval
              /\ ranges[i].start \in 1..NLines /\ ranges[i].end \in 1..NLines
              /\ ranges[i].start \in Nat /\ ranges[i].end \in Nat
<1>1. Len(ranges) \in Nat /\ \A i \in 1..Len(ranges) : ranges[i] \in Interval
  OBVIOUS
<1>2. \A r \in Interval : r.start \in 1..NLines /\ r.end \in 1..NLines
  BY DEF Interval
<1>3. \A x \in 1..NLines : x \in Nat
  BY NLinesIsNat
<1> QED
  BY <1>1, <1>2, <1>3

LEMMA WindowFacts ==
  ASSUME NEW l \in 1..NLines, NEW context \in Nat
  PROVE  LET next == Window(l, context)
         IN  /\ next \in Interval
             /\ next.start = 1 \/ next.start <= l - context
             /\ l - context <= next.start
             /\ next.end <= l + context /\ (next.end = NLines \/ next.end = l + context)
             /\ \A x \in 1..NLines : next.start <= x /\ x <= next.end
                                      <=> l - context <= x /\ x <= l + context
<1>1. NLines \in Nat /\ l \in Nat /\ l >= 1 /\ l <= NLines
  BY NLinesIsNat
<1> DEFINE next == Window(l, context)
<1>2. next.start = IF l > context THEN l - context ELSE 1
  BY DEF Window
<1>3. next.end = IF l + context < NLines THEN l + context ELSE NLines
  BY DEF Window
<1>4. next \in Interval
  BY <1>1 DEF Window, Interval
<1> HIDE DEF next
<1>5. next.start = 1 \/ next.start <= l - context
  BY <1>1, <1>2
<1>6. l - context <= next.start
  BY <1>1, <1>2
<1>7. next.end <= l + context /\ (next.end = NLines \/ next.end = l + context)
  BY <1>1, <1>3
<1>8. ASSUME NEW x \in 1..NLines
      PROVE  next.start <= x /\ x <= next.end <=> l - context <= x /\ x <= l + context
  BY <1>1, <1>2, <1>3
<1> QED
  BY <1>4, <1>5, <1>6, <1>7, <1>8 DEF next

LEMMA LinesAreFinite ==
  ASSUME NEW lines \in SUBSET (1..NLines), NEW k \in Nat
  PROVE  /\ IsFiniteSet(lines \intersect 1..k) /\ Cardinality(lines \intersect 1..k) \in Nat
         /\ IsFiniteSet(lines) /\ Cardinality(lines) \in Nat
         /\ Cardinality(lines \intersect 1..k) <= Cardinality(lines)
<1>1. IsFiniteSet(1..NLines)
  BY ShelfAssumption, FS_Interval
<1>2. IsFiniteSet(lines)
  BY <1>1, FS_Subset
<1>3. lines \intersect 1..k \in SUBSET lines
  OBVIOUS
<1> QED
  BY <1>2, <1>3, FS_Subset, FS_CardinalityType

LEMMA NextLineCounts ==
  ASSUME NEW lines \in SUBSET (1..NLines), NEW k \in Nat
  PROVE  Cardinality(lines \intersect 1..(k + 1)) =
           IF k + 1 \in lines THEN Cardinality(lines \intersect 1..k) + 1
           ELSE Cardinality(lines \intersect 1..k)
<1> DEFINE S == lines \intersect 1..k
           T == lines \intersect 1..(k + 1)
<1>1. IsFiniteSet(S)
  BY LinesAreFinite
<1>2. k + 1 \notin S
  OBVIOUS
<1>3. CASE k + 1 \in lines
  <2>1. T = S \union {k + 1}
    BY <1>3
  <2> HIDE DEF S, T
  <2>2. Cardinality(T) = Cardinality(S) + 1
    BY <1>1, <1>2, <2>1, FS_AddElement
  <2> QED
    BY <1>3, <2>2 DEF S, T
<1>4. CASE k + 1 \notin lines
  <2>1. T = S
    BY <1>4
  <2> QED
    BY <1>4, <2>1
<1> QED
  BY <1>3, <1>4

\* A line that does not match changes nothing.
LEMMA OtherLine ==
  ASSUME NEW lines \in SUBSET (1..NLines), NEW context \in Nat, NEW k \in Nat, k + 1 \notin lines,
         NEW ranges, CoverUpTo(ranges, lines, k, context)
  PROVE  CoverUpTo(ranges, lines, k + 1, context)
<1>1. ranges \in Seq(Interval) /\ Len(ranges) \in Nat
  BY DEF CoverUpTo
<1>2. \A i \in 1..Len(ranges) : ranges[i].start \in Nat /\ ranges[i].end \in Nat
  BY <1>1, RangesFacts
<1>3. Len(ranges) <= Cardinality(lines \intersect 1..(k + 1))
  BY NextLineCounts DEF CoverUpTo
<1>4. \A i \in 1..Len(ranges) :
        /\ ranges[i].start = 1 \/ ranges[i].start <= (k + 1) - context
        /\ ranges[i].end <= (k + 1) + context
  BY <1>2 DEF CoverUpTo
<1>5. \A m \in lines : m <= k <=> m <= k + 1
  <2>1. \A m \in lines : m \in Nat /\ m # k + 1
    BY NLinesIsNat
  <2> QED
    BY <2>1
<1>6. \A x : NearOne(x, lines, k, context) <=> NearOne(x, lines, k + 1, context)
  BY <1>5 DEF NearOne
<1> QED
  BY <1>3, <1>4, <1>6 DEF CoverUpTo

\* A line that matches adds its window, or widens the last range by it.
LEMMA MatchingLine ==
  ASSUME NEW lines \in SUBSET (1..NLines), NEW context \in Nat, NEW k \in Nat, k + 1 \in lines,
         NEW ranges, CoverUpTo(ranges, lines, k, context)
  PROVE  CoverUpTo(WithWindow(ranges, Window(k + 1, context)), lines, k + 1, context)
<1> DEFINE next == Window(k + 1, context)
           wider == WithWindow(ranges, next)
           n == Len(ranges)
<1>1. k + 1 \in 1..NLines
  OBVIOUS
<1>2. /\ next \in Interval
      /\ next.start = 1 \/ next.start <= (k + 1) - context
      /\ (k + 1) - context <= next.start
      /\ next.end <= (k + 1) + context /\ (next.end = NLines \/ next.end = (k + 1) + context)
      /\ \A x \in 1..NLines : next.start <= x /\ x <= next.end
                               <=> (k + 1) - context <= x /\ x <= (k + 1) + context
  BY <1>1, WindowFacts
<1>3. next.start \in 1..NLines /\ next.end \in 1..NLines /\ next.start \in Nat /\ next.end \in Nat
  BY <1>2, ShelfAssumption DEF Interval
<1>4. ranges \in Seq(Interval) /\ n \in Nat
  BY DEF CoverUpTo
<1>5. \A i \in 1..n : /\ ranges[i] \in Interval
                      /\ ranges[i].start \in 1..NLines /\ ranges[i].end \in 1..NLines
                      /\ ranges[i].start \in Nat /\ ranges[i].end \in Nat
  BY <1>4, RangesFacts
<1>6. \A i \in 1..n : ranges[i].start <= next.start /\ ranges[i].end <= next.end
  <2> SUFFICES ASSUME NEW i \in 1..n
               PROVE  ranges[i].start <= next.start /\ ranges[i].end <= next.end
    OBVIOUS
  <2> HIDE DEF next
  <2>1. /\ ranges[i].start = 1 \/ ranges[i].start <= k - context
        /\ ranges[i].end <= k + context
    BY DEF CoverUpTo
  <2>2. /\ ranges[i].start \in Nat /\ ranges[i].end \in Nat
        /\ ranges[i].end <= NLines /\ next.start >= 1 /\ NLines \in Nat
    BY <1>3, <1>5, NLinesIsNat
  <2>3. ranges[i].start <= next.start
    BY <1>2, <1>3, <2>1, <2>2
  <2>4. ranges[i].end <= next.end
    BY <1>2, <1>3, <2>1, <2>2
  <2> QED
    BY <2>3, <2>4
<1>7. \A x \in 1..NLines : NearOne(x, lines, k + 1, context)
                            <=> NearOne(x, lines, k, context) \/ (next.start <= x /\ x <= next.end)
  <2>1. \A m \in lines : m <= k + 1 <=> m <= k \/ m = k + 1
    <3>1. \A m \in lines : m \in Nat
      BY NLinesIsNat
    <3> QED
      BY <3>1
  <2> QED
    BY <1>2, <2>1 DEF NearOne
<1>8. Cardinality(lines \intersect 1..k) + 1 = Cardinality(lines \intersect 1..(k + 1))
      /\ Cardinality(lines \intersect 1..k) \in Nat
  BY NextLineCounts, LinesAreFinite
<1>9. CASE ranges # <<>> /\ Joins(Last(ranges), next)
  <2>1. n \in 1..n /\ next.start <= ranges[n].end + 1
    BY <1>4, <1>9 DEF Joins, Last
  <2>2. wider = [ranges EXCEPT ![n] = [start |-> ranges[n].start, end |-> next.end]]
    <3>1. wider = [ranges EXCEPT ![n].end = IF @ < next.end THEN next.end ELSE @]
      BY <1>9 DEF WithWindow
    <3>2. (IF ranges[n].end < next.end THEN next.end ELSE ranges[n].end) = next.end
      <4> HIDE DEF next
      <4> QED
        BY <1>3, <1>5, <1>6, <2>1
    <3>3. [ranges[n] EXCEPT !.end = next.end] = [start |-> ranges[n].start, end |-> next.end]
      BY <1>5, <2>1 DEF Interval
    <3> QED
      BY <3>1, <3>2, <3>3
  <2>3. wider \in Seq(Interval) /\ Len(wider) = n
    <3>1. [start |-> ranges[n].start, end |-> next.end] \in Interval
      BY <1>3, <1>5, <2>1 DEF Interval
    <3> HIDE DEF wider, next
    <3> QED
      BY <1>4, <2>1, <2>2, <3>1
  <2>4. \A i \in 1..n : /\ wider[i].start = ranges[i].start
                        /\ wider[i].end = IF i = n THEN next.end ELSE ranges[i].end
    <3> HIDE DEF wider, next
    <3> QED
      BY <1>4, <2>1, <2>2
  <2> HIDE DEF wider, next
  <2>5. \A i \in 1..(n - 1) : wider[i].end + 1 < wider[i + 1].start
    <3>1. \A i \in 1..(n - 1) : i \in 1..n /\ i + 1 \in 1..n /\ i # n
      BY <1>4
    <3> QED
      BY <2>4, <3>1 DEF CoverUpTo
  <2>6. ASSUME NEW i \in 1..n
        PROVE  /\ wider[i].start = 1 \/ wider[i].start <= (k + 1) - context
               /\ wider[i].end <= (k + 1) + context
    <3>1. /\ ranges[i].start = 1 \/ ranges[i].start <= k - context
          /\ ranges[i].end <= k + context
          /\ ranges[i].start \in Nat /\ ranges[i].end \in Nat
      BY <1>5 DEF CoverUpTo
    <3>2. wider[i].start = 1 \/ wider[i].start <= (k + 1) - context
      BY <2>4, <3>1
    <3>3. wider[i].end <= (k + 1) + context
      BY <1>2, <1>3, <2>4, <3>1
    <3> QED
      BY <3>2, <3>3
  <2>7. ASSUME NEW x \in 1..NLines
        PROVE  InSome(x, wider) <=> InSome(x, ranges) \/ (next.start <= x /\ x <= next.end)
    <3>1. /\ ranges[n].start \in Nat /\ ranges[n].end \in Nat /\ x \in Nat
          /\ ranges[n].start <= next.start /\ ranges[n].end <= next.end
      BY <1>5, <1>6, <2>1, NLinesIsNat
    <3>2. wider[n].start = ranges[n].start /\ wider[n].end = next.end
      BY <2>1, <2>4
    <3>3. wider[n].start <= x /\ x <= wider[n].end
            <=> (ranges[n].start <= x /\ x <= ranges[n].end) \/ (next.start <= x /\ x <= next.end)
      BY <1>3, <2>1, <3>1, <3>2
    <3>4. \A i \in 1..n : i # n => wider[i].start = ranges[i].start /\ wider[i].end = ranges[i].end
      BY <2>4
    <3>5. ASSUME InSome(x, wider) PROVE InSome(x, ranges) \/ (next.start <= x /\ x <= next.end)
      <4>1. PICK i \in 1..n : wider[i].start <= x /\ x <= wider[i].end
        BY <2>3, <3>5 DEF InSome
      <4>2. CASE i = n
        BY <3>3, <4>1, <4>2 DEF InSome
      <4>3. CASE i # n
        <5>1. ranges[i].start <= x /\ x <= ranges[i].end
          BY <3>4, <4>1, <4>3
        <5> QED
          BY <4>1, <5>1, IsInSome
      <4> QED
        BY <4>2, <4>3
    <3>6. ASSUME InSome(x, ranges) PROVE InSome(x, wider)
      <4>1. PICK i \in 1..n : ranges[i].start <= x /\ x <= ranges[i].end
        BY <3>6 DEF InSome
      <4>2. CASE i = n
        <5>1. wider[n].start <= x /\ x <= wider[n].end
          BY <3>3, <4>1, <4>2
        <5>2. n \in 1..Len(wider)
          BY <2>1, <2>3
        <5> QED
          BY <5>1, <5>2, IsInSome
      <4>3. CASE i # n
        <5>1. wider[i].start <= x /\ x <= wider[i].end
          BY <3>4, <4>1, <4>3
        <5> QED
          BY <2>3, <5>1, IsInSome
      <4> QED
        BY <4>2, <4>3
    <3>7. ASSUME next.start <= x /\ x <= next.end PROVE InSome(x, wider)
      BY <2>1, <2>3, <3>3, <3>7 DEF InSome
    <3> QED
      BY <3>5, <3>6, <3>7
  <2>8. \A x \in 1..NLines : InSome(x, wider) <=> NearOne(x, lines, k + 1, context)
    BY <1>7, <2>7 DEF CoverUpTo
  <2>9. Len(wider) <= Cardinality(lines \intersect 1..(k + 1))
    BY <1>4, <1>8, <2>3 DEF CoverUpTo
  <2> QED
    BY <2>3, <2>5, <2>6, <2>8, <2>9 DEF CoverUpTo, wider, next
<1>10. CASE ~(ranges # <<>> /\ Joins(Last(ranges), next))
  <2>1. wider = Append(ranges, next)
    BY <1>10 DEF WithWindow
  <2>2. \A i \in 1..n : i = n => ranges[i].end + 1 < next.start
    <3> SUFFICES ASSUME n \in 1..n PROVE ranges[n].end + 1 < next.start
      OBVIOUS
    <3>1. ~(next.start <= ranges[n].end + 1)
      BY <1>4, <1>10 DEF Joins, Last
    <3> HIDE DEF next
    <3> QED
      BY <1>3, <1>5, <3>1
  <2> HIDE DEF wider, next
  <2>3. wider \in Seq(Interval) /\ Len(wider) = n + 1
    BY <1>2, <1>4, <2>1
  <2>4. wider[n + 1] = next /\ \A i \in 1..n : wider[i] = ranges[i]
    BY <1>2, <1>4, <2>1
  <2>5. ASSUME NEW i \in 1..n PROVE wider[i].end + 1 < wider[i + 1].start
    <3>1. CASE i = n
      BY <2>2, <2>4, <3>1
    <3>2. CASE i # n
      <4>1. i \in 1..(n - 1) /\ i + 1 \in 1..n
        BY <1>4, <3>2
      <4> QED
        BY <2>4, <4>1 DEF CoverUpTo
    <3> QED
      BY <3>1, <3>2
  <2>6. ASSUME NEW i \in 1..(n + 1)
        PROVE  /\ wider[i].start = 1 \/ wider[i].start <= (k + 1) - context
               /\ wider[i].end <= (k + 1) + context
    <3>1. CASE i = n + 1
      BY <1>2, <2>4, <3>1
    <3>2. CASE i # n + 1
      <4>1. i \in 1..n
        BY <1>4, <3>2
      <4>2. /\ ranges[i].start = 1 \/ ranges[i].start <= k - context
            /\ ranges[i].end <= k + context
            /\ ranges[i].start \in Nat /\ ranges[i].end \in Nat
        BY <1>5, <4>1 DEF CoverUpTo
      <4>3. wider[i] = ranges[i]
        BY <2>4, <4>1
      <4>4. wider[i].start = 1 \/ wider[i].start <= (k + 1) - context
        BY <4>2, <4>3
      <4>5. wider[i].end <= (k + 1) + context
        BY <4>2, <4>3
      <4> QED
        BY <4>4, <4>5
    <3> QED
      BY <3>1, <3>2
  <2>7. ASSUME NEW x \in 1..NLines
        PROVE  InSome(x, wider) <=> InSome(x, ranges) \/ (next.start <= x /\ x <= next.end)
    <3>1. \A i \in 1..(n + 1) : i \in 1..n \/ i = n + 1
      BY <1>4
    <3>2. n + 1 \in 1..(n + 1) /\ \A i \in 1..n : i \in 1..(n + 1)
      BY <1>4
    <3>3. ASSUME InSome(x, wider) PROVE InSome(x, ranges) \/ (next.start <= x /\ x <= next.end)
      <4>1. PICK i \in 1..(n + 1) : wider[i].start <= x /\ x <= wider[i].end
        BY <2>3, <3>3 DEF InSome
      <4>2. CASE i = n + 1
        BY <2>4, <4>1, <4>2
      <4>3. CASE i \in 1..n
        <5>1. ranges[i].start <= x /\ x <= ranges[i].end
          BY <2>4, <4>1, <4>3
        <5> QED
          BY <4>3, <5>1, IsInSome
      <4> QED
        BY <3>1, <4>2, <4>3
    <3>4. ASSUME InSome(x, ranges) PROVE InSome(x, wider)
      <4>1. PICK i \in 1..n : ranges[i].start <= x /\ x <= ranges[i].end
        BY <3>4 DEF InSome
      <4> QED
        BY <2>3, <2>4, <3>2, <4>1 DEF InSome
    <3>5. ASSUME next.start <= x /\ x <= next.end PROVE InSome(x, wider)
      BY <2>3, <2>4, <3>2, <3>5 DEF InSome
    <3> QED
      BY <3>3, <3>4, <3>5
  <2>8. \A x \in 1..NLines : InSome(x, wider) <=> NearOne(x, lines, k + 1, context)
    BY <1>7, <2>7 DEF CoverUpTo
  <2>9. Len(wider) <= Cardinality(lines \intersect 1..(k + 1))
    BY <1>4, <1>8, <2>3 DEF CoverUpTo
  <2>10. (n + 1) - 1 = n
    BY <1>4
  <2> QED
    BY <2>3, <2>5, <2>6, <2>8, <2>9, <2>10 DEF CoverUpTo, wider, next
<1> QED
  BY <1>9, <1>10

\* The ranges line by line.
IsMatching(f, N, lines, context) ==
  f = [l \in 0..N |-> IF l = 0 THEN <<>>
                      ELSE IF l \in lines THEN WithWindow(f[l - 1], Window(l, context))
                      ELSE f[l - 1]]

LEMMA MatchingExists ==
  ASSUME NEW N \in Nat, NEW lines, NEW context
  PROVE  \E f : IsMatching(f, N, lines, context)
<1> USE DEF IsMatching
<1> DEFINE IsFor(n, f) == IsMatching(f, n, lines, context)
           Bad == {n \in Nat : ~\E f : IsFor(n, f)}
<1> SUFFICES ASSUME Bad # {} PROVE FALSE
  OBVIOUS
<1>1. PICK n \in Bad : \A m \in Bad : n <= m
  <2> HIDE DEF Bad
  <2>1. Bad \in SUBSET Nat
    BY DEF Bad
  <2> QED
    BY <2>1, Least
<1>2. CASE n = 0
  <2>1. IsFor(0, [l \in 0..0 |-> <<>>])
    OBVIOUS
  <2> QED
    BY <1>1, <1>2, <2>1
<1>3. CASE n # 0
  <2>1. n - 1 \in Nat /\ n - 1 \notin Bad
    <3>1. n \in Nat
      OBVIOUS
    <3>2. ~(n <= n - 1)
      BY <3>1
    <3> HIDE DEF Bad
    <3> QED
      BY <1>1, <1>3, <3>1, <3>2
  <2>2. PICK f : IsFor(n - 1, f)
    BY <2>1
  <2> DEFINE last == IF n \in lines THEN WithWindow(f[n - 1], Window(n, context)) ELSE f[n - 1]
             g == [l \in 0..n |-> IF l = n THEN last ELSE f[l]]
  <2>3. \A l \in 0..(n - 1) : f[l] = IF l = 0 THEN <<>>
                               ELSE IF l \in lines THEN WithWindow(f[l - 1], Window(l, context))
                               ELSE f[l - 1]
    BY <2>2
  <2>4. \A l \in 0..n : l # n => l \in 0..(n - 1) /\ l - 1 # n
    BY <2>1
  <2>5. \A l \in 0..n : l # 0 => l - 1 \in 0..n /\ (l = n => l - 1 # n)
    BY <2>1
  <2>6. ASSUME NEW l \in 0..n
        PROVE  g[l] = IF l = 0 THEN <<>>
                      ELSE IF l \in lines THEN WithWindow(g[l - 1], Window(l, context))
                      ELSE g[l - 1]
    <3>1. CASE l = n
      <4>1. g[l] = last /\ g[l - 1] = f[n - 1]
        BY <1>3, <2>5, <3>1
      <4> QED
        BY <1>3, <3>1, <4>1
    <3>2. CASE l # n
      <4>1. g[l] = f[l]
        BY <3>2
      <4>2. l # 0 => g[l - 1] = f[l - 1]
        BY <2>4, <2>5, <3>2
      <4> HIDE DEF g
      <4> QED
        BY <2>3, <2>4, <3>2, <4>1, <4>2
    <3> QED
      BY <3>1, <3>2
  <2>7. IsFor(n, g)
    <3> DEFINE h == [l \in 0..n |-> IF l = 0 THEN <<>>
                      ELSE IF l \in lines THEN WithWindow(g[l - 1], Window(l, context))
                      ELSE g[l - 1]]
    <3>1. g = [l \in 0..n |-> g[l]]
      OBVIOUS
    <3>2. \A l \in 0..n : g[l] = h[l]
      BY <2>6
    <3>3. h = [l \in 0..n |-> h[l]]
      OBVIOUS
    <3> HIDE DEF g
    <3>4. g = h
      <4> HIDE DEF h
      <4> QED
        BY <3>1, <3>2, <3>3
    <3> QED
      BY <3>4
  <2> QED
    BY <1>1, <2>7
<1> QED
  BY <1>2, <1>3

\* After the last line the ranges cover what is near a matching line.
LEMMA RangesCover ==
  ASSUME NEW lines \in SUBSET (1..NLines), NEW context \in Nat
  PROVE  CoverUpTo(MatchingRanges(lines, context), lines, NLines, context)
<1> DEFINE Is(f) == IsMatching(f, NLines, lines, context)
           upTo == CHOOSE f : Is(f)
           Wrong == {k \in 0..NLines : ~CoverUpTo(upTo[k], lines, k, context)}
<1>0. NLines \in Nat
  BY NLinesIsNat
<1>1. Is(upTo)
  <2>1. \E f : Is(f)
    BY <1>0, MatchingExists, Zenon
  <2> HIDE DEF Is
  <2> QED
    BY <2>1, Zenon
<1>2. MatchingRanges(lines, context) = upTo[NLines]
  BY DEF MatchingRanges, IsMatching
<1> HIDE DEF upTo
<1>3. \A l \in 0..NLines : upTo[l] = IF l = 0 THEN <<>>
                           ELSE IF l \in lines THEN WithWindow(upTo[l - 1], Window(l, context))
                           ELSE upTo[l - 1]
  BY <1>1 DEF IsMatching
<1> HIDE DEF Is
<1>4. CoverUpTo(<<>>, lines, 0, context)
  <2>1. Len(<<>>) <= Cardinality(lines \intersect 1..0)
    <3>1. Cardinality(lines \intersect 1..0) \in Nat
      BY LinesAreFinite
    <3> QED
      BY <3>1
  <2>2. \A m \in lines : ~(m <= 0)
    BY <1>0
  <2>3. \A x : ~NearOne(x, lines, 0, context) /\ ~InSome(x, <<>>)
    BY <2>2 DEF NearOne, InSome
  <2> QED
    BY <2>1, <2>3 DEF CoverUpTo
<1>5. Wrong = {}
  <2> SUFFICES ASSUME Wrong # {} PROVE FALSE
    OBVIOUS
  <2>1. Wrong \in SUBSET Nat
    BY <1>0
  <2>2. PICK k \in Wrong : \A m \in Wrong : k <= m
    <3> HIDE DEF Wrong
    <3> QED
      BY <2>1, Least
  <2>3. CASE k = 0
    BY <1>0, <1>3, <1>4, <2>2, <2>3
  <2>4. CASE k # 0
    <3>1. k - 1 \in 0..NLines /\ k - 1 \in Nat /\ ~(k <= k - 1) /\ k = (k - 1) + 1
      BY <1>0, <2>4
    <3>2. CoverUpTo(upTo[k - 1], lines, k - 1, context)
      BY <2>2, <3>1
    <3>3. CASE k \in lines
      <4>1. CoverUpTo(WithWindow(upTo[k - 1], Window((k - 1) + 1, context)), lines, (k - 1) + 1, context)
        BY <3>1, <3>2, <3>3, MatchingLine
      <4>2. upTo[k] = WithWindow(upTo[k - 1], Window(k, context))
        BY <1>3, <2>4, <3>3
      <4> QED
        BY <3>1, <4>1, <4>2
    <3>4. CASE k \notin lines
      <4>1. CoverUpTo(upTo[k - 1], lines, (k - 1) + 1, context)
        BY <3>1, <3>2, <3>4, OtherLine
      <4>2. upTo[k] = upTo[k - 1]
        BY <1>3, <2>4, <3>4
      <4> QED
        BY <3>1, <4>1, <4>2
    <3> QED
      BY <3>3, <3>4
  <2> QED
    BY <2>3, <2>4
<1> QED
  BY <1>0, <1>2, <1>5

\* Whatever lines match.
LEMMA Ranges == RangesCoverMatches
<1> SUFFICES ASSUME NEW lines \in SUBSET (1..NLines), NEW context \in 0..1, NEW max \in 1..2
             PROVE  LET ranges == MatchingRanges(lines, context)
                        given == LiteralMatches(lines, context, max)
                        In(seq) == UNION {seq[i].start..seq[i].end : i \in DOMAIN seq}
                    IN /\ In(ranges) = {l \in 1..NLines : \E m \in lines : l \in (m - context)..(m + context)}
                       /\ \A i \in 1..(Len(ranges) - 1) : ranges[i].end + 1 < ranges[i + 1].start
                       /\ ~(lines \subseteq In(given)) => Truncated(lines, context, max)
  BY DEF RangesCoverMatches
<1> DEFINE ranges == MatchingRanges(lines, context)
           given == LiteralMatches(lines, context, max)
           In(seq) == UNION {seq[i].start..seq[i].end : i \in DOMAIN seq}
<1>1. CoverUpTo(ranges, lines, NLines, context)
  BY RangesCover
<1>2. given = SubSeq(ranges, 1, IF Len(ranges) < max THEN Len(ranges) ELSE max)
  BY DEF LiteralMatches
<1> HIDE DEF ranges, given
<1>3. /\ ranges \in Seq(Interval) /\ Len(ranges) \in Nat
      /\ \A i \in 1..Len(ranges) : ranges[i].start \in 1..NLines /\ ranges[i].end \in 1..NLines
  BY <1>1, RangesFacts DEF CoverUpTo
<1>4. \A x \in 1..NLines : x \in In(ranges) <=> InSome(x, ranges)
  <2>1. \A i \in 1..Len(ranges) : \A x \in 1..NLines :
          x \in ranges[i].start..ranges[i].end <=> (ranges[i].start <= x /\ x <= ranges[i].end)
    BY <1>3, NLinesIsNat
  <2>2. DOMAIN ranges = 1..Len(ranges)
    BY <1>3
  <2> QED
    BY <2>1, <2>2 DEF InSome
<1>5. In(ranges) \subseteq 1..NLines
  <2>1. \A i \in 1..Len(ranges) : ranges[i].start..ranges[i].end \subseteq 1..NLines
    BY <1>3, NLinesIsNat
  <2>2. DOMAIN ranges = 1..Len(ranges)
    BY <1>3
  <2> QED
    BY <2>1, <2>2
<1>6. \A l \in 1..NLines : InSome(l, ranges) <=> \E m \in lines : l \in (m - context)..(m + context)
  <2>1. \A l \in 1..NLines : InSome(l, ranges) <=> NearOne(l, lines, NLines, context)
    BY <1>1 DEF CoverUpTo
  <2>2. \A m \in lines : m <= NLines /\ m \in Int /\ m - context \in Int /\ m + context \in Int
    BY NLinesIsNat
  <2>3. \A l \in 1..NLines : \A m \in lines :
          l \in (m - context)..(m + context) <=> (m - context <= l /\ l <= m + context)
    BY <2>2, NLinesIsNat
  <2> QED
    BY <2>1, <2>2, <2>3 DEF NearOne
<1>7. In(ranges) = {l \in 1..NLines : \E m \in lines : l \in (m - context)..(m + context)}
  <2> HIDE DEF In
  <2> QED
    BY <1>4, <1>5, <1>6
<1>8. ASSUME ~(lines \subseteq In(given)) PROVE Truncated(lines, context, max)
  <2>1. lines \subseteq In(ranges)
    <3>1. \A l \in lines : l \in (l - context)..(l + context)
      BY NLinesIsNat
    <3> HIDE DEF In
    <3> QED
      BY <1>7, <3>1
  <2>2. Len(ranges) > max
    <3> SUFFICES ASSUME ~(Len(ranges) > max) PROVE FALSE
      OBVIOUS
    <3>1. given = ranges
      <4>1. (IF Len(ranges) < max THEN Len(ranges) ELSE max) = Len(ranges)
        BY <1>3
      <4>2. SubSeq(ranges, 1, Len(ranges)) = ranges
        BY <1>3
      <4> QED
        BY <1>2, <4>1, <4>2
    <3> QED
      BY <1>8, <2>1, <3>1
  <2>3. Len(ranges) <= Cardinality(lines)
    <3>1. lines \intersect 1..NLines = lines
      OBVIOUS
    <3> QED
      BY <1>1, <3>1 DEF CoverUpTo
  <2>4. Cardinality(lines) \in Nat
    BY LinesAreFinite, NLinesIsNat
  <2> QED
    BY <1>3, <2>2, <2>3, <2>4 DEF Truncated
<1>9. \A i \in 1..(Len(ranges) - 1) : ranges[i].end + 1 < ranges[i + 1].start
  BY <1>1 DEF CoverUpTo
<1> QED
  BY <1>7, <1>8, <1>9 DEF ranges, given

(***************************************************************************)
(* What the reads give.                                                    *)
(***************************************************************************)
LEMMA ReportTypes ==
  ASSUME TypeOK, NEW r \in Reports
  PROVE  /\ report[r] \in Report
         /\ report[r].state \in {"absent", "live", "deleted"} /\ report[r].week \in 1..NWeeks
         /\ report[r].content \in Texts /\ report[r].revision \in 0..MaxRevision
         /\ report[r].revision \in Nat /\ report[r].snapshots \in SUBSET (1..MaxRevision)
         /\ report[r].final \in [Audiences -> Texts]
         /\ report[r].status \in [Audiences -> {"none", "current", "stale"}]
         /\ report[r].adopted \in [Audiences -> BOOLEAN]
<1>1. report[r] \in Report
  BY DEF TypeOK
<1>2. \A n \in 0..MaxRevision : n \in Nat
  BY ShelfAssumption
<1> QED
  BY <1>1, <1>2 DEF Report

LEMMA AuthorizedFacts ==
  ASSUME TypeOK, NEW query
  PROVE  LET rows == ListAuthorizedReportVariants(report, query)
         IN  /\ rows \in SUBSET Row /\ OfDifferentReports(rows)
             /\ \A row \in rows :
                  /\ row.id \in Modern(report) /\ row.text # "none"
                  /\ row = [id |-> row.id, text |-> report[row.id].final[audience], legacy |-> FALSE]
             /\ \A r \in Reports : (\E row \in rows : row.id = r) <=>
                  /\ r \in Modern(report)
                  /\ report[r].status[audience] \in Statuses(query)
                  /\ report[r].final[audience] # "none" /\ report[r].adopted[audience]
<1> DEFINE ids == {s \in Modern(report) :
                      /\ report[s].status[audience] \in Statuses(query)
                      /\ report[s].final[audience] # "none"
                      /\ report[s].adopted[audience]}
           RowFor(r) == [id |-> r, text |-> report[r].final[audience], legacy |-> FALSE]
           rows == {RowFor(r) : r \in ids}
<1>1. ListAuthorizedReportVariants(report, query) = rows
  BY DEF ListAuthorizedReportVariants
<1>2. \A r \in ids : r \in Reports /\ RowFor(r) \in Row
  <2>1. \A r \in Reports : report[r].final[audience] \in Texts
    BY ReportTypes DEF TypeOK
  <2>2. ids \subseteq Reports
    BY DEF Modern
  <2> HIDE DEF ids
  <2> QED
    BY <2>1, <2>2 DEF Row
<1>3. \A row \in rows : row \in Row /\ row.id \in ids /\ row = RowFor(row.id)
  <2> HIDE DEF ids
  <2> QED
    BY <1>2
<1>4. \A r \in ids : RowFor(r) \in rows /\ RowFor(r).id = r
  <2> HIDE DEF ids
  <2> QED
    OBVIOUS
<1> HIDE DEF rows
<1>5. OfDifferentReports(rows)
  <2> HIDE DEF ids, RowFor
  <2> QED
    BY <1>3 DEF OfDifferentReports
<1>6. \A row \in rows :
        /\ row.id \in Modern(report) /\ row.text # "none"
        /\ row = [id |-> row.id, text |-> report[row.id].final[audience], legacy |-> FALSE]
  BY <1>3
<1>7. \A r : (\E row \in rows : row.id = r) <=> r \in ids
  <2> HIDE DEF ids, RowFor
  <2> QED
    BY <1>3, <1>4
<1>8. rows \in SUBSET Row
  <2> HIDE DEF ids, RowFor
  <2> QED
    BY <1>3
<1> QED
  BY <1>1, <1>5, <1>6, <1>7, <1>8

LEMMA LegacyFacts ==
  ASSUME TypeOK, NEW modern
  PROVE  LET rows == LegacyRows(report, modern)
         IN  /\ rows \in SUBSET Row /\ OfDifferentReports(rows)
             /\ \A row \in rows :
                  /\ row.id \notin modern /\ report[row.id].state = "live"
                  /\ row = [id |-> row.id, text |-> report[row.id].content, legacy |-> TRUE]
             /\ \A r \in Reports : (\E row \in rows : row.id = r) <=>
                  r \notin modern /\ report[r].state = "live" /\ report[r].content # "none"
<1> DEFINE ids == {s \in Reports \ modern : report[s].state = "live" /\ report[s].content # "none"}
           RowFor(r) == [id |-> r, text |-> report[r].content, legacy |-> TRUE]
           rows == {RowFor(r) : r \in ids}
<1>1. LegacyRows(report, modern) = rows
  BY DEF LegacyRows
<1>2. \A r \in ids : r \in Reports /\ RowFor(r) \in Row
  <2>1. \A r \in Reports : report[r].content \in Texts
    BY ReportTypes
  <2>2. ids \subseteq Reports
    OBVIOUS
  <2> HIDE DEF ids
  <2> QED
    BY <2>1, <2>2 DEF Row
<1>3. \A row \in rows : row \in Row /\ row.id \in ids /\ row = RowFor(row.id)
  <2> HIDE DEF ids
  <2> QED
    BY <1>2
<1>4. \A r \in ids : RowFor(r) \in rows /\ RowFor(r).id = r
  <2> HIDE DEF ids
  <2> QED
    OBVIOUS
<1> HIDE DEF rows
<1>5. OfDifferentReports(rows)
  <2> HIDE DEF ids, RowFor
  <2> QED
    BY <1>3 DEF OfDifferentReports
<1>6. \A row \in rows :
        /\ row.id \notin modern /\ report[row.id].state = "live"
        /\ row = [id |-> row.id, text |-> report[row.id].content, legacy |-> TRUE]
  BY <1>3
<1>7. \A r : (\E row \in rows : row.id = r) <=> r \in ids
  <2> HIDE DEF ids, RowFor
  <2> QED
    BY <1>3, <1>4
<1>8. rows \in SUBSET Row
  <2> HIDE DEF ids, RowFor
  <2> QED
    BY <1>3
<1> QED
  BY <1>1, <1>5, <1>6, <1>7, <1>8

\* A report a query would list, by what it has.
Matches(table, query, r) ==
  /\ r \in Reports /\ table[r].state = "live"
  /\ \/ /\ table[r].revision > 0 /\ table[r].adopted[audience]
        /\ table[r].status[audience] \in Statuses(query) /\ table[r].final[audience] # "none"
     \/ query.legacy /\ ~(table[r].revision > 0) /\ table[r].content # "none"

LEMMA MatchingIs ==
  ASSUME NEW table, NEW query, NEW r
  PROVE  r \in Matching(table, query) <=> Matches(table, query, r)
<1> DEFINE ids == {s \in Modern(table) :
                      /\ table[s].status[audience] \in Statuses(query)
                      /\ table[s].final[audience] # "none"
                      /\ table[s].adopted[audience]}
           legacy == {s \in Reports \ Modern(table) : table[s].state = "live" /\ table[s].content # "none"}
           A == ListAuthorizedReportVariants(table, query)
           L == LegacyRows(table, Modern(table))
<1>1. (\E row \in A : row.id = r) <=> r \in ids
  <2> DEFINE RowFor(s) == [id |-> s, text |-> table[s].final[audience], legacy |-> FALSE]
  <2>1. A = {RowFor(s) : s \in ids}
    BY DEF ListAuthorizedReportVariants
  <2>2. \A s : RowFor(s).id = s
    OBVIOUS
  <2> HIDE DEF A, ids, RowFor
  <2> QED
    BY <2>1, <2>2
<1>2. (\E row \in L : row.id = r) <=> r \in legacy
  <2> DEFINE RowFor(s) == [id |-> s, text |-> table[s].content, legacy |-> TRUE]
  <2>1. L = {RowFor(s) : s \in legacy}
    BY DEF LegacyRows
  <2>2. \A s : RowFor(s).id = s
    OBVIOUS
  <2> HIDE DEF L, legacy, RowFor
  <2> QED
    BY <2>1, <2>2
<1>3. Matching(table, query) = {row.id : row \in A \union (IF query.legacy THEN L ELSE {})}
  BY DEF Matching
<1> HIDE DEF A, L
<1>4. r \in Matching(table, query) <=>
        (\E row \in A : row.id = r) \/ (query.legacy /\ \E row \in L : row.id = r)
  BY <1>3
<1>5. r \in ids <=> /\ r \in Reports /\ table[r].state = "live" /\ table[r].revision > 0
                    /\ table[r].status[audience] \in Statuses(query)
                    /\ table[r].final[audience] # "none" /\ table[r].adopted[audience]
  BY DEF Modern
<1>6. r \in legacy <=> /\ r \in Reports /\ ~(table[r].state = "live" /\ table[r].revision > 0)
                       /\ table[r].state = "live" /\ table[r].content # "none"
  BY DEF Modern
<1> HIDE DEF ids, legacy
<1> QED
  BY <1>1, <1>2, <1>4, <1>5, <1>6 DEF Matches

LEMMA VariantFacts ==
  ASSUME TypeOK, ReportsFit, NEW r \in Reports
  PROVE  LET variant == VariantOf(report, r)
         IN  /\ variant \in Variant
             /\ variant = NoVariant <=> r \notin Modern(report)
             /\ variant.final \in {"none", audience}
             /\ variant # NoVariant => /\ variant.revision \in report[r].snapshots
                                       /\ variant.revision = report[r].revision
                                       /\ variant.status = report[r].status[audience]
                                       /\ variant.final = report[r].final[audience]
<1>1. /\ report[r].revision \in 0..MaxRevision /\ report[r].revision \in Nat
      /\ report[r].status[audience] \in {"none", "current", "stale"}
      /\ report[r].final[audience] \in Texts /\ audience \in Audiences
  BY ReportTypes DEF TypeOK
<1>2. report[r].final[audience] \in {"none", audience} /\ 1..report[r].revision \subseteq report[r].snapshots
  BY <1>1 DEF ReportsFit
<1>3. 0 \in 0..MaxRevision
  BY ShelfAssumption
<1>4. CASE r \in Modern(report)
  <2>1. VariantOf(report, r) = [revision |-> report[r].revision, status |-> report[r].status[audience],
                                final |-> report[r].final[audience]]
    BY <1>4 DEF VariantOf
  <2>2. report[r].revision > 0
    BY <1>4 DEF Modern
  <2>3. report[r].revision \in report[r].snapshots
    BY <1>1, <1>2, <2>2
  <2> QED
    BY <1>1, <1>2, <1>4, <2>1, <2>2, <2>3 DEF Variant, NoVariant
<1>5. CASE r \notin Modern(report)
  BY <1>3, <1>5 DEF VariantOf, NoVariant, Variant, Texts
<1> QED
  BY <1>4, <1>5

LEMMA NoVariantFacts == NoVariant \in Variant /\ NoVariant.final = "none"
BY ShelfAssumption DEF NoVariant, Variant, Texts

LEMMA QueryFacts ==
  /\ FirstPage \in ListQuery /\ FirstPage.cursor = NoCursor /\ ListQuery \subseteq Query
  /\ ContentQuery \subseteq Query /\ Own \in Reports
  /\ \A query \in ListQuery :
       /\ NormalizeFilters(query) \in ListQuery
       /\ query.relation = "overlap" => NormalizeFilters(query) = query
       /\ query.relation # "overlap" => NormalizeFilters(query).relation # "overlap"
<1>1. Own \in Reports
  BY ShelfAssumption DEF Own, Reports
<1>2. FirstPage \in ListQuery /\ FirstPage.cursor = NoCursor
  BY DEF FirstPage, ListQuery
<1>3. [FirstPage EXCEPT !.relation = "previous_adjacent"] \in ListQuery
  BY DEF FirstPage, ListQuery
<1>4. \A query \in ListQuery : query.relation \in {"overlap", "previous_adjacent"}
  BY DEF ListQuery
<1>5. [FirstPage EXCEPT !.relation = "previous_adjacent"].relation # "overlap"
  BY DEF FirstPage
<1> QED
  BY <1>1, <1>2, <1>3, <1>4, <1>5 DEF NormalizeFilters, Query

LEMMA IdleFits ==
  ASSUME NEW q \in Readers
  PROVE  Idle \in Hold /\ HeldFits(q, Idle) /\ Idle.op = "idle" /\ Idle.items = <<>>
<1>1. Idle \in Hold
  BY QueryFacts, NoVariantFacts DEF Idle, Hold, Ops, Tools
<1>2. Idle.op = "idle" /\ Idle.items = <<>> /\ Idle.previous = 0 /\ Idle.tool = "list" /\ Idle.query = FirstPage
  BY DEF Idle
<1>3. AtItsTool(q, Idle)
  BY <1>2, QueryFacts DEF AtItsTool, QueriesOf, ListOps, ContentOps, PageOps, Ops
<1> QED
  BY <1>1, <1>2, <1>3 DEF HeldFits, FollowsItsTool, LeadershipHeld, RowsReadOnce, PageFits, PageOps

LEMMA OneElement == ASSUME NEW x PROVE ToSet(<<x>>) = {x} /\ ToSet(<<>>) = {}
<1> DEFINE s == <<x>>
<1>1. DOMAIN s = {1} /\ s[1] = x
  OBVIOUS
<1> HIDE DEF s
<1>2. ToSet(s) = {x}
  BY <1>1 DEF ToSet
<1> QED
  BY <1>2 DEF s, ToSet

\* The tools agree because a final has a status, and a report without variants
\* a text.
LEMMA Agreement == TypeOK /\ ReportsFit => ToolsAgree
<1> SUFFICES ASSUME TypeOK, ReportsFit, NEW stale \in BOOLEAN, NEW legacy \in BOOLEAN,
                    NEW r \in Reports, legacy => ReadsLegacy, r \in Live
             PROVE  ToolsAgreeOn(stale, legacy, r)
  BY DEF ToolsAgree
<1> DEFINE query == [FirstPage EXCEPT !.stale = stale, !.legacy = legacy]
           A == ListAuthorizedReportVariants(report, query)
           L == LegacyRows(report, Modern(report))
           listed == {row \in A \union (IF legacy THEN L ELSE {}) : row.id = r}
           row0 == [id |-> r, text |-> report[r].content, legacy |-> FALSE]
           content == ContentOf(row0, VariantOf(report, r), r \notin Modern(report), query)
           variant == VariantOf(report, r)
<1>1. query.stale = stale /\ query.legacy = legacy
  BY DEF FirstPage
<1> HIDE DEF query
<1>2. /\ \A row \in A : /\ row.id \in Modern(report) /\ row.text # "none"
                        /\ row = [id |-> row.id, text |-> report[row.id].final[audience], legacy |-> FALSE]
      /\ (\E row \in A : row.id = r) <=>
           /\ r \in Modern(report)
           /\ report[r].status[audience] \in Statuses(query)
           /\ report[r].final[audience] # "none" /\ report[r].adopted[audience]
  BY AuthorizedFacts
<1>3. /\ \A row \in L : /\ row.id \notin Modern(report)
                        /\ row = [id |-> row.id, text |-> report[row.id].content, legacy |-> TRUE]
      /\ (\E row \in L : row.id = r) <=>
           r \notin Modern(report) /\ report[r].state = "live" /\ report[r].content # "none"
  BY LegacyFacts
<1>4. /\ variant = NoVariant <=> r \notin Modern(report)
      /\ variant # NoVariant => /\ variant.status = report[r].status[audience]
                                /\ variant.final = report[r].final[audience]
  BY VariantFacts
<1>5. /\ report[r].content # "none" /\ report[r].state = "live"
      /\ report[r].final[audience] = "none" <=> report[r].status[audience] = "none"
      /\ report[r].status[audience] \in {"none", "current", "stale"}
  BY ReportTypes DEF ReportsFit, Live, TypeOK
<1> HIDE DEF A, L, variant
<1> SUFFICES listed = ToSet(content) \/ (listed = {} /\ r \in Modern(report) /\ ~report[r].adopted[audience])
  BY DEF ToolsAgreeOn, A, L, query, variant
<1>6. CASE r \in Modern(report)
  <2> DEFINE theRow == [id |-> r, text |-> report[r].final[audience], legacy |-> FALSE]
  <2>1. \A row \in listed : row \in A /\ row = theRow
    BY <1>2, <1>3, <1>6
  <2>2. CASE report[r].adopted[audience]
    <3>1. Readable(variant, query) <=>
            report[r].status[audience] \in Statuses(query) /\ report[r].final[audience] # "none"
      BY <1>1, <1>4, <1>5, <1>6 DEF Readable, Statuses
    <3>2. CASE Readable(variant, query)
      <4>1. theRow \in listed
        BY <1>2, <1>6, <2>2, <3>1, <3>2
      <4>2. content = <<theRow>>
        BY <1>4, <1>6, <3>2 DEF ContentOf, variant
      <4>3. ToSet(content) = {theRow}
        BY <4>2, OneElement
      <4> QED
        BY <2>1, <4>1, <4>3
    <3>3. CASE ~Readable(variant, query)
      <4>1. listed = {}
        BY <1>2, <2>1, <3>1, <3>3
      <4>2. content = <<>>
        BY <1>4, <1>6, <3>3 DEF ContentOf, variant
      <4>3. ToSet(content) = {}
        BY <4>2, OneElement
      <4> QED
        BY <4>1, <4>3
    <3> QED
      BY <3>2, <3>3
  <2>3. CASE ~report[r].adopted[audience]
    <3>1. listed = {}
      BY <1>2, <2>1, <2>3
    <3> QED
      BY <1>6, <2>3, <3>1
  <2> QED
    BY <2>2, <2>3
<1>7. CASE r \notin Modern(report)
  <2> DEFINE theRow == [id |-> r, text |-> report[r].content, legacy |-> TRUE]
  <2>1. \A row \in listed : legacy /\ row \in L /\ row = theRow
    BY <1>2, <1>3, <1>7
  <2>2. CASE legacy
    <3>1. theRow \in listed
      BY <1>3, <1>5, <1>7, <2>2
    <3>2. content = <<theRow>>
      BY <1>1, <1>4, <1>7, <2>2 DEF ContentOf, variant
    <3>3. ToSet(content) = {theRow}
      BY <3>2, OneElement
    <3> QED
      BY <2>1, <3>1, <3>3
  <2>3. CASE ~legacy
    <3>1. listed = {}
      BY <2>1, <2>3
    <3>2. content = <<>>
      BY <1>1, <1>4, <1>7, <2>3 DEF ContentOf, variant
    <3>3. ToSet(content) = {}
      BY <3>2, OneElement
    <3> QED
      BY <3>1, <3>3
  <2> QED
    BY <2>2, <2>3
<1> QED
  BY <1>6, <1>7

LEMMA Bundles == ReadersFit => BundleHasItsSnapshots
<1> SUFFICES ASSUME ReadersFit, At("browser", "bundle"), Held("browser").variant # NoVariant,
                    NEW row \in Held("browser").rows
             PROVE  ListReportSnapshots(row.id, Held("browser").variant.revision) # {}
  BY DEF BundleHasItsSnapshots
<1>1. PageFits(reader["browser"])
  BY DEF ReadersFit, HeldFits, Readers
<1> QED
  BY <1>1 DEF PageFits, At, Held, ListReportSnapshots

LEMMA InitialReports ==
  ASSUME NEW w \in 1..NWeeks
  PROVE  /\ {NoReport, LegacyReport(w), NewReport(w), AdoptedReport(w)} \subseteq Report
         /\ NewReport(w).state = "live" /\ NewReport(w).week = w /\ NewReport(w).revision = 1
<1>1. ForBoth("none") \in [Audiences -> Texts] /\ ForBoth("none") \in [Audiences -> {"none", "current", "stale"}]
      /\ ForBoth("current") \in [Audiences -> {"none", "current", "stale"}]
      /\ ForBoth(FALSE) \in [Audiences -> BOOLEAN] /\ ForBoth(TRUE) \in [Audiences -> BOOLEAN]
  BY DEF ForBoth, Texts
<1>2. [a \in Audiences |-> a] \in [Audiences -> Texts]
  BY DEF Texts
<1>3. 0 \in 0..MaxRevision /\ 1 \in 0..MaxRevision /\ 1 \in 1..MaxRevision /\ 1 \in 1..NWeeks
  BY ShelfAssumption
<1>4. {"none", "draft", "legacy", "personal"} \subseteq Texts
  BY DEF Texts, Audiences
<1>5. \A v \in 1..NWeeks : LegacyReport(v) \in Report
  BY <1>1, <1>3, <1>4 DEF LegacyReport, Report
<1>6. NoReport \in Report
  BY <1>1, <1>3, <1>4 DEF NoReport, LegacyReport, Report
<1>7. NewReport(w) \in Report
  <2>1. LegacyReport(w) \in Report
    BY <1>5
  <2> QED
    BY <1>3, <1>4, <2>1 DEF NewReport, Report
<1>8. NewReport(w).state = "live" /\ NewReport(w).week = w /\ NewReport(w).revision = 1
  BY DEF NewReport, LegacyReport
<1>9. AdoptedReport(w) \in Report
  BY <1>1, <1>2, <1>4, <1>7 DEF AdoptedReport, Report
<1> QED
  BY <1>5, <1>6, <1>7, <1>8, <1>9

\* The texts of a report fit its variants.
Fits(x) ==
  /\ x.content # "none"
  /\ \A a \in Audiences :
       /\ x.final[a] \in {"none", a}
       /\ x.final[a] = "none" <=> x.status[a] = "none"
       /\ x.revision = 0 => x.final[a] = "none"
  /\ 1..x.revision \subseteq x.snapshots
  /\ x.revision > 0 /\ x.final["personal"] = "none" => x.content = "draft"

LEMMA InitialFits ==
  ASSUME NEW w \in 1..NWeeks
  PROVE  Fits(NoReport) /\ Fits(LegacyReport(w)) /\ Fits(NewReport(w)) /\ Fits(AdoptedReport(w))
<1>1. "personal" \in Audiences /\ \A a \in Audiences : a # "none"
  BY DEF Audiences
<1>2. Fits(NoReport)
  BY DEF Fits, NoReport, LegacyReport, ForBoth
<1>3. Fits(LegacyReport(w))
  BY DEF Fits, LegacyReport, ForBoth
<1>4. Fits(NewReport(w))
  BY DEF Fits, NewReport, LegacyReport, ForBoth
<1>5. Fits(AdoptedReport(w))
  <2>1. /\ AdoptedReport(w).content = "personal" /\ AdoptedReport(w).revision = 1
        /\ AdoptedReport(w).snapshots = {1} /\ AdoptedReport(w).final = [a \in Audiences |-> a]
        /\ AdoptedReport(w).status = ForBoth("current")
    BY DEF AdoptedReport, NewReport, LegacyReport
  <2> QED
    BY <1>1, <2>1 DEF Fits, ForBoth
<1> QED
  BY <1>2, <1>3, <1>4, <1>5

LEMMA InitHolds == Init => IndInv
<1> SUFFICES ASSUME Init PROVE IndInv
  OBVIOUS
<1>1. \A r \in Reports : report[r] \in Report /\ Fits(report[r])
  <2> TAKE r \in Reports
  <2>1. \/ report[r] = NoReport
        \/ \E w \in 1..NWeeks : report[r] = LegacyReport(w) \/ report[r] = AdoptedReport(w)
    BY DEF Init
  <2>2. 1 \in 1..NWeeks
    BY ShelfAssumption
  <2> QED
    BY <2>1, <2>2, InitialReports, InitialFits
<1>2. TypeOK
  <2>1. report \in [Reports -> Report]
    BY <1>1 DEF Init
  <2>2. chain \in Chain
    BY QueryFacts DEF Init, Chain
  <2>3. reader \in [Readers -> Hold]
    BY IdleFits DEF Init
  <2>4. snapshot \in Seq(Snapshot)
    BY DEF Init
  <2>5. writes \in 0..MaxOperations /\ calls \in 0..MaxOperations
    BY ShelfAssumption DEF Init
  <2> QED
    BY <2>1, <2>2, <2>3, <2>4, <2>5 DEF Init, TypeOK
<1>3. ReportsFit
  BY <1>1 DEF ReportsFit, Fits
<1>4. SnapshotsFit /\ SnapshotsKeepTheirTool
  BY DEF Init, SnapshotsFit, SnapshotsKeepTheirTool
<1>5. ReadersFit
  BY IdleFits DEF Init, ReadersFit
<1>6. WithinBudget /\ BudgetHolds
  BY ShelfAssumption DEF Init, WithinBudget, BudgetHolds
<1>7. PagesDescend
  <2>1. chain.listed = <<>> /\ chain.query.cursor = NoCursor
    BY QueryFacts DEF Init
  <2> QED
    BY <2>1 DEF PagesDescend
<1>8. SteadyIsAhead
  BY DEF Init, SteadyIsAhead
<1>9. TurnFollowsChain(Held("turn"))
  <2>1. Held("turn") = Idle
    BY DEF Init, Held, Readers
  <2> QED
    BY <2>1, IdleFits DEF TurnFollowsChain, ListOps, Readers
<1> QED
  BY <1>2, <1>3, <1>4, <1>5, <1>6, <1>7, <1>8, <1>9 DEF IndInv

(***************************************************************************)
(* Writes of reports.                                                      *)
(***************************************************************************)
\* What a write leaves of a report that there is: its week and its snapshots,
\* its text as long as it gets no variants, and no finals when it gets them.
Keeps(x, y) ==
  x.state # "absent" =>
    /\ y.state # "absent" /\ y.week = x.week /\ y.revision >= x.revision
    /\ x.snapshots \subseteq y.snapshots
    /\ y.state = "live" => x.state = "live"
    /\ y.revision = 0 => y.content = x.content
    /\ x.revision = 0 /\ y.revision > 0 => \A a \in Audiences : y.final[a] = "none"

LEMMA NothingChanges == ASSUME NEW x \in Report PROVE Keeps(x, x)
<1>1. x.revision \in 0..MaxRevision /\ \A n \in 0..MaxRevision : n \in Nat
  BY ShelfAssumption DEF Report
<1> QED
  BY <1>1 DEF Keeps

LEMMA FitsAll == ASSUME ReportsFit, NEW r \in Reports PROVE Fits(report[r])
BY DEF ReportsFit, Fits

\* A write changes one report.
WritesOne(r, y) ==
  /\ r \in Reports /\ y \in Report /\ Fits(y) /\ Keeps(report[r], y)
  /\ report' = [report EXCEPT ![r] = y]

LEMMA Created ==
  ASSUME TypeOK, ReportsFit, NEW w \in 1..NWeeks, CreateReport(w)
  PROVE  \E r, y : WritesOne(r, y)
<1>1. PICK r \in Reports : report[r].state = "absent" /\ report' = [report EXCEPT ![r] = NewReport(w)]
  BY DEF CreateReport, Write
<1>2. WritesOne(r, NewReport(w))
  BY <1>1, InitialReports, InitialFits DEF WritesOne, Keeps
<1> QED
  BY <1>2

LEMMA Regenerated ==
  ASSUME TypeOK, ReportsFit, NEW r \in Reports, RegenerateSourceDrafts(r)
  PROVE  \E y : WritesOne(r, y)
<1> DEFINE x == report[r]
           marks == [a \in Audiences |-> IF x.final[a] = "none" THEN "none" ELSE "stale"]
           y == [x EXCEPT !.content = "draft", !.revision = x.revision + 1,
                          !.snapshots = x.snapshots \union {x.revision + 1}, !.status = marks]
<1>1. report' = [report EXCEPT ![r] = y]
  <2>1. report \in [Reports -> Report]
    BY DEF TypeOK
  <2> QED
    BY <2>1 DEF RegenerateSourceDrafts, Write, InsertReportSnapshot
<1>2. /\ x \in Report /\ Fits(x) /\ x.revision \in Nat /\ x.snapshots \in SUBSET (1..MaxRevision)
      /\ x.final \in [Audiences -> Texts] /\ x.state = "live" /\ x.revision < MaxRevision
  BY ReportTypes, FitsAll DEF RegenerateSourceDrafts, Live
<1> HIDE DEF x
<1>3. /\ y.state = x.state /\ y.week = x.week /\ y.content = "draft" /\ y.revision = x.revision + 1
      /\ y.snapshots = x.snapshots \union {x.revision + 1} /\ y.final = x.final /\ y.status = marks
      /\ y.adopted = x.adopted
  BY <1>2 DEF Report
<1>4. x.revision + 1 \in 1..MaxRevision /\ x.revision + 1 \in 0..MaxRevision
  BY <1>2, ShelfAssumption
<1>5. marks \in [Audiences -> {"none", "current", "stale"}] /\ "draft" \in Texts
  BY DEF Texts
<1>6. y \in Report
  BY <1>2, <1>4, <1>5 DEF Report
<1> HIDE DEF y, marks
<1>7. Fits(y)
  <2>1. 1..(x.revision + 1) \subseteq x.snapshots \union {x.revision + 1}
    BY <1>2 DEF Fits
  <2>2. ASSUME NEW a \in Audiences
        PROVE  /\ y.final[a] \in {"none", a} /\ (y.final[a] = "none" <=> y.status[a] = "none")
               /\ ~(y.revision = 0)
    BY <1>2, <1>3 DEF Fits, marks
  <2>3. y.content # "none" /\ (y.revision > 0 /\ y.final["personal"] = "none" => y.content = "draft")
    BY <1>3
  <2>4. 1..y.revision \subseteq y.snapshots
    BY <1>3, <2>1
  <2> QED
    BY <2>2, <2>3, <2>4 DEF Fits
<1>8. Keeps(x, y)
  <2>1. x.revision = 0 => \A a \in Audiences : y.final[a] = "none"
    BY <1>2, <1>3 DEF Fits
  <2>2. y.revision # 0 /\ y.revision >= x.revision
    BY <1>2, <1>3
  <2> QED
    BY <1>2, <1>3, <2>1, <2>2 DEF Keeps
<1> QED
  BY <1>1, <1>6, <1>7, <1>8 DEF WritesOne, x

LEMMA FinalSet ==
  ASSUME TypeOK, ReportsFit, NEW r \in Reports, NEW a \in Audiences, NEW adopts \in BOOLEAN,
         SetFinal(r, a, adopts)
  PROVE  \E y : WritesOne(r, y)
<1> DEFINE x == report[r]
           y == [x EXCEPT !.final = [x.final EXCEPT ![a] = a], !.status = [x.status EXCEPT ![a] = "current"],
                          !.adopted = [x.adopted EXCEPT ![a] = x.adopted[a] \/ adopts],
                          !.content = IF a = "personal" THEN a ELSE x.content]
<1>1. report' = [report EXCEPT ![r] = y]
  <2>1. report \in [Reports -> Report]
    BY DEF TypeOK
  <2>2. report' = [report EXCEPT
       ![r].final[a] = a, ![r].status[a] = "current", ![r].adopted[a] = @ \/ adopts,
       ![r].content = IF a = "personal" THEN a ELSE @]
    BY DEF SetFinal, Write
  <2> QED
    BY ZenonT(40), <2>1, <2>2
<1>2. /\ x \in Report /\ Fits(x) /\ x.revision \in Nat /\ x.content \in Texts
      /\ x.final \in [Audiences -> Texts] /\ x.status \in [Audiences -> {"none", "current", "stale"}]
      /\ x.adopted \in [Audiences -> BOOLEAN] /\ x.state = "live" /\ x.revision > 0
  BY ReportTypes, FitsAll DEF SetFinal, Modern
<1> HIDE DEF x
<1>3. /\ y.state = x.state /\ y.week = x.week /\ y.revision = x.revision
      /\ y.snapshots = x.snapshots /\ y.final = [x.final EXCEPT ![a] = a]
      /\ y.status = [x.status EXCEPT ![a] = "current"]
      /\ y.content = IF a = "personal" THEN a ELSE x.content
  BY <1>2 DEF Report
<1>4. /\ [x.final EXCEPT ![a] = a] \in [Audiences -> Texts]
      /\ [x.status EXCEPT ![a] = "current"] \in [Audiences -> {"none", "current", "stale"}]
      /\ [x.adopted EXCEPT ![a] = x.adopted[a] \/ adopts] \in [Audiences -> BOOLEAN]
      /\ (IF a = "personal" THEN a ELSE x.content) \in Texts
  BY <1>2 DEF Texts
<1>5. y \in Report
  <2> DEFINE f == [x.final EXCEPT ![a] = a]
             s == [x.status EXCEPT ![a] = "current"]
             d == [x.adopted EXCEPT ![a] = x.adopted[a] \/ adopts]
             c == IF a = "personal" THEN a ELSE x.content
  <2> HIDE DEF f, s, d, c
  <2>1. [x EXCEPT !.final = f, !.status = s, !.adopted = d, !.content = c] \in Report
    BY <1>2, <1>4 DEF Report, f, s, d, c
  <2> QED
    BY <2>1 DEF f, s, d, c
<1> HIDE DEF y
<1>6. a # "none" /\ \A b \in Audiences :
        /\ y.final[b] = IF b = a THEN a ELSE x.final[b]
        /\ y.status[b] = IF b = a THEN "current" ELSE x.status[b]
  BY <1>2, <1>3 DEF Audiences
<1>7. Fits(y)
  <2>1. ASSUME NEW b \in Audiences
        PROVE  /\ y.final[b] \in {"none", b} /\ (y.final[b] = "none" <=> y.status[b] = "none")
               /\ ~(y.revision = 0)
    BY <1>2, <1>3, <1>6 DEF Fits
  <2>2. y.content # "none"
    BY <1>2, <1>3, <1>6 DEF Fits
  <2>3. y.final["personal"] = "none" => y.content = "draft"
    <3>1. "personal" \in Audiences
      BY DEF Audiences
    <3> QED
      BY <1>2, <1>3, <1>6, <3>1 DEF Fits
  <2>4. 1..y.revision \subseteq y.snapshots
    BY <1>2, <1>3 DEF Fits
  <2> QED
    BY <2>1, <2>2, <2>3, <2>4 DEF Fits
<1>8. Keeps(x, y)
  BY <1>2, <1>3 DEF Keeps
<1> QED
  BY <1>1, <1>5, <1>7, <1>8 DEF WritesOne, x

LEMMA Deleted ==
  ASSUME TypeOK, ReportsFit, NEW r \in Reports, DeleteReport(r)
  PROVE  \E y : WritesOne(r, y)
<1> DEFINE x == report[r]
           y == [x EXCEPT !.state = "deleted"]
<1>1. report' = [report EXCEPT ![r] = y]
  <2>1. report \in [Reports -> Report]
    BY DEF TypeOK
  <2> QED
    BY <2>1 DEF DeleteReport, Write
<1>2. /\ x \in Report /\ Fits(x) /\ x.revision \in Nat /\ x.state = "live"
      /\ \A a \in Audiences : x.revision = 0 => x.final[a] = "none"
  BY ReportTypes, FitsAll DEF DeleteReport, Live, Fits
<1> HIDE DEF x
<1>3. /\ y.state = "deleted" /\ y.week = x.week /\ y.revision = x.revision /\ y.content = x.content
      /\ y.snapshots = x.snapshots /\ y.final = x.final /\ y.status = x.status
  BY <1>2 DEF Report
<1>4. y \in Report
  BY <1>2 DEF Report
<1> HIDE DEF y
<1>5. Fits(y)
  BY <1>2, <1>3 DEF Fits
<1>6. Keeps(x, y)
  BY <1>2, <1>3 DEF Keeps
<1> QED
  BY <1>1, <1>4, <1>5, <1>6 DEF WritesOne, x

\* What holds of a write, whichever it is.
LEMMA WriteFacts ==
  ASSUME TypeOK, ReportsFit, Writes
  PROVE  /\ report' \in [Reports -> Report]
         /\ \A r \in Reports : Fits(report'[r]) /\ Keeps(report[r], report'[r])
         /\ chain' = [chain EXCEPT !.steady = @ \intersect Matching(report', chain.query)]
         /\ UNCHANGED <<audience, budget, ran, snapshot, reader>>
<1>1. /\ \E r, y : WritesOne(r, y)
      /\ chain' = [chain EXCEPT !.steady = @ \intersect Matching(report', chain.query)]
      /\ UNCHANGED <<audience, budget, ran, snapshot, reader>>
  <2>1. CASE \E w \in 1..NWeeks : CreateReport(w)
    BY <2>1, Created DEF CreateReport, Write
  <2>2. CASE \E r \in Reports : RegenerateSourceDrafts(r)
    BY <2>2, Regenerated DEF RegenerateSourceDrafts, Write
  <2>3. CASE \E r \in Reports : DeleteReport(r)
    BY <2>3, Deleted DEF DeleteReport, Write
  <2>4. CASE \E r \in Reports, a \in Audiences, adopts \in BOOLEAN : SetFinal(r, a, adopts)
    <3>1. PICK r \in Reports, a \in Audiences, adopts \in BOOLEAN : SetFinal(r, a, adopts)
      BY <2>4
    <3>2. \E y : WritesOne(r, y)
      BY <3>1, FinalSet
    <3> QED
      BY <3>1, <3>2 DEF SetFinal, Write
  <2> QED
    BY <2>1, <2>2, <2>3, <2>4 DEF Writes
<1>2. PICK r, y : WritesOne(r, y)
  BY <1>1
<1>3. report \in [Reports -> Report]
  BY DEF TypeOK
<1>4. report' \in [Reports -> Report] /\ report'[r] = y /\ \A s \in Reports : s # r => report'[s] = report[s]
  BY <1>2, <1>3 DEF WritesOne
<1>5. \A s \in Reports : Fits(report'[s]) /\ Keeps(report[s], report'[s])
  <2> TAKE s \in Reports
  <2>1. report[s] \in Report
    BY <1>3
  <2>2. CASE s = r
    BY <1>2, <1>4, <2>2 DEF WritesOne
  <2>3. CASE s # r
    BY <1>4, <2>1, <2>3, FitsAll, NothingChanges
  <2> QED
    BY <2>2, <2>3
<1> QED
  BY <1>1, <1>4, <1>5

LEMMA RowIds == ASSUME NEW rows \in SUBSET Row, NEW row \in rows PROVE row.id \in Reports
BY DEF Row

LEMMA HeldTypes ==
  ASSUME TypeOK, NEW q \in Readers
  PROVE  /\ reader[q] \in Hold /\ reader[q].op \in Ops /\ reader[q].tool \in Tools
         /\ reader[q].query \in Query /\ reader[q].rows \in SUBSET Row /\ reader[q].modern \in SUBSET Reports
         /\ reader[q].variant \in Variant /\ reader[q].items \in Seq(Row) /\ reader[q].previous \in Nat
<1>1. reader[q] \in Hold
  BY DEF TypeOK
<1> QED
  BY <1>1 DEF Hold

LEMMA ChainTypes ==
  ASSUME TypeOK
  PROVE  /\ chain.query \in ListQuery /\ chain.listed \in Seq(Reports) /\ chain.steady \in SUBSET Reports
         /\ chain.state \in {"none", "open", "done"} /\ chain.query.cursor \in Cursors
         /\ chain.query.relation \in {"overlap", "previous_adjacent"}
<1>1. chain \in Chain
  BY DEF TypeOK
<1>2. chain.query \in ListQuery
  BY <1>1 DEF Chain
<1> QED
  BY <1>1, <1>2 DEF Chain, ListQuery, Cursors

\* What is held goes on fitting when reports are written.
LEMMA WritesKeepHeld ==
  ASSUME IndInv, Writes, NEW q \in Readers
  PROVE  HeldFits(q, reader[q])'
<1> DEFINE held == reader[q]
<1>1. /\ \A r \in Reports : Keeps(report[r], report'[r])
      /\ reader' = reader /\ snapshot' = snapshot /\ audience' = audience
  BY WriteFacts DEF IndInv
<1>2. HeldFits(q, held)
  BY DEF IndInv, ReadersFit
<1>3. held.rows \in SUBSET Row /\ \A row \in held.rows : row.id \in Reports
  <2>1. held.rows \in SUBSET Row
    BY HeldTypes DEF IndInv
  <2> HIDE DEF held
  <2> QED
    BY <2>1, RowIds
<1>4. \A r \in Reports : report[r].revision \in Nat /\ report'[r].revision \in Nat
  <2>1. report' \in [Reports -> Report]
    BY WriteFacts DEF IndInv
  <2>2. \A r \in Reports : report'[r].revision \in 0..MaxRevision /\ report[r].revision \in Nat
    BY <2>1, ReportTypes DEF Report, IndInv
  <2> QED
    BY <2>2, ShelfAssumption
<1>5. AtItsTool(q, held)' /\ FollowsItsTool(held)' /\ LeadershipHeld(held)'
  BY <1>1, <1>2 DEF HeldFits, AtItsTool, FollowsItsTool, LeadershipHeld, OnlyLeadership, Ops
<1>6. RowsReadOnce(held)'
  <2> SUFFICES ASSUME held.op \in {"modern", "legacy"}
               PROVE  /\ \A x, y \in held.rows : x.id = y.id => x = y
                      /\ \A x \in held.rows :
                           /\ report'[x.id].state # "absent" /\ report'[x.id].revision > 0
                           /\ held.op = "legacy" => x.id \in held.modern \/ report'[x.id].state = "deleted"
    BY <1>1 DEF RowsReadOnce
  <2>1. /\ \A x, y \in held.rows : x.id = y.id => x = y
        /\ \A x \in held.rows :
             /\ report[x.id].state # "absent" /\ report[x.id].revision > 0
             /\ held.op = "legacy" => x.id \in held.modern \/ report[x.id].state = "deleted"
    BY <1>2 DEF HeldFits, RowsReadOnce
  <2>2. ASSUME NEW x \in held.rows
        PROVE  /\ report'[x.id].state # "absent" /\ report'[x.id].revision > 0
               /\ held.op = "legacy" => x.id \in held.modern \/ report'[x.id].state = "deleted"
    <3>1. x.id \in Reports
      BY <1>3
    <3>2. /\ report'[x.id].state # "absent" /\ report'[x.id].revision >= report[x.id].revision
          /\ report'[x.id].state = "live" => report[x.id].state = "live"
      BY <1>1, <2>1, <3>1 DEF Keeps
    <3>3. report'[x.id].state \in {"absent", "live", "deleted"}
      BY <3>1, WriteFacts DEF IndInv, Report
    <3> QED
      BY <1>4, <2>1, <3>1, <3>2, <3>3
  <2> QED
    BY <2>1, <2>2
<1>7. PageFits(held)'
  <2>1. /\ held.op \in PageOps => \A row \in held.rows : report[row.id].state # "absent"
        /\ held.op \in {"listed", "got"} => \A row \in held.rows :
             report[row.id].revision = 0 => row.text = report[row.id].content
        /\ held.op = "got" => \E r \in Reports : {row.id : row \in held.rows} = {r}
        /\ held.op = "bundle" /\ held.variant # NoVariant =>
             \A row \in held.rows : held.variant.revision \in report[row.id].snapshots
    BY <1>2 DEF HeldFits, PageFits
  <2>2. ASSUME held.op \in PageOps, NEW row \in held.rows
        PROVE  /\ report'[row.id].state # "absent"
               /\ report'[row.id].revision = 0 =>
                    report[row.id].revision = 0 /\ report'[row.id].content = report[row.id].content
               /\ report[row.id].snapshots \subseteq report'[row.id].snapshots
    <3>1. row.id \in Reports /\ report[row.id].state # "absent"
      BY <1>3, <2>1, <2>2
    <3> QED
      BY <1>1, <1>4, <3>1 DEF Keeps
  <2>3. held.op \in {"listed", "got", "bundle"} => held.op \in PageOps
    BY DEF PageOps
  <2>4. held' = held
    BY <1>1
  <2> HIDE DEF held
  <2>5. held.op \in PageOps => \A row \in held.rows : report'[row.id].state # "absent"
    BY <2>2
  <2>6. held.op \in {"listed", "got"} => \A row \in held.rows :
             report'[row.id].revision = 0 => row.text = report'[row.id].content
    BY <2>1, <2>2, <2>3
  <2>7. held.op = "bundle" /\ held.variant # NoVariant =>
             \A row \in held.rows : held.variant.revision \in report'[row.id].snapshots
    BY <2>1, <2>2, <2>3
  <2> QED
    BY <2>1, <2>4, <2>5, <2>6, <2>7 DEF PageFits
<1> QED
  BY <1>5, <1>6, <1>7 DEF HeldFits

\* A report that goes on matching was a report with variants, or without, before.
LEMMA WritesKeepKind ==
  ASSUME IndInv, Writes, NEW r \in Reports, NEW query \in ListQuery,
         Matches(report, query, r), Matches(report', query, r)
  PROVE  r \in Modern(report) <=> r \in Modern(report')
<1>1. Keeps(report[r], report'[r]) /\ audience \in Audiences
  BY WriteFacts DEF IndInv, TypeOK
<1>2. report[r].revision \in Nat /\ report'[r].revision \in Nat
  <2>1. report' \in [Reports -> Report]
    BY WriteFacts DEF IndInv
  <2>2. report'[r].revision \in 0..MaxRevision /\ report[r].revision \in Nat
    BY <2>1, ReportTypes DEF Report, IndInv
  <2> QED
    BY <2>2, ShelfAssumption
<1>3. report[r].state = "live" /\ report'[r].state = "live"
  BY DEF Matches
<1>4. report'[r].revision >= report[r].revision
  BY <1>1, <1>3 DEF Keeps
<1>5. report'[r].revision > 0 => report'[r].final[audience] # "none"
  BY DEF Matches
<1>6. report'[r].revision > 0 => report[r].revision # 0
  BY <1>1, <1>3, <1>5 DEF Keeps
<1> QED
  BY <1>2, <1>3, <1>4, <1>6 DEF Modern

LEMMA WritesKeepChain ==
  ASSUME IndInv, Writes
  PROVE  (chain \in Chain /\ PagesDescend /\ SteadyIsAhead /\ TurnFollowsChain(Held("turn")))'
<1>1. /\ \A r \in Reports : Keeps(report[r], report'[r])
      /\ chain' = [chain EXCEPT !.steady = chain.steady \intersect Matching(report', chain.query)]
      /\ reader' = reader /\ audience' = audience
  BY WriteFacts DEF IndInv
<1>2. chain \in Chain /\ chain.query \in ListQuery /\ chain.listed \in Seq(Reports)
      /\ chain.steady \in SUBSET Reports
  BY ChainTypes DEF IndInv, TypeOK
<1>3. /\ chain'.query = chain.query /\ chain'.listed = chain.listed /\ chain'.state = chain.state
      /\ chain'.steady = chain.steady \intersect Matching(report', chain.query)
  BY <1>1, <1>2 DEF Chain
<1>4. chain' \in Chain
  BY <1>1, <1>2 DEF Chain
<1>5. \A i \in DOMAIN chain.listed : chain.listed[i] \in Reports
  BY <1>2
<1>6. \A i \in DOMAIN chain.listed :
        /\ report[chain.listed[i]].state # "absent" /\ report'[chain.listed[i]].state # "absent"
        /\ report'[chain.listed[i]].week = report[chain.listed[i]].week
  BY <1>1, <1>5 DEF Keeps, IndInv, PagesDescend
<1>7. PagesDescend'
  BY <1>3, <1>6 DEF IndInv, PagesDescend, Newer, AfterCursor
<1>8. Matching(report, chain.query)' = Matching(report', chain.query)
  BY <1>1, <1>3 DEF Matching, ListAuthorizedReportVariants, LegacyRows, Modern
<1>9. \A r \in chain'.steady : /\ r \in chain.steady /\ r \in Reports
                               /\ Matches(report, chain.query, r) /\ Matches(report', chain.query, r)
                               /\ r \in Modern(report) <=> r \in Modern(report')
                               /\ report'[r].week = report[r].week
  <2> TAKE r \in chain'.steady
  <2>1. r \in chain.steady /\ r \in Reports /\ Matches(report, chain.query, r)
        /\ Matches(report', chain.query, r)
    BY <1>2, <1>3, MatchingIs DEF IndInv, SteadyIsAhead
  <2>2. report[r].state = "live"
    BY <2>1 DEF Matches
  <2>3. report'[r].week = report[r].week
    BY <1>1, <2>1, <2>2 DEF Keeps
  <2> QED
    BY <1>2, <2>1, <2>3, WritesKeepKind
<1>10. SteadyIsAhead'
  <2>1. chain'.steady \subseteq Matching(report, chain.query)'
    BY <1>3, <1>8
  <2>2. \A r \in chain'.steady : AfterCursor(r, chain.query.cursor)' <=> AfterCursor(r, chain.query.cursor)
    BY <1>3, <1>9 DEF AfterCursor
  <2>3. chain.query.relation = "overlap" => \A r \in chain.steady :
          \/ chain.state = "none" \/ r \in ToSet(chain.listed)
          \/ chain.state = "open" /\ AfterCursor(r, chain.query.cursor)
    BY DEF IndInv, SteadyIsAhead
  <2>4. (chain.query.relation = "overlap" => \A r \in chain.steady :
          \/ chain.state = "none" \/ r \in ToSet(chain.listed)
          \/ chain.state = "open" /\ AfterCursor(r, chain.query.cursor))'
    BY <1>3, <1>9, <2>2, <2>3
  <2> QED
    BY <2>1, <2>4 DEF SteadyIsAhead
<1>11. TurnFollowsChain(Held("turn"))'
  <2> DEFINE held == reader["turn"]
  <2>1. Held("turn")' = held
    BY <1>1 DEF Held
  <2>2. TurnFollowsChain(held)
    BY DEF IndInv, Held
  <2> HIDE DEF held
  <2>3. held.op \in ListOps => chain'.state = "open" /\ held.query = chain'.query
    BY <1>3, <2>2 DEF TurnFollowsChain
  <2>4. held.op \in {"modern", "legacy"} =>
          chain'.steady \intersect Modern(report') \subseteq {row.id : row \in held.rows}
    BY <1>9, <2>2 DEF TurnFollowsChain
  <2>5. held.op = "legacy" => chain'.steady \intersect held.modern \subseteq Modern(report')
    BY <1>9, <2>2 DEF TurnFollowsChain
  <2>6. Modern(report)' = Modern(report')
    BY DEF Modern
  <2> QED
    BY <2>1, <2>3, <2>4, <2>5, <2>6 DEF TurnFollowsChain
<1> QED
  BY <1>4, <1>7, <1>10, <1>11

LEMMA WritesPreserve ==
  ASSUME IndInv, Writes, writes + calls < MaxOperations, writes' = writes + 1, UNCHANGED calls
  PROVE  IndInv'
<1>1. /\ report' \in [Reports -> Report] /\ \A r \in Reports : Fits(report'[r])
      /\ UNCHANGED <<audience, budget, ran, snapshot, reader>>
  BY WriteFacts DEF IndInv
<1>2. TypeOK'
  <2>1. chain' \in Chain
    BY WritesKeepChain
  <2>2. writes \in 0..MaxOperations /\ calls \in 0..MaxOperations /\ MaxOperations \in Nat
    BY ShelfAssumption DEF IndInv, TypeOK
  <2>3. writes' \in 0..MaxOperations
    BY <2>2
  <2> QED
    BY <1>1, <2>1, <2>3 DEF IndInv, TypeOK
<1>3. ReportsFit'
  BY <1>1 DEF ReportsFit, Fits
<1>4. SnapshotsFit' /\ SnapshotsKeepTheirTool'
  BY <1>1 DEF IndInv, SnapshotsFit, SnapshotsKeepTheirTool, OnlyLeadership
<1>5. ReadersFit'
  BY WritesKeepHeld DEF ReadersFit
<1>6. WithinBudget' /\ BudgetHolds'
  BY <1>1 DEF IndInv, WithinBudget, BudgetHolds
<1> QED
  BY <1>2, <1>3, <1>4, <1>5, <1>6, WritesKeepChain DEF IndInv

(***************************************************************************)
(* A step of a reader.                                                     *)
(***************************************************************************)
\* What one reader holds next must fit, and what the turn's pages come to.
LEMMA Frame ==
  ASSUME IndInv, NEW q \in Readers, NEW held \in Hold, HeldFits(q, held), Goto(q, held),
         UNCHANGED <<report, audience, snapshot, writes>>, calls' \in 0..MaxOperations,
         budget' \in [history : Nat, content : Nat], ran' \in [list : Nat, content : Nat],
         WithinBudget', BudgetHolds', chain' \in Chain, PagesDescend', SteadyIsAhead',
         TurnFollowsChain(Held("turn"))'
  PROVE  IndInv'
<1>1. reader \in [Readers -> Hold] /\ ReadersFit /\ TypeOK
  BY DEF IndInv, TypeOK
<1>2. /\ reader' \in [Readers -> Hold] /\ reader'[q] = held
      /\ \A p \in Readers : p # q => reader'[p] = reader[p]
  BY <1>1 DEF Goto
<1>3. \A p \in Readers : HeldFits(p, reader'[p])
  BY <1>1, <1>2 DEF ReadersFit
<1>4. TypeOK'
  BY <1>1, <1>2 DEF TypeOK
<1>5. ReportsFit' /\ SnapshotsFit' /\ SnapshotsKeepTheirTool'
  BY DEF IndInv, ReportsFit, SnapshotsFit, SnapshotsKeepTheirTool, OnlyLeadership
<1>6. ReadersFit'
  <2> SUFFICES ASSUME NEW p \in Readers PROVE HeldFits(p, reader[p])'
    BY DEF ReadersFit
  <2>1. HeldFits(p, reader'[p])
    BY <1>3
  <2>2. AtItsTool(p, reader[p])'
    BY <2>1 DEF HeldFits, AtItsTool
  <2>3. FollowsItsTool(reader[p])' /\ LeadershipHeld(reader[p])'
    BY <2>1 DEF HeldFits, FollowsItsTool, LeadershipHeld, OnlyLeadership
  <2>4. RowsReadOnce(reader[p])'
    BY <2>1 DEF HeldFits, RowsReadOnce
  <2>5. PageFits(reader[p])'
    BY <2>1 DEF HeldFits, PageFits
  <2> QED
    BY <2>2, <2>3, <2>4, <2>5 DEF HeldFits
<1> QED
  BY <1>4, <1>5, <1>6 DEF IndInv

LEMMA OffTheChain ==
  ASSUME NEW held, held.op \notin ListOps
  PROVE  TurnFollowsChain(held)
BY DEF TurnFollowsChain, ListOps

LEMMA NextHeld ==
  ASSUME TypeOK, NEW q \in Readers, NEW held \in Hold, Goto(q, held)
  PROVE  /\ q = "turn" => Held("turn")' = held
         /\ q # "turn" => Held("turn")' = Held("turn")
BY DEF Goto, Held, TypeOK, Readers

\* The turn's pages stay as they are.
LEMMA ChainKept ==
  ASSUME IndInv, NEW held, UNCHANGED <<report, audience, chain>>,
         TurnFollowsChain(held), Held("turn")' = held
  PROVE  chain' \in Chain /\ PagesDescend' /\ SteadyIsAhead' /\ TurnFollowsChain(Held("turn"))'
<1>1. chain \in Chain
  BY DEF IndInv, TypeOK
<1>2. PagesDescend'
  BY DEF IndInv, PagesDescend, Newer, AfterCursor
<1>3. Matching(report, chain.query)' = Matching(report, chain.query)
  BY DEF Matching, ListAuthorizedReportVariants, LegacyRows, Modern
<1>4. SteadyIsAhead'
  BY <1>3 DEF IndInv, SteadyIsAhead, AfterCursor
<1>5. TurnFollowsChain(Held("turn"))'
  BY DEF TurnFollowsChain, Modern
<1> QED
  BY <1>1, <1>2, <1>4, <1>5

LEMMA BudgetKept ==
  ASSUME IndInv, UNCHANGED <<budget, ran>>
  PROVE  /\ budget' \in [history : Nat, content : Nat] /\ ran' \in [list : Nat, content : Nat]
         /\ WithinBudget' /\ BudgetHolds'
BY DEF IndInv, TypeOK, WithinBudget, BudgetHolds

\* A step that changes nothing but what one reader holds.
LEMMA OnlyHeld ==
  ASSUME IndInv, NEW q \in Readers, NEW held \in Hold, HeldFits(q, held), Goto(q, held),
         UNCHANGED <<report, audience, budget, ran, chain, snapshot, writes>>, calls' \in 0..MaxOperations,
         q = "turn" => TurnFollowsChain(held)
  PROVE  IndInv'
<1>1. TurnFollowsChain(Held("turn")) /\ TypeOK
  BY DEF IndInv
<1>2. CASE q = "turn"
  <2>1. Held("turn")' = held
    BY <1>1, <1>2, NextHeld
  <2>2. TurnFollowsChain(held)
    BY <1>2
  <2>3. chain' \in Chain /\ PagesDescend' /\ SteadyIsAhead' /\ TurnFollowsChain(Held("turn"))'
    BY <2>1, <2>2, ChainKept
  <2> QED
    BY <2>3, BudgetKept, Frame
<1>3. CASE q # "turn"
  <2>1. Held("turn")' = Held("turn")
    BY <1>1, <1>3, NextHeld
  <2>2. chain' \in Chain /\ PagesDescend' /\ SteadyIsAhead' /\ TurnFollowsChain(Held("turn"))'
    BY <1>1, <2>1, ChainKept
  <2> QED
    BY <2>2, BudgetKept, Frame
<1> QED
  BY <1>2, <1>3

\* The pages are given up.
LEMMA ChainDropped ==
  ASSUME IndInv, UNCHANGED <<report, audience>>, chain' = [chain EXCEPT !.state = "none"]
  PROVE  chain' \in Chain /\ PagesDescend' /\ SteadyIsAhead'
<1>1. chain \in Chain
  BY DEF IndInv, TypeOK
<1>2. /\ chain' \in Chain /\ chain'.query = chain.query /\ chain'.listed = chain.listed
      /\ chain'.steady = chain.steady /\ chain'.state = "none"
  BY <1>1 DEF Chain
<1>3. PagesDescend'
  BY <1>2 DEF IndInv, PagesDescend, Newer, AfterCursor
<1>4. Matching(report, chain.query)' = Matching(report, chain.query)
  BY <1>2 DEF Matching, ListAuthorizedReportVariants, LegacyRows, Modern
<1>5. SteadyIsAhead'
  BY <1>2, <1>4 DEF IndInv, SteadyIsAhead
<1> QED
  BY <1>2, <1>3, <1>5

(***************************************************************************)
(* Calls.                                                                  *)
(***************************************************************************)
\* A query begins, or is refused at once.
LEMMA Started ==
  ASSUME NEW q \in {"turn", "user"}, NEW held \in Hold, held.op \in {"list", "report", "answered"},
         held.query \in QueriesOf(held.tool), held.items = <<>>,
         held.op = "list" => held.tool = "list", held.op = "report" => held.tool = "content",
         FollowsItsTool(held)
  PROVE  HeldFits(q, held)
<1>1. AtItsTool(q, held)
  BY DEF AtItsTool, Ops, ListOps, ContentOps, PageOps
<1>2. LeadershipHeld(held)
  BY DEF LeadershipHeld, OnlyLeadership
<1>3. RowsReadOnce(held) /\ PageFits(held)
  BY DEF RowsReadOnce, PageFits, PageOps
<1> QED
  BY <1>1, <1>2, <1>3 DEF HeldFits

LEMMA TurnStarts ==
  ASSUME NEW held \in Hold, held.op \in {"list", "report", "answered"}, held.previous = 0,
         held.query \in QueriesOf(held.tool), held.items = <<>>,
         held.op = "list" => held.tool = "list", held.op = "report" => held.tool = "content"
  PROVE  HeldFits("turn", held)
<1>1. FollowsItsTool(held)
  BY DEF FollowsItsTool
<1> QED
  BY <1>1, Started

LEMMA BudgetTypes ==
  ASSUME IndInv
  PROVE  /\ budget \in [history : Nat, content : Nat] /\ ran \in [list : Nat, content : Nat]
         /\ budget.history \in Nat /\ budget.content \in Nat /\ ran.list \in Nat /\ ran.content \in Nat
         /\ ran.content <= budget.content /\ budget.content <= budget.history
         /\ ran.list + ran.content <= budget.history
         /\ ran.list + ran.content <= MaxHistory /\ ran.content <= MaxContent
BY DEF IndInv, TypeOK, WithinBudget, BudgetHolds

LEMMA FirstPageOpens ==
  ASSUME IndInv, NEW query \in ListQuery, query.cursor = NoCursor, UNCHANGED <<report, audience>>,
         chain' = [query |-> query, listed |-> <<>>, state |-> "open", steady |-> Matching(report, query)]
  PROVE  chain' \in Chain /\ PagesDescend' /\ SteadyIsAhead'
<1>1. Matching(report, query) \in SUBSET Reports
  BY MatchingIs DEF Matches
<1>2. /\ chain'.query = query /\ chain'.listed = <<>> /\ chain'.state = "open"
      /\ chain'.steady = Matching(report, query)
  OBVIOUS
<1>3. chain' \in Chain
  BY <1>1 DEF Chain
<1>4. PagesDescend'
  BY <1>2 DEF PagesDescend
<1>5. Matching(report, chain.query)' = Matching(report, query)
  BY <1>2 DEF Matching, ListAuthorizedReportVariants, LegacyRows, Modern
<1>6. SteadyIsAhead'
  BY <1>2, <1>5 DEF SteadyIsAhead, AfterCursor
<1> QED
  BY <1>3, <1>4, <1>6

LEMMA TurnListsPreserves ==
  ASSUME IndInv, NEW query \in ListQuery, TurnLists(query), calls' \in 0..MaxOperations
  PROVE  IndInv'
<1> DEFINE listing == [Idle EXCEPT !.op = "list", !.query = query]
           refused == [Idle EXCEPT !.op = "answered", !.query = query]
<1>1. TypeOK /\ "turn" \in Readers /\ Idle \in Hold /\ query \in Query
  BY IdleFits, QueryFacts DEF IndInv, Readers
<1>2. listing \in Hold /\ refused \in Hold
  BY <1>1 DEF Hold, Ops, ListOps
<1>3. HeldFits("turn", listing) /\ HeldFits("turn", refused)
  <2>1. /\ listing.op = "list" /\ listing.tool = "list" /\ listing.query = query
        /\ listing.previous = 0 /\ listing.items = <<>>
        /\ refused.op = "answered" /\ refused.tool = "list" /\ refused.query = query
        /\ refused.previous = 0 /\ refused.items = <<>>
    BY DEF Idle
  <2> HIDE DEF listing, refused
  <2>2. query \in QueriesOf("list")
    BY DEF QueriesOf
  <2> QED
    BY <1>2, <2>1, <2>2, TurnStarts
<1>4. listing.op = "list" /\ listing.query = query /\ refused.op = "answered"
  BY DEF Idle
<1>5. budget' = [budget EXCEPT !.history = budget.history + 1] /\ UNCHANGED <<report, audience, snapshot, writes>>
  BY DEF TurnLists
<1>6. /\ budget' \in [history : Nat, content : Nat]
      /\ budget'.history = budget.history + 1 /\ budget'.content = budget.content
  BY <1>5, BudgetTypes
<1> HIDE DEF listing, refused
<1>7. CASE WithinHistory(budget.history + 1)
  <2>1. Goto("turn", listing) /\ ran' = [ran EXCEPT !.list = ran.list + 1]
    BY <1>7 DEF TurnLists, listing
  <2>2. /\ ran' \in [list : Nat, content : Nat]
        /\ ran'.list = ran.list + 1 /\ ran'.content = ran.content
    BY <2>1, BudgetTypes
  <2>3. WithinBudget' /\ BudgetHolds'
    <3>1. budget.history + 1 <= MaxHistory /\ MaxHistory \in Nat /\ MaxContent \in Nat
      BY <1>7, ShelfAssumption DEF WithinHistory
    <3>2. ran'.list + ran'.content <= budget'.history /\ ran'.list + ran'.content <= MaxHistory
      BY <1>6, <2>2, <3>1, BudgetTypes
    <3>3. /\ ran'.content <= budget'.content /\ budget'.content <= budget'.history
          /\ ran'.content <= MaxContent
      BY <1>6, <2>2, <3>1, BudgetTypes
    <3> QED
      BY <3>2, <3>3 DEF WithinBudget, BudgetHolds
  <2>4. Held("turn")' = listing
    BY <1>1, <1>2, <2>1, NextHeld
  <2>5. chain' \in Chain /\ PagesDescend' /\ SteadyIsAhead' /\ TurnFollowsChain(Held("turn"))'
    <3>1. CASE query.cursor # NoCursor
      <4>1. chain' = chain /\ chain.state = "open" /\ query = chain.query
        BY <1>7, <3>1 DEF TurnLists
      <4>2. TurnFollowsChain(listing)
        BY <1>4, <4>1 DEF TurnFollowsChain
      <4> QED
        BY <1>5, <2>4, <4>1, <4>2, ChainKept
    <3>2. CASE query.cursor = NoCursor
      <4>1. chain' = [query |-> query, listed |-> <<>>, state |-> "open", steady |-> Matching(report, query)]
        BY <1>7, <3>2 DEF TurnLists
      <4>2. chain' \in Chain /\ PagesDescend' /\ SteadyIsAhead'
        BY <1>5, <3>2, <4>1, FirstPageOpens
      <4>3. chain'.state = "open" /\ chain'.query = query
        BY <4>1
      <4>4. TurnFollowsChain(Held("turn"))'
        BY <1>4, <2>4, <4>3 DEF TurnFollowsChain
      <4> QED
        BY <4>2, <4>4
    <3> QED
      BY <3>1, <3>2
  <2> QED
    BY <1>1, <1>2, <1>3, <1>5, <1>6, <2>1, <2>2, <2>3, <2>5, Frame
<1>8. CASE ~WithinHistory(budget.history + 1)
  <2>1. Goto("turn", refused) /\ UNCHANGED <<ran, chain>>
    BY <1>8 DEF TurnLists, refused
  <2>2. WithinBudget' /\ BudgetHolds' /\ ran' \in [list : Nat, content : Nat]
    BY <1>6, <2>1, BudgetTypes DEF WithinBudget, BudgetHolds
  <2>3. Held("turn")' = refused
    BY <1>1, <1>2, <2>1, NextHeld
  <2>4. TurnFollowsChain(refused)
    BY <1>4 DEF TurnFollowsChain, ListOps
  <2>5. chain' \in Chain /\ PagesDescend' /\ SteadyIsAhead' /\ TurnFollowsChain(Held("turn"))'
    BY <1>5, <2>1, <2>3, <2>4, ChainKept
  <2> QED
    BY <1>1, <1>2, <1>3, <1>5, <1>6, <2>1, <2>2, <2>5, Frame
<1> QED
  BY <1>7, <1>8

LEMMA TurnReadsPreserves ==
  ASSUME IndInv, NEW query \in ContentQuery, TurnReads(query), calls' \in 0..MaxOperations
  PROVE  IndInv'
<1> DEFINE reading == [Idle EXCEPT !.op = "report", !.tool = "content", !.query = query]
           refused == [Idle EXCEPT !.op = "answered", !.tool = "content", !.query = query]
<1>1. TypeOK /\ "turn" \in Readers /\ Idle \in Hold /\ query \in Query
  BY IdleFits, QueryFacts DEF IndInv, Readers
<1>2. reading \in Hold /\ refused \in Hold
  BY <1>1 DEF Hold, Ops, ContentOps, Tools
<1>3. HeldFits("turn", reading) /\ HeldFits("turn", refused)
  <2>1. /\ reading.op = "report" /\ reading.tool = "content" /\ reading.query = query
        /\ reading.previous = 0 /\ reading.items = <<>>
        /\ refused.op = "answered" /\ refused.tool = "content" /\ refused.query = query
        /\ refused.previous = 0 /\ refused.items = <<>>
    BY DEF Idle
  <2> HIDE DEF reading, refused
  <2>2. query \in QueriesOf("content")
    BY DEF QueriesOf
  <2> QED
    BY <1>2, <2>1, <2>2, TurnStarts
<1>4. TurnFollowsChain(reading) /\ TurnFollowsChain(refused)
  <2>1. reading.op = "report" /\ refused.op = "answered"
    BY DEF Idle
  <2> QED
    BY <2>1 DEF TurnFollowsChain, ListOps
<1>5. /\ budget' = [history |-> budget.history + 1, content |-> budget.content + 1]
      /\ UNCHANGED <<report, audience, chain, snapshot, writes>>
  BY DEF TurnReads
<1>6. /\ budget' \in [history : Nat, content : Nat]
      /\ budget'.history = budget.history + 1 /\ budget'.content = budget.content + 1
  BY <1>5, BudgetTypes
<1> HIDE DEF reading, refused
<1>7. CASE WithinHistory(budget'.history) /\ budget'.content <= MaxContent
  <2>1. Goto("turn", reading) /\ ran' = [ran EXCEPT !.content = ran.content + 1]
    BY <1>7 DEF TurnReads, reading
  <2>2. /\ ran' \in [list : Nat, content : Nat]
        /\ ran'.list = ran.list /\ ran'.content = ran.content + 1
    BY <2>1, BudgetTypes
  <2>3. WithinBudget' /\ BudgetHolds'
    <3>1. budget.history + 1 <= MaxHistory /\ MaxHistory \in Nat /\ MaxContent \in Nat
      BY <1>6, <1>7, ShelfAssumption DEF WithinHistory
    <3>2. ran'.list + ran'.content <= budget'.history /\ ran'.list + ran'.content <= MaxHistory
      BY <1>6, <2>2, <3>1, BudgetTypes
    <3>3. /\ ran'.content <= budget'.content /\ budget'.content <= budget'.history
          /\ ran'.content <= MaxContent
      BY <1>6, <1>7, <2>2, <3>1, BudgetTypes
    <3> QED
      BY <3>2, <3>3 DEF WithinBudget, BudgetHolds
  <2>4. Held("turn")' = reading
    BY <1>1, <1>2, <2>1, NextHeld
  <2>5. chain' \in Chain /\ PagesDescend' /\ SteadyIsAhead' /\ TurnFollowsChain(Held("turn"))'
    BY <1>4, <1>5, <2>4, ChainKept
  <2> QED
    BY <1>1, <1>2, <1>3, <1>5, <1>6, <2>1, <2>2, <2>3, <2>5, Frame
<1>8. CASE ~(WithinHistory(budget'.history) /\ budget'.content <= MaxContent)
  <2>1. Goto("turn", refused) /\ ran' = ran
    BY <1>8 DEF TurnReads, refused
  <2>2. WithinBudget' /\ BudgetHolds' /\ ran' \in [list : Nat, content : Nat]
    BY <1>6, <2>1, BudgetTypes DEF WithinBudget, BudgetHolds
  <2>3. Held("turn")' = refused
    BY <1>1, <1>2, <2>1, NextHeld
  <2>4. chain' \in Chain /\ PagesDescend' /\ SteadyIsAhead' /\ TurnFollowsChain(Held("turn"))'
    BY <1>4, <1>5, <2>3, ChainKept
  <2> QED
    BY <1>1, <1>2, <1>3, <1>5, <1>6, <2>1, <2>2, <2>4, Frame
<1> QED
  BY <1>7, <1>8

LEMMA NewTurnPreserves == ASSUME IndInv, NewTurn, calls' = calls PROVE IndInv'
<1> DEFINE held == reader["turn"]
<1>1. TypeOK /\ "turn" \in Readers /\ held \in Hold /\ HeldFits("turn", held) /\ calls' \in 0..MaxOperations
  BY DEF IndInv, Readers, TypeOK, ReadersFit
<1>2. held.op = "idle" /\ reader' = reader /\ UNCHANGED <<report, audience, snapshot, writes>>
  BY DEF NewTurn, At
<1>3. Goto("turn", held)
  BY <1>1, <1>2 DEF Goto, TypeOK
<1>4. /\ budget' = [history |-> 0, content |-> 0] /\ ran' = [list |-> 0, content |-> 0]
      /\ chain' = [chain EXCEPT !.state = "none"]
  BY DEF NewTurn
<1>5. /\ budget' \in [history : Nat, content : Nat] /\ ran' \in [list : Nat, content : Nat]
      /\ WithinBudget' /\ BudgetHolds'
  BY <1>4, ShelfAssumption DEF WithinBudget, BudgetHolds
<1>6. chain' \in Chain /\ PagesDescend' /\ SteadyIsAhead'
  BY <1>2, <1>4, ChainDropped
<1>7. TurnFollowsChain(Held("turn"))'
  BY <1>2 DEF TurnFollowsChain, ListOps, Held
<1> HIDE DEF held
<1> QED
  BY <1>1, <1>2, <1>3, <1>5, <1>6, <1>7, Frame

LEMMA RefreshPreserves ==
  ASSUME IndInv, NEW i \in DOMAIN snapshot, RefreshHistoricalQuery(i), calls' \in 0..MaxOperations
  PROVE  IndInv'
<1> DEFINE tool == snapshot[i].tool
           query == snapshot[i].query
           op == IF tool = "list" THEN "list" ELSE "report"
           held == [Idle EXCEPT !.op = op, !.tool = tool, !.query = query, !.previous = i]
<1>1. TypeOK /\ "user" \in Readers /\ snapshot \in Seq(Snapshot)
  BY DEF IndInv, Readers, TypeOK
<1>2. snapshot[i] \in Snapshot /\ i \in Nat
  BY <1>1
<1>3. tool \in Tools /\ query \in QueriesOf(tool)
  BY <1>2 DEF Snapshot, IndInv, SnapshotsFit
<1>4. Goto("user", held) /\ UNCHANGED <<report, audience, budget, ran, chain, snapshot, writes>>
  BY DEF RefreshHistoricalQuery
<1>5. Idle \in Hold /\ query \in Query /\ op \in Ops
  BY <1>2, IdleFits DEF Snapshot, Readers, Ops, ListOps, ContentOps
<1>6. held \in Hold
  BY <1>2, <1>3, <1>5 DEF Hold
<1>7. /\ held.op = op /\ held.tool = tool /\ held.query = query
      /\ held.previous = i /\ held.items = <<>>
  <2>1. Idle.items = <<>>
    BY DEF Idle
  <2> QED
    BY <1>5, <2>1 DEF Hold
<1>8. op \in {"list", "report"} /\ (op = "list" => tool = "list") /\ (op = "report" => tool = "content")
  BY <1>3 DEF Tools
<1>9. HeldFits("user", held)
  <2>1. FollowsItsTool(held)
    BY <1>7 DEF FollowsItsTool
  <2> HIDE DEF held, op
  <2> QED
    BY <1>3, <1>6, <1>7, <1>8, <2>1, Started
<1> HIDE DEF held
<1> QED
  BY <1>1, <1>4, <1>6, <1>9, OnlyHeld

(***************************************************************************)
(* The pages that list and show reports.                                   *)
(***************************************************************************)
LEMMA RowsOfFacts ==
  ASSUME TypeOK, NEW ids \in SUBSET Reports
  PROVE  /\ RowsOf(ids) \in SUBSET Row
         /\ \A row \in RowsOf(ids) : /\ row.id \in ids \intersect Live
                                     /\ row.text = report[row.id].content
         /\ \A r \in ids \intersect Live : \E row \in RowsOf(ids) : row.id = r
<1> DEFINE shown == ids \intersect Live
           RowFor(r) == [id |-> r, text |-> report[r].content, legacy |-> FALSE]
<1>1. \A r \in shown : r \in Reports /\ RowFor(r) \in Row
  <2>1. \A r \in Reports : report[r].content \in Texts
    BY ReportTypes
  <2>2. shown \subseteq Reports
    OBVIOUS
  <2> HIDE DEF shown
  <2> QED
    BY <2>1, <2>2 DEF Row
<1>2. RowsOf(ids) = {RowFor(r) : r \in shown}
  BY DEF RowsOf
<1>3. \A r : RowFor(r).id = r /\ RowFor(r).text = report[r].content
  OBVIOUS
<1> HIDE DEF RowFor, shown
<1>4. \A row \in RowsOf(ids) : row \in Row /\ row.id \in shown /\ row.text = report[row.id].content
  BY <1>1, <1>2, <1>3
<1>5. \A r \in shown : \E row \in RowsOf(ids) : row.id = r
  BY <1>2, <1>3
<1> QED
  BY <1>4, <1>5 DEF shown

\* A row with another text is a row of the same report.
LEMMA Retold ==
  ASSUME NEW row \in Row, NEW text \in Texts
  PROVE  LET told == [row EXCEPT !.text = text]
         IN  told \in Row /\ told.id = row.id /\ told.text = text /\ told.legacy = row.legacy
BY DEF Row

LEMMA TextsOfFacts ==
  ASSUME TypeOK, NEW rows \in SUBSET Row
  PROVE  TextsOf(rows) \in SUBSET Row
<1>1. \A row \in rows : row \in Row /\ row.id \in Reports
  BY RowIds
<1>2. \A r \in Reports : TextOf(r) \in Texts
  <2> TAKE r \in Reports
  <2>1. report[r].content \in Texts /\ report[r].final \in [Audiences -> Texts] /\ "personal" \in Audiences
    BY ReportTypes DEF Audiences
  <2> QED
    BY <2>1 DEF TextOf
<1>3. \A row \in rows : [row EXCEPT !.text = TextOf(row.id)] \in Row
  BY <1>1, <1>2, Retold
<1> QED
  BY <1>3 DEF TextsOf

LEMMA ShownOfFacts ==
  ASSUME TypeOK, NEW rows \in SUBSET Row
  PROVE  /\ ShownOf(rows) \in SUBSET Row
         /\ \A row \in ShownOf(rows) : \E old \in rows :
              row = [old EXCEPT !.text = Shown(old)] /\ row.id = old.id /\ row.text = Shown(old)
<1>1. \A row \in rows : row \in Row /\ row.id \in Reports /\ row.text \in Texts
  BY RowIds DEF Row
<1>2. \A row \in rows : Shown(row) \in Texts
  <2> TAKE row \in rows
  <2>1. report[row.id].final \in [Audiences -> Texts] /\ "personal" \in Audiences /\ "draft" \in Texts
    BY <1>1, ReportTypes DEF Audiences, Texts
  <2> QED
    BY <1>1, <2>1 DEF Shown
<1>3. \A old \in rows : LET told == [old EXCEPT !.text = Shown(old)]
                        IN  told \in Row /\ told.id = old.id /\ told.text = Shown(old)
  BY <1>1, <1>2, Retold
<1> QED
  BY <1>3 DEF ShownOf

\* What the browser holds fits when its rows do.
LEMMA BrowserHolds ==
  ASSUME NEW held \in Hold, held.op \in PageOps \union {"idle"}, held.query = FirstPage,
         held.tool = "list", held.items = <<>>, held.previous = 0, PageFits(held)
  PROVE  HeldFits("browser", held)
<1>1. AtItsTool("browser", held)
  BY QueryFacts DEF AtItsTool, QueriesOf, ListOps, ContentOps, PageOps
<1>2. FollowsItsTool(held) /\ LeadershipHeld(held) /\ RowsReadOnce(held)
  BY DEF FollowsItsTool, LeadershipHeld, RowsReadOnce, PageOps
<1> QED
  BY <1>1, <1>2 DEF HeldFits

LEMMA IdleFields ==
  /\ Idle \in Hold /\ Idle.op = "idle" /\ Idle.query = FirstPage /\ Idle.tool = "list"
  /\ Idle.items = <<>> /\ Idle.previous = 0
  /\ PageOps \subseteq Ops /\ PageOps = {"listed", "got", "bundle"}
BY IdleFits DEF Idle, Ops, PageOps, Readers

LEMMA ListReportsPreserves == ASSUME IndInv, ListReports, calls' \in 0..MaxOperations PROVE IndInv'
<1> DEFINE rows == RowsOf(Reports)
           was == TextsOf(rows)
           held == [Idle EXCEPT !.op = "listed", !.rows = rows, !.was = was]
<1>1. TypeOK /\ "browser" \in Readers
  BY DEF IndInv, Readers
<1>2. rows \in SUBSET Row /\ \A row \in rows : row.id \in Live /\ row.text = report[row.id].content
  BY <1>1, RowsOfFacts
<1>3. Goto("browser", held) /\ UNCHANGED <<report, audience, budget, ran, chain, snapshot, writes>>
  BY DEF ListReports
<1> HIDE DEF rows
<1>4. was \in SUBSET Row
  BY <1>1, <1>2, TextsOfFacts
<1> HIDE DEF was
<1>5. held \in Hold
  BY <1>2, <1>4, IdleFields DEF Hold
<1>6. /\ held.op = "listed" /\ held.rows = rows /\ held.query = FirstPage /\ held.tool = "list"
      /\ held.items = <<>> /\ held.previous = 0
  BY IdleFields DEF Hold
<1> HIDE DEF held
<1>7. PageFits(held)
  BY <1>2, <1>6 DEF PageFits, Live
<1>8. HeldFits("browser", held)
  BY <1>5, <1>6, <1>7, IdleFields, BrowserHolds
<1> QED
  BY <1>1, <1>3, <1>5, <1>8, OnlyHeld

LEMMA GetReportPreserves ==
  ASSUME IndInv, NEW r \in Reports, GetReport(r), calls' \in 0..MaxOperations
  PROVE  IndInv'
<1> DEFINE rows == RowsOf({r})
           was == TextsOf(rows)
           held == [Idle EXCEPT !.op = "got", !.rows = rows, !.was = was]
<1>1. TypeOK /\ "browser" \in Readers
  BY DEF IndInv, Readers
<1>2. Goto("browser", held) /\ UNCHANGED <<report, audience, budget, ran, chain, snapshot, writes>> /\ r \in Live
  BY DEF GetReport
<1>3. /\ rows \in SUBSET Row
      /\ \A row \in rows : row.id = r /\ row.id \in Live /\ row.text = report[row.id].content
      /\ \E row \in rows : row.id = r
  <2>1. {r} \in SUBSET Reports /\ r \in {r} \intersect Live
    BY <1>2
  <2> QED
    BY <1>1, <2>1, RowsOfFacts
<1> HIDE DEF rows
<1>4. was \in SUBSET Row
  BY <1>1, <1>3, TextsOfFacts
<1> HIDE DEF was
<1>5. held \in Hold
  BY <1>3, <1>4, IdleFields DEF Hold
<1>6. /\ held.op = "got" /\ held.rows = rows /\ held.query = FirstPage /\ held.tool = "list"
      /\ held.items = <<>> /\ held.previous = 0
  BY IdleFields DEF Hold
<1> HIDE DEF held
<1>7. PageFits(held)
  <2>1. {row.id : row \in rows} = {r}
    BY <1>3
  <2> QED
    BY <1>3, <1>6, <2>1 DEF PageFits, Live
<1>8. HeldFits("browser", held)
  BY <1>5, <1>6, <1>7, IdleFields, BrowserHolds
<1> QED
  BY <1>1, <1>2, <1>5, <1>8, OnlyHeld

LEMMA ListVariantsPreserves == ASSUME IndInv, ListVariants, calls' = calls PROVE IndInv'
<1> DEFINE rows == ShownOf(Held("browser").rows)
           held == [Idle EXCEPT !.rows = rows]
<1>1. TypeOK /\ "browser" \in Readers /\ calls' \in 0..MaxOperations
  BY DEF IndInv, Readers, TypeOK
<1>2. Goto("browser", held) /\ UNCHANGED <<report, audience, budget, ran, chain, snapshot, writes>>
  BY DEF ListVariants
<1>3. rows \in SUBSET Row
  BY <1>1, HeldTypes, ShownOfFacts DEF Held
<1> HIDE DEF rows
<1>4. held \in Hold
  BY <1>3, IdleFields DEF Hold
<1>5. /\ held.op = "idle" /\ held.query = FirstPage /\ held.tool = "list"
      /\ held.items = <<>> /\ held.previous = 0
  BY IdleFields DEF Hold
<1> HIDE DEF held
<1>6. PageFits(held)
  BY <1>5 DEF PageFits, PageOps
<1>7. HeldFits("browser", held)
  BY <1>4, <1>5, <1>6, BrowserHolds
<1> QED
  BY <1>1, <1>2, <1>4, <1>7, OnlyHeld

LEMMA GetVariantsPreserves == ASSUME IndInv, GetVariants, calls' = calls PROVE IndInv'
<1> DEFINE old == Held("browser").rows
           r == (CHOOSE row \in old : TRUE).id
           rows == ShownOf(old)
           variant == IF ListReportVariants(r) = {} THEN NoVariant ELSE VariantOf(report, r)
           held == [Idle EXCEPT !.op = "bundle", !.rows = rows, !.variant = variant]
<1>1. TypeOK /\ ReportsFit /\ "browser" \in Readers /\ calls' \in 0..MaxOperations
  BY DEF IndInv, Readers, TypeOK
<1>2. Goto("browser", held) /\ UNCHANGED <<report, audience, budget, ran, chain, snapshot, writes>>
  BY DEF GetVariants
<1>3. old \in SUBSET Row
  BY <1>1, HeldTypes DEF Held
<1>4. /\ \A row \in old : report[row.id].state # "absent"
      /\ \E s \in Reports : {row.id : row \in old} = {s}
  <2>1. PageFits(Held("browser")) /\ Held("browser").op = "got"
    BY <1>1 DEF IndInv, ReadersFit, HeldFits, Held, GetVariants, At
  <2> QED
    BY <2>1, IdleFields DEF PageFits
<1>5. r \in Reports /\ \A row \in old : row.id = r
  BY <1>4
<1> HIDE DEF old, r
<1>6. rows \in SUBSET Row /\ \A row \in rows : row.id = r /\ report[row.id].state # "absent"
  BY <1>1, <1>3, <1>4, <1>5, ShownOfFacts
<1>7. variant \in Variant /\ (variant # NoVariant => variant.revision \in report[r].snapshots)
  BY <1>1, <1>5, VariantFacts, NoVariantFacts
<1> HIDE DEF rows, variant
<1>8. held \in Hold
  BY <1>6, <1>7, IdleFields DEF Hold
<1>9. /\ held.op = "bundle" /\ held.rows = rows /\ held.variant = variant
      /\ held.query = FirstPage /\ held.tool = "list" /\ held.items = <<>> /\ held.previous = 0
  BY IdleFields DEF Hold
<1> HIDE DEF held
<1>10. PageFits(held)
  BY <1>6, <1>7, <1>9 DEF PageFits
<1>11. HeldFits("browser", held)
  BY <1>8, <1>9, <1>10, IdleFields, BrowserHolds
<1> QED
  BY <1>1, <1>2, <1>8, <1>11, OnlyHeld

LEMMA GetSnapshotsPreserves == ASSUME IndInv, GetSnapshots, calls' = calls PROVE IndInv'
<1>1. "browser" \in Readers /\ calls' \in 0..MaxOperations
  BY DEF IndInv, Readers, TypeOK
<1>2. Goto("browser", Idle) /\ UNCHANGED <<report, audience, budget, ran, chain, snapshot, writes>>
  BY DEF GetSnapshots
<1> QED
  BY <1>1, <1>2, IdleFits, OnlyHeld

(***************************************************************************)
(* The content tool.                                                       *)
(***************************************************************************)
\* What a reader of the content tool holds fits.
LEMMA ContentHolds ==
  ASSUME NEW q \in {"turn", "user"}, NEW held \in Hold,
         held.op \in {"variant", "any", "answered"}, held.tool = "content", held.query \in ContentQuery,
         held.op \in {"variant", "any"} => held.items # <<>>,
         FollowsItsTool(held), LeadershipHeld(held)
  PROVE  HeldFits(q, held)
<1>1. AtItsTool(q, held)
  BY DEF AtItsTool, QueriesOf, ListOps, ContentOps, PageOps, Ops
<1>2. RowsReadOnce(held) /\ PageFits(held)
  BY DEF RowsReadOnce, PageFits, PageOps
<1> QED
  BY <1>1, <1>2 DEF HeldFits

LEMMA ContentHeld ==
  ASSUME IndInv, NEW q \in {"turn", "user"}, reader[q].op \in ContentOps
  PROVE  LET held == reader[q]
         IN  /\ TypeOK /\ q \in Readers /\ held \in Hold /\ held.tool = "content"
             /\ held.query \in ContentQuery /\ held.query.report \in Reports
             /\ FollowsItsTool(held) /\ LeadershipHeld(held)
             /\ held.items \in Seq(Row) /\ held.variant \in Variant
             /\ held.op \in {"variant", "any"} => held.items # <<>>
             /\ held.op = "report" => held.items = <<>>
<1>1. TypeOK /\ q \in Readers
  BY DEF IndInv, Readers
<1>2. HeldFits(q, reader[q])
  BY <1>1 DEF IndInv, ReadersFit
<1> DEFINE held == reader[q]
<1>3. held \in Hold /\ held.items \in Seq(Row) /\ held.variant \in Variant
  BY <1>1, HeldTypes
<1> HIDE DEF held
<1>4. held.tool = "content" /\ held.query \in ContentQuery
  BY <1>2 DEF HeldFits, AtItsTool, QueriesOf, held
<1>5. held.query.report \in Reports
  BY <1>4 DEF ContentQuery
<1>6. /\ held.op \in {"variant", "any"} => held.items # <<>>
      /\ held.op = "report" => held.items = <<>>
  BY <1>2 DEF HeldFits, AtItsTool, held
<1> QED
  BY <1>1, <1>2, <1>3, <1>4, <1>5, <1>6 DEF held, HeldFits

LEMMA ReadReportPreserves ==
  ASSUME IndInv, NEW q \in {"turn", "user"}, ReadReport(q), calls' = calls
  PROVE  IndInv'
<1> DEFINE old == reader[q]
           r == old.query.report
           item == [id |-> r, text |-> report[r].content, legacy |-> FALSE]
           reading == [old EXCEPT !.op = "variant", !.items = <<item>>]
           absent == [old EXCEPT !.op = "answered"]
           held == IF {Own, r} \subseteq Live THEN reading ELSE absent
<1>1. old.op = "report"
  BY DEF ReadReport, At
<1>2. /\ TypeOK /\ q \in Readers /\ old \in Hold /\ old.tool = "content"
      /\ old.query \in ContentQuery /\ r \in Reports /\ FollowsItsTool(old) /\ old.items = <<>>
  BY <1>1, ContentHeld DEF ContentOps
<1>3. Goto(q, held) /\ UNCHANGED <<report, audience, budget, ran, chain, snapshot, writes>>
  BY DEF ReadReport, Held
<1>4. calls' \in 0..MaxOperations
  BY <1>2 DEF TypeOK
<1>5. item \in Row
  BY <1>2, ReportTypes DEF Row
<1> HIDE DEF old, item
<1>6. reading \in Hold /\ absent \in Hold
  <2>1. <<item>> \in Seq(Row)
    BY <1>5
  <2> QED
    BY <1>2, <2>1 DEF Hold, Ops, ContentOps
<1>7. /\ reading.op = "variant" /\ reading.tool = "content" /\ reading.query = old.query
      /\ reading.previous = old.previous /\ reading.items = <<item>>
      /\ absent.op = "answered" /\ absent.tool = "content" /\ absent.query = old.query
      /\ absent.previous = old.previous /\ absent.items = <<>>
  BY <1>2 DEF Hold
<1> HIDE DEF reading, absent
<1>8. FollowsItsTool(reading) /\ FollowsItsTool(absent)
  BY <1>2, <1>7 DEF FollowsItsTool
<1>9. LeadershipHeld(reading) /\ LeadershipHeld(absent)
  BY <1>7 DEF LeadershipHeld, OnlyLeadership
<1>10. reading.items # <<>>
  BY <1>7
<1>11. HeldFits(q, reading) /\ HeldFits(q, absent)
  BY <1>2, <1>6, <1>7, <1>8, <1>9, <1>10, ContentHolds
<1>12. TurnFollowsChain(reading) /\ TurnFollowsChain(absent)
  BY <1>7 DEF TurnFollowsChain, ListOps
<1>13. held \in Hold /\ HeldFits(q, held) /\ TurnFollowsChain(held)
  BY <1>6, <1>11, <1>12
<1> HIDE DEF held
<1> QED
  BY <1>2, <1>3, <1>4, <1>13, OnlyHeld

LEMMA ReadVariantPreserves ==
  ASSUME IndInv, NEW q \in {"turn", "user"}, ReadVariant(q), calls' = calls
  PROVE  IndInv'
<1> DEFINE old == reader[q]
           variant == VariantOf(report, old.query.report)
           held == [old EXCEPT !.op = "any", !.variant = variant]
<1>1. old.op = "variant"
  BY DEF ReadVariant, At
<1>2. /\ TypeOK /\ q \in Readers /\ old \in Hold /\ old.tool = "content"
      /\ old.query \in ContentQuery /\ old.query.report \in Reports
      /\ FollowsItsTool(old) /\ old.items # <<>>
  BY <1>1, ContentHeld DEF ContentOps
<1>3. Goto(q, held) /\ UNCHANGED <<report, audience, budget, ran, chain, snapshot, writes>>
  BY DEF ReadVariant, Held
<1>4. calls' \in 0..MaxOperations
  BY <1>2 DEF TypeOK
<1>5. variant \in Variant /\ variant.final \in {"none", audience}
  BY <1>2, VariantFacts DEF IndInv
<1> HIDE DEF old, variant
<1>6. held \in Hold
  BY <1>2, <1>5 DEF Hold, Ops, ContentOps
<1>7. /\ held.op = "any" /\ held.tool = "content" /\ held.query = old.query
      /\ held.previous = old.previous /\ held.items = old.items /\ held.variant = variant
  BY <1>2 DEF Hold
<1> HIDE DEF held
<1>8. FollowsItsTool(held) /\ LeadershipHeld(held)
  BY <1>2, <1>5, <1>7 DEF FollowsItsTool, LeadershipHeld
<1>9. HeldFits(q, held)
  BY <1>2, <1>6, <1>7, <1>8, ContentHolds
<1>10. TurnFollowsChain(held)
  BY <1>7 DEF TurnFollowsChain, ListOps
<1> QED
  BY <1>2, <1>3, <1>4, <1>6, <1>9, <1>10, OnlyHeld

\* An answer of the content tool is of rows, of the session's audience only
\* for a leadership session.
LEMMA ContentFacts ==
  ASSUME TypeOK, NEW row \in Row, NEW variant \in Variant, NEW isLegacy \in BOOLEAN,
         NEW query \in ContentQuery
  PROVE  LET items == ContentOf(row, variant, isLegacy, query)
         IN  /\ items \in Seq(Row)
             /\ audience = "leadership" /\ variant.final \in {"none", "leadership"} => OnlyLeadership(items)
<1> DEFINE items == ContentOf(row, variant, isLegacy, query)
           asStored == [id |-> row.id, text |-> row.text, legacy |-> TRUE]
           final == [id |-> row.id, text |-> variant.final, legacy |-> isLegacy]
<1>1. asStored \in Row /\ final \in Row
  BY DEF Row, Variant
<1>2. \/ items = <<>>
      \/ items = <<asStored>> /\ audience = "personal"
      \/ items = <<final>> /\ variant.final # "none"
  BY DEF ContentOf, Readable, ReadsLegacy
<1>3. final.text = variant.final
  OBVIOUS
<1> HIDE DEF items, asStored, final
<1>4. items \in Seq(Row)
  <2>1. <<asStored>> \in Seq(Row) /\ <<final>> \in Seq(Row) /\ <<>> \in Seq(Row)
    BY <1>1
  <2> QED
    BY <1>2, <2>1
<1>5. audience = "leadership" /\ variant.final \in {"none", "leadership"} => OnlyLeadership(items)
  BY <1>2, <1>3 DEF OnlyLeadership
<1> QED
  BY <1>4, <1>5 DEF items

LEMMA ReadAnyVariantPreserves ==
  ASSUME IndInv, NEW q \in {"turn", "user"}, ReadAnyVariant(q), calls' = calls
  PROVE  IndInv'
<1> DEFINE old == reader[q]
           isLegacy == old.query.report \notin Modern(report)
           items == ContentOf(Last(old.items), old.variant, isLegacy, old.query)
           held == [old EXCEPT !.op = "answered", !.variant = NoVariant, !.items = items]
<1>1. old.op = "any"
  BY DEF ReadAnyVariant, At
<1>2. /\ TypeOK /\ q \in Readers /\ old \in Hold /\ old.tool = "content"
      /\ old.query \in ContentQuery /\ FollowsItsTool(old) /\ LeadershipHeld(old)
      /\ old.items \in Seq(Row) /\ old.items # <<>> /\ old.variant \in Variant
  BY <1>1, ContentHeld DEF ContentOps
<1>3. Goto(q, held) /\ UNCHANGED <<report, audience, budget, ran, chain, snapshot, writes>>
  BY DEF ReadAnyVariant, Held
<1>4. calls' \in 0..MaxOperations
  BY <1>2 DEF TypeOK
<1> HIDE DEF old
<1>5. Last(old.items) \in Row
  BY <1>2 DEF Last
<1>6. items \in Seq(Row) /\ (audience = "leadership" /\ old.variant.final \in {"none", "leadership"} => OnlyLeadership(items))
  <2>1. isLegacy \in BOOLEAN
    OBVIOUS
  <2> HIDE DEF isLegacy
  <2> QED
    BY <1>2, <1>5, <2>1, ContentFacts
<1>7. audience = "leadership" => OnlyLeadership(items)
  BY <1>1, <1>2, <1>6 DEF LeadershipHeld
<1> HIDE DEF items
<1>8. held \in Hold
  BY <1>2, <1>6, NoVariantFacts DEF Hold, Ops
<1>9. /\ held.op = "answered" /\ held.tool = "content" /\ held.query = old.query
      /\ held.previous = old.previous /\ held.items = items
  BY <1>2 DEF Hold
<1> HIDE DEF held
<1>10. FollowsItsTool(held) /\ LeadershipHeld(held)
  BY <1>2, <1>7, <1>9 DEF FollowsItsTool, LeadershipHeld
<1>11. HeldFits(q, held)
  BY <1>2, <1>8, <1>9, <1>10, ContentHolds
<1>12. TurnFollowsChain(held)
  BY <1>9 DEF TurnFollowsChain, ListOps
<1> QED
  BY <1>2, <1>3, <1>4, <1>8, <1>11, <1>12, OnlyHeld

(***************************************************************************)
(* The snapshots of queries.                                               *)
(***************************************************************************)
LEMMA Greatest ==
  ASSUME NEW n \in Nat, NEW S \in SUBSET (1..n), S # {}
  PROVE  \E i \in S : \A k \in S : k <= i
<1> DEFINE T == {n - i : i \in S}
<1>1. \A i \in S : i \in Nat /\ n - i \in Nat
  OBVIOUS
<1>2. T \in SUBSET Nat /\ T # {}
  BY <1>1
<1>3. PICK m \in T : \A k \in T : m <= k
  <2> HIDE DEF T
  <2> QED
    BY <1>2, Least
<1>4. PICK i \in S : m = n - i
  BY <1>3
<1>5. \A k \in S : k <= i
  <2> TAKE k \in S
  <2>1. n - k \in T
    OBVIOUS
  <2>2. n - i <= n - k
    BY <1>3, <1>4, <2>1
  <2> QED
    BY <1>1, <2>2
<1> QED
  BY <1>5

LEMMA LatestFacts ==
  ASSUME snapshot \in Seq(Snapshot), NEW tool
  PROVE  LET i == GetLatestQuerySnapshotForTool(tool)
         IN  i \in Nat /\ (i # 0 => i \in DOMAIN snapshot /\ snapshot[i].tool = tool)
<1> DEFINE ofTool == {i \in DOMAIN snapshot : snapshot[i].tool = tool}
<1>1. GetLatestQuerySnapshotForTool(tool) =
        IF ofTool = {} THEN 0 ELSE CHOOSE i \in ofTool : \A k \in ofTool : k <= i
  BY DEF GetLatestQuerySnapshotForTool
<1>2. Len(snapshot) \in Nat /\ DOMAIN snapshot = 1..Len(snapshot)
  OBVIOUS
<1>3. ofTool \in SUBSET (1..Len(snapshot)) /\ \A i \in ofTool : i \in Nat
  BY <1>2
<1>4. CASE ofTool = {}
  BY <1>1, <1>4
<1>5. CASE ofTool # {}
  <2>1. \E i \in ofTool : \A k \in ofTool : k <= i
    <3> HIDE DEF ofTool
    <3> QED
      BY <1>2, <1>3, <1>5, Greatest
  <2>2. GetLatestQuerySnapshotForTool(tool) \in ofTool
    <3> HIDE DEF ofTool
    <3> QED
      BY <1>1, <1>5, <2>1
  <2> QED
    BY <1>3, <2>2
<1> QED
  BY <1>4, <1>5

LEMMA PersistReadsPreserves ==
  ASSUME IndInv, NEW q \in {"turn", "user"}, PersistReads(q), calls' = calls
  PROVE  IndInv'
<1> DEFINE old == reader[q]
           latest == GetLatestQuerySnapshotForTool(old.tool)
           previous == IF q = "user" THEN old.previous ELSE latest
           asked == [old EXCEPT !.op = "insert", !.previous = previous]
           held == IF Own \notin Live THEN Idle ELSE asked
<1>1. old.op = "answered" /\ UNCHANGED <<report, audience, budget, ran, chain, snapshot, writes>>
  BY DEF PersistReads, At
<1>2. TypeOK /\ q \in Readers /\ snapshot \in Seq(Snapshot) /\ calls' \in 0..MaxOperations
  BY DEF IndInv, TypeOK, Readers
<1>3. old \in Hold /\ HeldFits(q, old) /\ old.previous \in Nat
  BY <1>2, HeldTypes DEF IndInv, ReadersFit
<1>4. Goto(q, held)
  BY DEF PersistReads, Held
<1>5. latest \in Nat /\ (latest # 0 => latest \in DOMAIN snapshot /\ snapshot[latest].tool = old.tool)
  BY <1>2, LatestFacts
<1> HIDE DEF old, latest
<1>6. previous \in Nat /\ (previous # 0 => previous \in DOMAIN snapshot /\ snapshot[previous].tool = old.tool)
  BY <1>3, <1>5 DEF HeldFits, FollowsItsTool
<1> HIDE DEF previous
<1>7. asked \in Hold
  BY <1>3, <1>6 DEF Hold, Ops
<1>8. /\ asked.op = "insert" /\ asked.tool = old.tool /\ asked.query = old.query
      /\ asked.previous = previous /\ asked.items = old.items
  BY <1>3 DEF Hold
<1> HIDE DEF asked
<1>9. HeldFits(q, asked)
  <2>1. AtItsTool(q, asked)
    BY <1>3, <1>8 DEF HeldFits, AtItsTool, ListOps, ContentOps, PageOps, Ops
  <2>2. FollowsItsTool(asked)
    BY <1>6, <1>8 DEF FollowsItsTool
  <2>3. LeadershipHeld(asked)
    BY <1>1, <1>3, <1>8 DEF HeldFits, LeadershipHeld
  <2>4. RowsReadOnce(asked) /\ PageFits(asked)
    BY <1>8 DEF RowsReadOnce, PageFits, PageOps
  <2> QED
    BY <2>1, <2>2, <2>3, <2>4 DEF HeldFits
<1>10. held \in Hold /\ HeldFits(q, held) /\ TurnFollowsChain(held)
  BY <1>2, <1>7, <1>8, <1>9, IdleFits DEF TurnFollowsChain, ListOps
<1> HIDE DEF held
<1> QED
  BY <1>1, <1>2, <1>4, <1>10, OnlyHeld

LEMMA InsertSnapshotPreserves ==
  ASSUME IndInv, NEW q \in {"turn", "user"}, InsertSnapshot(q), calls' = calls
  PROVE  IndInv'
<1> DEFINE old == reader[q]
           new == [tool |-> old.tool, query |-> old.query, items |-> old.items, previous |-> old.previous]
           n == Len(snapshot)
<1>1. /\ old.op = "insert" /\ snapshot' = Append(snapshot, new) /\ Goto(q, Idle)
      /\ UNCHANGED <<report, audience, budget, ran, chain, writes>>
  BY DEF InsertSnapshot, At, Held
<1>2. /\ TypeOK /\ q \in Readers /\ snapshot \in Seq(Snapshot) /\ calls' \in 0..MaxOperations
      /\ reader \in [Readers -> Hold]
  BY DEF IndInv, TypeOK, Readers
<1>3. /\ old \in Hold /\ HeldFits(q, old) /\ old.previous \in Nat /\ old.tool \in Tools
      /\ old.query \in Query /\ old.items \in Seq(Row)
  BY <1>2, HeldTypes DEF IndInv, ReadersFit
<1> HIDE DEF old
<1>4. new \in Snapshot
  BY <1>3 DEF Snapshot
<1>5. /\ new.tool = old.tool /\ new.query = old.query /\ new.items = old.items
      /\ new.previous = old.previous
  OBVIOUS
<1> HIDE DEF new
<1>6. /\ snapshot' \in Seq(Snapshot) /\ n \in Nat /\ DOMAIN snapshot = 1..n /\ DOMAIN snapshot' = 1..(n + 1)
      /\ snapshot'[n + 1] = new /\ \A i \in 1..n : snapshot'[i] = snapshot[i]
  BY <1>1, <1>2, <1>4
<1> HIDE DEF n
<1>7. /\ reader' \in [Readers -> Hold] /\ reader'[q] = Idle
      /\ \A p \in Readers : p # q => reader'[p] = reader[p]
  BY <1>1, <1>2, IdleFits DEF Goto
<1>8. TypeOK'
  BY <1>1, <1>2, <1>6, <1>7 DEF TypeOK
<1>9. ReportsFit' /\ WithinBudget' /\ BudgetHolds'
  BY <1>1 DEF IndInv, ReportsFit, WithinBudget, BudgetHolds
<1>10. old.previous # 0 => old.previous \in 1..n /\ snapshot[old.previous].tool = old.tool
  BY <1>3, <1>6 DEF HeldFits, FollowsItsTool
<1>11. SnapshotsFit'
  <2> SUFFICES ASSUME NEW i \in 1..(n + 1)
               PROVE  /\ snapshot'[i].query \in QueriesOf(snapshot'[i].tool)
                      /\ snapshot'[i].previous \in 0..(i - 1)
                      /\ audience = "leadership" => OnlyLeadership(snapshot'[i].items)
    BY <1>1, <1>6 DEF SnapshotsFit, OnlyLeadership, QueriesOf
  <2>1. CASE i \in 1..n
    BY <1>6, <2>1 DEF IndInv, SnapshotsFit
  <2>2. CASE i = n + 1
    <3>1. new.query \in QueriesOf(new.tool)
      BY <1>3, <1>5 DEF HeldFits, AtItsTool
    <3>2. new.previous \in 0..n
      BY <1>3, <1>5, <1>6, <1>10
    <3>3. audience = "leadership" => OnlyLeadership(new.items)
      BY <1>1, <1>3, <1>5 DEF HeldFits, LeadershipHeld, old
    <3>4. i - 1 = n
      BY <1>6, <2>2
    <3> QED
      BY <1>6, <2>2, <3>1, <3>2, <3>3, <3>4
  <2> QED
    BY <1>6, <2>1, <2>2
<1>12. SnapshotsKeepTheirTool'
  <2> SUFFICES ASSUME NEW i \in 1..(n + 1), snapshot'[i].previous # 0
               PROVE  snapshot'[snapshot'[i].previous].tool = snapshot'[i].tool
    BY <1>6 DEF SnapshotsKeepTheirTool
  <2>1. CASE i \in 1..n
    <3>1. snapshot[i].previous \in 0..(i - 1) /\ snapshot[snapshot[i].previous].tool = snapshot[i].tool
      BY <1>6, <2>1 DEF IndInv, SnapshotsFit, SnapshotsKeepTheirTool
    <3>2. snapshot[i].previous \in 1..n
      BY <1>6, <2>1, <3>1
    <3> QED
      BY <1>6, <2>1, <3>1, <3>2
  <2>2. CASE i = n + 1
    BY <1>5, <1>6, <1>10, <2>2
  <2> QED
    BY <1>6, <2>1, <2>2
<1>13. ReadersFit'
  <2> SUFFICES ASSUME NEW p \in Readers PROVE HeldFits(p, reader[p])'
    BY DEF ReadersFit
  <2>1. HeldFits(p, reader'[p])
    BY <1>7, IdleFits DEF IndInv, ReadersFit
  <2>2. AtItsTool(p, reader[p])'
    BY <2>1 DEF HeldFits, AtItsTool
  <2>3. FollowsItsTool(reader[p])'
    BY <1>6, <2>1 DEF HeldFits, FollowsItsTool
  <2>4. LeadershipHeld(reader[p])'
    BY <1>1, <2>1 DEF HeldFits, LeadershipHeld, OnlyLeadership
  <2>5. RowsReadOnce(reader[p])'
    BY <1>1, <2>1 DEF HeldFits, RowsReadOnce
  <2>6. PageFits(reader[p])'
    BY <1>1, <2>1 DEF HeldFits, PageFits
  <2> QED
    BY <2>2, <2>3, <2>4, <2>5, <2>6 DEF HeldFits
<1>14. chain' \in Chain /\ PagesDescend' /\ SteadyIsAhead' /\ TurnFollowsChain(Held("turn"))'
  <2>1. CASE q = "turn"
    <3>1. Held("turn")' = Idle /\ TurnFollowsChain(Idle)
      BY <1>2, <1>7, <2>1, IdleFits DEF Held, TurnFollowsChain, ListOps
    <3> QED
      BY <1>1, <3>1, ChainKept
  <2>2. CASE q # "turn"
    <3>1. Held("turn")' = Held("turn") /\ TurnFollowsChain(Held("turn"))
      BY <1>7, <2>2 DEF Held, IndInv, Readers
    <3> QED
      BY <1>1, <3>1, ChainKept
  <2> QED
    BY <2>1, <2>2
<1> QED
  BY <1>8, <1>9, <1>11, <1>12, <1>13, <1>14 DEF IndInv

(***************************************************************************)
(* The list tool.                                                          *)
(***************************************************************************)
\* What a reader of the list tool holds fits.
LEMMA ListHolds ==
  ASSUME NEW q \in {"turn", "user"}, NEW held \in Hold,
         held.op \in {"modern", "legacy", "answered"}, held.tool = "list", held.query \in ListQuery,
         held.op \in {"modern", "legacy"} => held.items = <<>>,
         FollowsItsTool(held), LeadershipHeld(held), RowsReadOnce(held)
  PROVE  HeldFits(q, held)
<1>1. AtItsTool(q, held)
  BY DEF AtItsTool, QueriesOf, ListOps, ContentOps, PageOps, Ops
<1>2. PageFits(held)
  BY DEF PageFits, PageOps
<1> QED
  BY <1>1, <1>2 DEF HeldFits

LEMMA ListHeld ==
  ASSUME IndInv, NEW q \in {"turn", "user"}, reader[q].op \in ListOps
  PROVE  LET held == reader[q]
         IN  /\ TypeOK /\ ReportsFit /\ q \in Readers /\ held \in Hold /\ held.tool = "list"
             /\ held.query \in ListQuery /\ NormalizeFilters(held.query) \in ListQuery
             /\ held.rows \in SUBSET Row /\ held.modern \in SUBSET Reports
             /\ FollowsItsTool(held) /\ LeadershipHeld(held) /\ RowsReadOnce(held)
             /\ held.items = <<>>
             /\ q = "turn" => TurnFollowsChain(held) /\ chain.state = "open" /\ held.query = chain.query
<1>1. TypeOK /\ ReportsFit /\ q \in Readers
  BY DEF IndInv, Readers
<1> DEFINE held == reader[q]
<1>2. HeldFits(q, held)
  BY <1>1 DEF IndInv, ReadersFit
<1>3. held \in Hold /\ held.rows \in SUBSET Row /\ held.modern \in SUBSET Reports
  BY <1>1, HeldTypes
<1>4. q = "turn" => TurnFollowsChain(held)
  BY DEF IndInv, Held
<1>5. held.op \in ListOps
  OBVIOUS
<1> HIDE DEF held
<1>6. held.tool = "list" /\ held.query \in ListQuery /\ held.items = <<>>
  BY <1>2, <1>5 DEF HeldFits, AtItsTool, QueriesOf, ListOps
<1>7. NormalizeFilters(held.query) \in ListQuery
  BY <1>6, QueryFacts
<1>8. q = "turn" => chain.state = "open" /\ held.query = chain.query
  BY <1>4, <1>5 DEF TurnFollowsChain
<1> QED
  BY <1>1, <1>2, <1>3, <1>4, <1>6, <1>7, <1>8 DEF held, HeldFits

LEMMA RefusePreserves ==
  ASSUME IndInv, NEW q \in {"turn", "user"}, At(q, "list"), Refuse(q), calls' = calls,
         UNCHANGED <<report, audience, budget, ran, snapshot, writes>>
  PROVE  IndInv'
<1> DEFINE old == reader[q]
           held == [old EXCEPT !.op = "answered"]
<1>1. old.op = "list" /\ old.op \in ListOps
  BY DEF At, ListOps
<1>2. /\ TypeOK /\ q \in Readers /\ old \in Hold /\ old.tool = "list" /\ old.query \in ListQuery
      /\ FollowsItsTool(old) /\ old.items = <<>>
  BY <1>1, ListHeld
<1>3. Goto(q, held) /\ chain' = IF q = "turn" THEN [chain EXCEPT !.state = "none"] ELSE chain
  BY DEF Refuse, Held
<1>4. calls' \in 0..MaxOperations
  BY <1>2 DEF TypeOK
<1> HIDE DEF old
<1>5. held \in Hold
  BY <1>2 DEF Hold, Ops
<1>6. /\ held.op = "answered" /\ held.tool = "list" /\ held.query = old.query
      /\ held.previous = old.previous /\ held.items = <<>>
  BY <1>2 DEF Hold
<1> HIDE DEF held
<1>7. FollowsItsTool(held) /\ LeadershipHeld(held) /\ RowsReadOnce(held) /\ TurnFollowsChain(held)
  BY <1>2, <1>6 DEF FollowsItsTool, LeadershipHeld, OnlyLeadership, RowsReadOnce, TurnFollowsChain, ListOps
<1>8. HeldFits(q, held)
  BY <1>2, <1>5, <1>6, <1>7, ListHolds
<1>9. CASE q = "turn"
  <2>1. chain' \in Chain /\ PagesDescend' /\ SteadyIsAhead'
    BY <1>3, <1>9, ChainDropped
  <2>2. Held("turn")' = held
    BY <1>2, <1>3, <1>5, <1>9, NextHeld
  <2>3. TurnFollowsChain(Held("turn"))'
    BY <1>6, <2>2 DEF TurnFollowsChain, ListOps
  <2> QED
    BY <1>2, <1>3, <1>4, <1>5, <1>8, <2>1, <2>3, BudgetKept, Frame
<1>10. CASE q # "turn"
  <2>1. chain' = chain
    BY <1>3, <1>10
  <2> QED
    BY <1>2, <1>3, <1>4, <1>5, <1>8, <1>10, <2>1, OnlyHeld
<1> QED
  BY <1>9, <1>10

LEMMA After ==
  ASSUME TypeOK, NEW a \in Reports, NEW b \in Reports, NEW cursor \in Cursors, cursor # NoCursor
  PROVE  /\ ~AfterCursor(a, cursor) /\ AfterCursor(b, cursor) => Newer(a, b)
         /\ AfterCursor(a, cursor) /\ Newer(a, b) => AfterCursor(b, cursor)
<1>1. /\ a \in Nat /\ b \in Nat /\ report[a].week \in Nat /\ report[b].week \in Nat
      /\ cursor[1] \in Nat /\ cursor[2] \in Nat
  <2>1. cursor \in (1..NWeeks) \X Reports
    BY DEF Cursors
  <2>2. cursor[1] \in Nat /\ cursor[2] \in Nat
    BY <2>1, ShelfAssumption DEF Reports
  <2> QED
    BY <2>2, WeeksAreNumbers
<1> QED
  BY <1>1 DEF AfterCursor, Newer

LEMMA Joined ==
  ASSUME NEW S, NEW s \in Seq(S), NEW t \in Seq(S), NEW u, u = s \o t
  PROVE  /\ u \in Seq(S) /\ Len(s) \in Nat /\ Len(t) \in Nat /\ Len(u) = Len(s) + Len(t)
         /\ \A i \in 1..Len(s) : u[i] = s[i]
         /\ \A i \in 1..Len(t) : u[Len(s) + i] = t[i]
         /\ DOMAIN s = 1..Len(s) /\ DOMAIN u = 1..(Len(s) + Len(t))
OBVIOUS

\* The items of a page that a chain of pages goes on with.
Continues(items) ==
  \A i \in 1..Len(items) :
    /\ items[i].id \in Reports /\ report[items[i].id].state # "absent"
    /\ chain.query.relation = "overlap" => AfterCursor(items[i].id, chain.query.cursor)

LEMMA PageContinues ==
  ASSUME TypeOK, NEW rows \in SUBSET Row, NEW page,
         IsPage(page, rows, NormalizeFilters(chain.query)),
         \A row \in rows : report[row.id].state # "absent"
  PROVE  Continues(page.items)
<1> DEFINE query == NormalizeFilters(chain.query)
<1>1. chain.query \in ListQuery /\ (chain.query.relation = "overlap" => query = chain.query)
  BY ChainTypes, QueryFacts
<1> SUFFICES ASSUME NEW i \in 1..Len(page.items)
             PROVE  /\ page.items[i].id \in Reports /\ report[page.items[i].id].state # "absent"
                    /\ chain.query.relation = "overlap" =>
                         AfterCursor(page.items[i].id, chain.query.cursor)
  BY DEF Continues
<1>2. page.items \in Seq(PageRows(rows, query))
  BY DEF IsPage
<1> HIDE DEF query
<1>3. page.items[i] \in PageRows(rows, query)
  BY <1>2
<1>4. page.items[i] \in rows /\ Related(page.items[i], query)
  BY <1>3 DEF PageRows
<1>5. page.items[i].id \in Reports
  BY <1>4, RowIds
<1> QED
  BY <1>1, <1>4, <1>5 DEF Related

\* The answer to the turn: its page follows the pages before it, and whatever
\* goes on matching is on it or after its cursor.
LEMMA ChainContinues ==
  ASSUME IndInv, chain.state = "open", NEW rows \in SUBSET Row, NEW page,
         IsPage(page, rows, NormalizeFilters(chain.query)), Continues(page.items),
         chain.query.relation = "overlap" =>
           \A r \in chain.steady : \E row \in rows : row.id = r,
         UNCHANGED <<report, audience>>,
         chain' = [chain EXCEPT
                     !.listed = @ \o [i \in 1..Len(page.items) |-> page.items[i].id],
                     !.query.cursor = page.cursor,
                     !.state = IF page.cursor = NoCursor THEN "done" ELSE "open"]
  PROVE  chain' \in Chain /\ PagesDescend' /\ SteadyIsAhead'
<1> DEFINE ids == [i \in 1..Len(page.items) |-> page.items[i].id]
           query == NormalizeFilters(chain.query)
           old == chain.listed
           c == chain.query.cursor
           n == Len(old)
           m == Len(page.items)
           listed == old \o ids
           state == IF page.cursor = NoCursor THEN "done" ELSE "open"
<1>1. /\ TypeOK /\ chain \in Chain /\ chain.query \in ListQuery /\ old \in Seq(Reports)
      /\ chain.steady \in SUBSET Reports /\ c \in Cursors
      /\ chain.query.relation \in {"overlap", "previous_adjacent"}
  BY ChainTypes DEF IndInv, TypeOK
<1>2. page.cursor \in Cursors /\ page.items \in Seq(PageRows(rows, query)) /\ m \in Nat
  BY DEF IsPage
<1>3. /\ query.relation = "overlap" => chain.query.relation = "overlap"
      /\ chain.query.relation = "overlap" => query = chain.query
  BY <1>1, QueryFacts
<1>4. /\ chain'.query.relation = chain.query.relation /\ chain'.query.stale = chain.query.stale
      /\ chain'.query.legacy = chain.query.legacy /\ chain'.query.cursor = page.cursor
      /\ chain'.query \in ListQuery /\ chain'.listed = listed
      /\ chain'.steady = chain.steady /\ chain'.state = state
  <2> DEFINE next == [chain.query EXCEPT !.cursor = page.cursor]
  <2>1. chain' = [chain EXCEPT !.listed = listed, !.query = next, !.state = state]
    OBVIOUS
  <2>2. next \in ListQuery
    BY <1>1, <1>2 DEF ListQuery, Cursors
  <2>3. /\ next.relation = chain.query.relation /\ next.stale = chain.query.stale
        /\ next.legacy = chain.query.legacy /\ next.cursor = page.cursor
    BY <1>1 DEF ListQuery
  <2> HIDE DEF next, listed, state
  <2>4. /\ chain'.query = next /\ chain'.listed = listed /\ chain'.state = state
        /\ chain'.steady = chain.steady
    BY <1>1, <2>1 DEF Chain
  <2> QED
    BY <2>2, <2>3, <2>4
<1>5. ids \in Seq(Reports) /\ Len(ids) = m /\ \A i \in 1..m : ids[i] = page.items[i].id
  <2>1. \A i \in 1..m : page.items[i].id \in Reports
    BY DEF Continues
  <2> QED
    BY <1>2, <2>1
<1> HIDE DEF ids, query
<1>6. /\ listed \in Seq(Reports) /\ n \in Nat /\ Len(listed) = n + m
      /\ \A i \in 1..n : listed[i] = old[i]
      /\ \A i \in 1..m : listed[n + i] = ids[i]
      /\ DOMAIN old = 1..n /\ DOMAIN listed = 1..(n + m)
  <2>1. listed = old \o ids /\ n = Len(old)
    OBVIOUS
  <2> HIDE DEF old, m, listed, n
  <2>2. old \in Seq(Reports) /\ ids \in Seq(Reports)
    BY <1>1, <1>5
  <2>3. /\ listed \in Seq(Reports) /\ Len(old) \in Nat /\ Len(listed) = Len(old) + Len(ids)
        /\ \A i \in 1..Len(old) : listed[i] = old[i]
        /\ \A i \in 1..Len(ids) : listed[Len(old) + i] = ids[i]
        /\ DOMAIN old = 1..Len(old) /\ DOMAIN listed = 1..(Len(old) + Len(ids))
    BY <2>1, <2>2, Joined
  <2> QED
    BY <1>5, <2>1, <2>3
<1>7. chain' \in Chain
  <2>1. chain' = [query |-> chain'.query, listed |-> chain'.listed, steady |-> chain'.steady,
                  state |-> chain'.state]
    BY <1>1 DEF Chain
  <2>2. state \in {"none", "open", "done"}
    OBVIOUS
  <2> HIDE DEF listed, state
  <2>3. chain'.listed \in Seq(Reports) /\ chain'.state \in {"none", "open", "done"}
    BY <1>4, <1>6, <2>2
  <2>4. chain'.steady \in SUBSET Reports
    BY <1>1, <1>4
  <2> QED
    BY <1>4, <2>1, <2>3, <2>4 DEF Chain
<1> HIDE DEF listed, old, n, m, c
<1>8. /\ \A i \in 1..n : old[i] \in Reports /\ report[old[i]].state # "absent"
      /\ \A i, k \in 1..n : i < k => Newer(old[i], old[k])
      /\ c = NoCursor => n = 0
      /\ c # NoCursor => /\ chain.query.relation = "overlap"
                         /\ \A i \in 1..n : ~AfterCursor(old[i], c)
  <2>1. PagesDescend
    BY DEF IndInv
  <2>2. \A i \in 1..n : old[i] \in Reports
    BY <1>1, <1>6
  <2>3. c = NoCursor => n = 0
    <3>1. c = NoCursor => old = <<>>
      BY <2>1 DEF PagesDescend, c, old
    <3>2. old = <<>> => n = 0
      BY DEF n
    <3> QED
      BY <3>1, <3>2
  <2>4. /\ \A i \in 1..n : report[old[i]].state # "absent"
        /\ \A i, k \in 1..n : i < k => Newer(old[i], old[k])
        /\ c # NoCursor => /\ chain.query.relation = "overlap"
                           /\ \A i \in 1..n : ~AfterCursor(old[i], c)
    BY <1>6, <2>1 DEF PagesDescend, c, old
  <2> QED
    BY <2>2, <2>3, <2>4
<1>9. \A i \in 1..m : /\ ids[i] \in Reports /\ report[ids[i]].state # "absent"
                      /\ c # NoCursor => AfterCursor(ids[i], c)
  BY <1>5, <1>8 DEF Continues, m, c
<1>10. \A i, k \in 1..m : i < k => Newer(ids[i], ids[k])
  BY <1>5 DEF IsPage, m
<1>11. \A i \in 1..n, k \in 1..m : Newer(old[i], ids[k])
  <2> TAKE i \in 1..n, k \in 1..m
  <2>1. c # NoCursor
    BY <1>8
  <2> QED
    BY <1>1, <1>8, <1>9, <2>1, After
<1> DEFINE Part(j) == \/ j \in 1..n /\ listed[j] = old[j]
                      \/ j - n \in 1..m /\ listed[j] = ids[j - n]
<1>12. \A j \in 1..(n + m) : Part(j)
  <2> TAKE j \in 1..(n + m)
  <2>1. CASE j \in 1..n
    BY <1>6, <2>1
  <2>2. CASE j \notin 1..n
    <3>1. j - n \in 1..m /\ n + (j - n) = j
      BY <1>2, <1>6, <2>2 DEF m
    <3> QED
      BY <1>6, <3>1
  <2> QED
    BY <2>1, <2>2
<1> HIDE DEF Part
<1>13. \A i, k \in 1..(n + m) : i < k => Newer(listed[i], listed[k])
  <2> SUFFICES ASSUME NEW i \in 1..(n + m), NEW k \in 1..(n + m), i < k
               PROVE  Newer(listed[i], listed[k])
    OBVIOUS
  <2>1. \/ i \in 1..n /\ listed[i] = old[i]
        \/ i - n \in 1..m /\ listed[i] = ids[i - n]
    <3>1. Part(i)
      BY <1>12
    <3> QED
      BY <3>1 DEF Part
  <2>2. \/ k \in 1..n /\ listed[k] = old[k]
        \/ k - n \in 1..m /\ listed[k] = ids[k - n]
    <3>1. Part(k)
      BY <1>12
    <3> QED
      BY <3>1 DEF Part
  <2>3. n \in Nat /\ m \in Nat
    BY <1>2, <1>6 DEF m
  <2>4. CASE i \in 1..n /\ listed[i] = old[i]
    BY <1>8, <1>11, <2>2, <2>4
  <2>5. CASE i - n \in 1..m /\ listed[i] = ids[i - n]
    <3>1. k - n \in 1..m /\ listed[k] = ids[k - n] /\ i - n < k - n
      BY <2>2, <2>3, <2>5
    <3> QED
      BY <1>10, <2>5, <3>1
  <2> QED
    BY <2>1, <2>4, <2>5
<1>14. page.cursor # NoCursor => /\ chain.query.relation = "overlap"
                                 /\ \A j \in 1..(n + m) : ~AfterCursor(listed[j], page.cursor)
  <2> SUFFICES ASSUME page.cursor # NoCursor
               PROVE  /\ chain.query.relation = "overlap"
                      /\ \A j \in 1..(n + m) : ~AfterCursor(listed[j], page.cursor)
    OBVIOUS
  <2>1. chain.query.relation = "overlap" /\ m # 0
    BY <1>3 DEF IsPage, m, query
  <2>2. \A i \in 1..m : ~AfterCursor(ids[i], page.cursor)
    BY <1>5 DEF IsPage, m
  <2>3. 1 \in 1..m
    BY <1>2, <2>1 DEF m
  <2>4. \A i \in 1..n : ~AfterCursor(old[i], page.cursor)
    BY <1>1, <1>2, <1>8, <1>9, <1>11, <2>2, <2>3, After
  <2> QED
    BY <1>12, <2>1, <2>2, <2>4 DEF Part
<1>15. PagesDescend'
  <2>1. \A j \in 1..(n + m) : report[listed[j]].state # "absent"
    BY <1>8, <1>9, <1>12 DEF Part
  <2>2. page.cursor = NoCursor => chain'.state # "open"
    BY <1>4
  <2>3. DOMAIN chain'.listed = 1..(n + m)
    BY <1>4, <1>6
  <2>4. (\A i \in DOMAIN chain.listed : report[chain.listed[i]].state # "absent")'
    BY <1>4, <2>1, <2>3
  <2>5. (\A i, k \in DOMAIN chain.listed : i < k => Newer(chain.listed[i], chain.listed[k]))'
    <3> DEFINE N(a, b) == \/ report'[a].week > report'[b].week
                          \/ report'[a].week = report'[b].week /\ a > b
    <3>1. \A a, b : N(a, b) <=> Newer(a, b)
      BY DEF Newer
    <3> HIDE DEF N
    <3>2. \A i, k \in DOMAIN chain'.listed : i < k => N(chain'.listed[i], chain'.listed[k])
      BY <1>4, <1>13, <2>3, <3>1
    <3> QED
      BY <3>2 DEF N, Newer
  <2>6. (chain.query.cursor # NoCursor =>
           /\ chain.query.relation = "overlap"
           /\ \A i \in DOMAIN chain.listed : ~AfterCursor(chain.listed[i], chain.query.cursor))'
    BY <1>4, <1>14, <2>3 DEF AfterCursor
  <2>7. (chain.query.cursor = NoCursor /\ chain.state = "open" => chain.listed = <<>>)'
    BY <1>4, <2>2
  <2> QED
    BY <2>4, <2>5, <2>6, <2>7 DEF PagesDescend
<1>16. SteadyIsAhead'
  <2>1. Matching(report, chain.query)' = Matching(report, chain.query)
    BY <1>4 DEF Matching, ListAuthorizedReportVariants, LegacyRows, Modern, Statuses
  <2>2. chain.steady \subseteq Matching(report, chain.query)
    BY DEF IndInv, SteadyIsAhead
  <2>3. (chain.steady \subseteq Matching(report, chain.query))'
    BY <1>4, <2>1, <2>2
  <2>4. ASSUME chain.query.relation = "overlap", NEW r \in chain.steady
        PROVE  \/ r \in ToSet(listed)
               \/ page.cursor # NoCursor /\ AfterCursor(r, page.cursor)
    <3>1. r \in ToSet(old) \/ AfterCursor(r, c)
      BY <2>4 DEF IndInv, SteadyIsAhead, old, c
    <3>2. CASE r \in ToSet(old)
      <4>1. PICK i \in 1..n : old[i] = r
        BY <1>6, <3>2 DEF ToSet
      <4>2. i \in 1..(n + m) /\ listed[i] = r
        BY <1>2, <1>6, <4>1 DEF m
      <4> QED
        BY <1>6, <4>2 DEF ToSet
    <3>3. CASE AfterCursor(r, c)
      <4>1. PICK row \in rows : row.id = r
        BY <2>4
      <4>2. row \in PageRows(rows, query)
        BY <1>3, <2>4, <3>3, <4>1 DEF PageRows, Related, c
      <4>3. On(row, page.items) \/ (page.cursor # NoCursor /\ AfterCursor(r, page.cursor))
        BY <1>3, <2>4, <4>1, <4>2 DEF IsPage, query
      <4>4. ASSUME On(row, page.items) PROVE r \in ToSet(listed)
        <5>1. PICK i \in 1..m : page.items[i] = row
          BY <4>4 DEF On, m
        <5>2. n + i \in 1..(n + m) /\ listed[n + i] = r
          BY SMTT(20), <1>2, <1>5, <1>6, <4>1, <5>1 DEF m
        <5> QED
          BY <1>6, <5>2 DEF ToSet
      <4> QED
        BY <4>3, <4>4
    <3> QED
      BY <3>1, <3>2, <3>3
  <2>5. ASSUME NEW r PROVE AfterCursor(r, chain.query.cursor)' <=> AfterCursor(r, page.cursor)
    BY <1>4 DEF AfterCursor
  <2>6. page.cursor # NoCursor => chain'.state = "open"
    BY <1>4
  <2>7. (chain.query.relation = "overlap" => \A r \in chain.steady :
           \/ chain.state = "none" \/ r \in ToSet(chain.listed)
           \/ chain.state = "open" /\ AfterCursor(r, chain.query.cursor))'
    BY <1>4, <2>4, <2>5, <2>6
  <2> QED
    BY <2>3, <2>7 DEF SteadyIsAhead
<1> QED
  BY <1>7, <1>15, <1>16

LEMMA AnswerPreserves ==
  ASSUME IndInv, NEW q \in {"turn", "user"}, reader[q].op \in ListOps, calls' = calls,
         NEW rows \in SUBSET Row, OfDifferentReports(rows), AnswerList(q, rows),
         UNCHANGED <<report, audience, budget, ran, snapshot, writes>>,
         audience = "leadership" => \A row \in rows : row.text = "leadership",
         \A row \in rows : report[row.id].state # "absent",
         q = "turn" /\ chain.query.relation = "overlap" =>
           \A r \in chain.steady : \E row \in rows : row.id = r
  PROVE  IndInv'
<1> DEFINE old == reader[q]
           query == NormalizeFilters(old.query)
           page == Page(rows, query)
           held == [old EXCEPT !.op = "answered", !.rows = {}, !.modern = {}, !.items = page.items]
<1>1. /\ TypeOK /\ q \in Readers /\ old \in Hold /\ old.tool = "list" /\ old.query \in ListQuery
      /\ query \in ListQuery /\ FollowsItsTool(old)
      /\ q = "turn" => chain.state = "open" /\ old.query = chain.query
  BY ListHeld
<1>2. Goto(q, held) /\ chain' = IF q # "turn" THEN chain
                 ELSE [chain EXCEPT
                   !.listed = @ \o [i \in 1..Len(page.items) |-> page.items[i].id],
                   !.query.cursor = page.cursor,
                   !.state = IF page.cursor = NoCursor THEN "done" ELSE "open"]
  BY DEF AnswerList, Held
<1>3. calls' \in 0..MaxOperations
  BY <1>1 DEF TypeOK
<1>4. IsPage(page, rows, query)
  BY <1>1, PageFacts
<1> HIDE DEF page, old
<1>5. page.items \in Seq(Row) /\ (audience = "leadership" => OnlyLeadership(page.items))
  <2>1. page.items \in Seq(PageRows(rows, query))
    BY <1>4 DEF IsPage
  <2>2. PageRows(rows, query) \subseteq rows
    BY DEF PageRows
  <2> HIDE DEF query
  <2>3. page.items \in Seq(Row) /\ \A i \in DOMAIN page.items : page.items[i] \in rows
    BY <2>1, <2>2
  <2> QED
    BY <2>3 DEF OnlyLeadership
<1>6. held \in Hold
  BY <1>1, <1>5 DEF Hold, Ops
<1>7. /\ held.op = "answered" /\ held.tool = "list" /\ held.query = old.query
      /\ held.previous = old.previous /\ held.items = page.items
  BY <1>1 DEF Hold
<1> HIDE DEF held
<1>8. FollowsItsTool(held) /\ LeadershipHeld(held) /\ RowsReadOnce(held)
  BY <1>1, <1>5, <1>7 DEF FollowsItsTool, LeadershipHeld, RowsReadOnce
<1>9. TurnFollowsChain(held)
  BY <1>7 DEF TurnFollowsChain, ListOps
<1>10. HeldFits(q, held)
  BY <1>1, <1>6, <1>7, <1>8, ListHolds
<1>11. CASE q = "turn"
  <2>1. chain.state = "open" /\ old.query = chain.query
    BY <1>1, <1>11
  <2>2. IsPage(page, rows, NormalizeFilters(chain.query))
    BY <1>4, <2>1
  <2>3. Continues(page.items)
    BY <1>1, <2>2, PageContinues
  <2>4. chain' = [chain EXCEPT
                   !.listed = @ \o [i \in 1..Len(page.items) |-> page.items[i].id],
                   !.query.cursor = page.cursor,
                   !.state = IF page.cursor = NoCursor THEN "done" ELSE "open"]
    BY <1>2, <1>11
  <2>5. chain' \in Chain /\ PagesDescend' /\ SteadyIsAhead'
    BY <1>11, <2>1, <2>2, <2>3, <2>4, ChainContinues
  <2>6. Held("turn")' = held
    BY <1>1, <1>2, <1>6, <1>11, NextHeld
  <2>7. TurnFollowsChain(Held("turn"))'
    BY <1>7, <2>6 DEF TurnFollowsChain, ListOps
  <2> QED
    BY <1>1, <1>2, <1>3, <1>6, <1>10, <2>5, <2>7, BudgetKept, Frame
<1>12. CASE q # "turn"
  <2>1. chain' = chain
    BY <1>2, <1>12
  <2> QED
    BY <1>1, <1>2, <1>3, <1>6, <1>10, <1>12, <2>1, OnlyHeld
<1> QED
  BY <1>11, <1>12

\* What goes on matching the turn's query.
LEMMA SteadyMatches ==
  ASSUME IndInv, NEW r \in chain.steady
  PROVE  r \in Reports /\ Matches(report, chain.query, r)
BY ChainTypes, MatchingIs DEF IndInv, SteadyIsAhead

LEMMA ReadAuthorizedPreserves ==
  ASSUME IndInv, NEW q \in {"turn", "user"}, ReadAuthorized(q), calls' = calls
  PROVE  IndInv'
<1> DEFINE old == reader[q]
           query == NormalizeFilters(old.query)
           rows == ListAuthorizedReportVariants(report, query)
           held == [old EXCEPT !.op = "modern", !.rows = rows]
<1>1. At(q, "list") /\ old.op = "list" /\ old.op \in ListOps /\ UNCHANGED <<report, audience, budget, ran, snapshot, writes>>
  BY DEF ReadAuthorized, At, ListOps
<1>2. /\ TypeOK /\ ReportsFit /\ q \in Readers /\ old \in Hold /\ old.tool = "list"
      /\ old.query \in ListQuery /\ query \in ListQuery /\ FollowsItsTool(old) /\ old.items = <<>>
      /\ q = "turn" => chain.state = "open" /\ old.query = chain.query
  BY <1>1, ListHeld
<1>3. /\ rows \in SUBSET Row /\ OfDifferentReports(rows)
      /\ \A row \in rows :
           /\ row.id \in Modern(report) /\ row.text # "none"
           /\ row = [id |-> row.id, text |-> report[row.id].final[audience], legacy |-> FALSE]
      /\ \A r \in Reports : (\E row \in rows : row.id = r) <=>
           /\ r \in Modern(report)
           /\ report[r].status[audience] \in Statuses(query)
           /\ report[r].final[audience] # "none" /\ report[r].adopted[audience]
  BY <1>2, AuthorizedFacts
<1>4. \A row \in rows : /\ row.id \in Reports /\ report[row.id].state = "live" /\ report[row.id].revision > 0
                        /\ row.text = audience
  <2> TAKE row \in rows
  <2>1. row.id \in Reports /\ report[row.id].state = "live" /\ report[row.id].revision > 0
    BY <1>3 DEF Modern
  <2>2. row.text = report[row.id].final[audience] /\ row.text # "none"
    <3>1. row = [id |-> row.id, text |-> report[row.id].final[audience], legacy |-> FALSE]
      BY <1>3
    <3> HIDE DEF rows
    <3> QED
      BY <1>3, <3>1
  <2>3. report[row.id].final[audience] \in {"none", audience}
    BY <1>2, <2>1 DEF ReportsFit, TypeOK
  <2> QED
    BY <2>1, <2>2, <2>3
<1>5. calls' \in 0..MaxOperations
  BY <1>2 DEF TypeOK
<1>6. q = "turn" /\ chain.query.relation = "overlap" => query = chain.query
  BY <1>2, QueryFacts
<1> DEFINE refused == Own \notin Live \/ (query.legacy /\ ~ReadsLegacy)
<1>7. CASE refused
  <2>1. Refuse(q)
    BY <1>7 DEF ReadAuthorized, Held
  <2> QED
    BY <1>1, <2>1, RefusePreserves
<1>8. CASE ~refused /\ query.legacy
  <2>1. Goto(q, held) /\ chain' = chain
    BY <1>8 DEF ReadAuthorized, Held
  <2>2. audience # "leadership"
    BY <1>8 DEF ReadsLegacy
  <2> HIDE DEF old, rows, query
  <2>3. held \in Hold
    BY <1>2, <1>3 DEF Hold, Ops, ListOps
  <2>4. /\ held.op = "modern" /\ held.tool = "list" /\ held.query = old.query /\ held.rows = rows
        /\ held.previous = old.previous /\ held.items = <<>>
    BY <1>2 DEF Hold
  <2> HIDE DEF held
  <2>5. FollowsItsTool(held) /\ LeadershipHeld(held)
    BY <1>2, <2>2, <2>4 DEF FollowsItsTool, LeadershipHeld
  <2>6. RowsReadOnce(held)
    BY <1>3, <1>4, <2>4 DEF RowsReadOnce, OfDifferentReports
  <2>7. HeldFits(q, held)
    BY <1>2, <2>3, <2>4, <2>5, <2>6, ListHolds
  <2>8. q = "turn" => TurnFollowsChain(held)
    <3> SUFFICES ASSUME q = "turn"
                 PROVE  chain.steady \intersect Modern(report) \subseteq {row.id : row \in rows}
      BY <1>2, <2>4 DEF TurnFollowsChain
    <3> SUFFICES ASSUME NEW r \in chain.steady, r \in Modern(report)
                 PROVE  \E row \in rows : row.id = r
      OBVIOUS
    <3>1. r \in Reports /\ Matches(report, chain.query, r) /\ report[r].revision > 0
      BY SteadyMatches DEF Modern
    <3>2. query = chain.query
      <4>1. chain.query \in ListQuery /\ chain.query.relation \in {"overlap", "previous_adjacent"}
        BY <1>2, ChainTypes
      <4>2. query = NormalizeFilters(chain.query)
        BY <1>2 DEF query
      <4>3. chain.query.relation = "previous_adjacent" => ~query.legacy
        BY <4>2 DEF NormalizeFilters, FirstPage
      <4> QED
        BY <1>6, <1>8, <4>1, <4>3
    <3> QED
      BY <1>3, <3>1, <3>2 DEF Matches
  <2> QED
    BY <1>1, <1>2, <1>5, <2>1, <2>3, <2>7, <2>8, OnlyHeld
<1>9. CASE ~refused /\ ~query.legacy
  <2>1. AnswerList(q, rows)
    BY <1>9 DEF ReadAuthorized, Held
  <2>2. q = "turn" /\ chain.query.relation = "overlap" =>
           \A r \in chain.steady : \E row \in rows : row.id = r
    <3> SUFFICES ASSUME q = "turn", chain.query.relation = "overlap", NEW r \in chain.steady
                 PROVE  \E row \in rows : row.id = r
      OBVIOUS
    <3>1. r \in Reports /\ Matches(report, chain.query, r) /\ query = chain.query
      BY <1>6, SteadyMatches
    <3> HIDE DEF rows, query
    <3> QED
      BY <1>3, <1>9, <3>1 DEF Matches, Modern
  <2>3. audience = "leadership" => \A row \in rows : row.text = "leadership"
    BY <1>4
  <2>4. \A row \in rows : report[row.id].state # "absent"
    BY <1>4
  <2> HIDE DEF rows, query
  <2> QED
    BY <1>1, <1>3, <2>1, <2>2, <2>3, <2>4, AnswerPreserves
<1> QED
  BY <1>7, <1>8, <1>9

LEMMA ReadModernPreserves ==
  ASSUME IndInv, NEW q \in {"turn", "user"}, ReadModern(q), calls' = calls
  PROVE  IndInv'
<1> DEFINE old == reader[q]
           held == [old EXCEPT !.op = "legacy", !.modern = Modern(report)]
<1>1. old.op = "modern" /\ old.op \in ListOps /\ UNCHANGED <<report, audience, budget, ran, chain, snapshot, writes>>
  BY DEF ReadModern, At, ListOps
<1>2. /\ TypeOK /\ q \in Readers /\ old \in Hold /\ old.tool = "list"
      /\ old.query \in ListQuery /\ FollowsItsTool(old) /\ LeadershipHeld(old) /\ RowsReadOnce(old)
      /\ old.items = <<>> /\ old.rows \in SUBSET Row
      /\ q = "turn" => TurnFollowsChain(old) /\ chain.state = "open" /\ old.query = chain.query
  BY <1>1, ListHeld
<1>3. Goto(q, held)
  BY DEF ReadModern, Held
<1>4. calls' \in 0..MaxOperations
  BY <1>2 DEF TypeOK
<1> HIDE DEF old
<1>5. Modern(report) \in SUBSET Reports
  BY DEF Modern
<1>6. held \in Hold
  BY <1>2, <1>5 DEF Hold, Ops, ListOps
<1>7. /\ held.op = "legacy" /\ held.tool = "list" /\ held.query = old.query /\ held.rows = old.rows
      /\ held.previous = old.previous /\ held.items = <<>> /\ held.modern = Modern(report)
  BY <1>2 DEF Hold
<1> HIDE DEF held
<1>8. FollowsItsTool(held) /\ LeadershipHeld(held)
  BY <1>1, <1>2, <1>7 DEF FollowsItsTool, LeadershipHeld
<1>9. RowsReadOnce(held)
  <2>1. /\ \A x, y \in old.rows : x.id = y.id => x = y
        /\ \A x \in old.rows : report[x.id].state # "absent" /\ report[x.id].revision > 0
    BY <1>1, <1>2 DEF RowsReadOnce
  <2>2. \A x \in old.rows : x.id \in Modern(report) \/ report[x.id].state = "deleted"
    <3> TAKE x \in old.rows
    <3>1. x.id \in Reports
      BY <1>2, RowIds
    <3>2. report[x.id].state \in {"absent", "live", "deleted"}
      BY <1>2, <3>1, ReportTypes
    <3> QED
      BY <2>1, <3>1, <3>2 DEF Modern
  <2> QED
    BY <1>7, <2>1, <2>2 DEF RowsReadOnce
<1>10. HeldFits(q, held)
  BY <1>2, <1>6, <1>7, <1>8, <1>9, ListHolds
<1>11. q = "turn" => TurnFollowsChain(held)
  BY <1>1, <1>2, <1>7 DEF TurnFollowsChain
<1> QED
  BY <1>1, <1>2, <1>3, <1>4, <1>6, <1>10, <1>11, OnlyHeld

LEMMA ReadLegacyPreserves ==
  ASSUME IndInv, NEW q \in {"turn", "user"}, ReadLegacy(q), calls' = calls
  PROVE  IndInv'
<1> DEFINE old == reader[q]
           legacy == LegacyRows(report, old.modern)
           rows == old.rows \union legacy
<1>1. old.op = "legacy" /\ old.op \in ListOps /\ UNCHANGED <<report, audience, budget, ran, snapshot, writes>>
  BY DEF ReadLegacy, At, ListOps
<1>2. /\ TypeOK /\ ReportsFit /\ q \in Readers /\ LeadershipHeld(old) /\ RowsReadOnce(old)
      /\ old.rows \in SUBSET Row
      /\ q = "turn" => TurnFollowsChain(old) /\ old.query = chain.query
  BY <1>1, ListHeld
<1>3. AnswerList(q, rows)
  BY DEF ReadLegacy, Held
<1>4. /\ legacy \in SUBSET Row /\ OfDifferentReports(legacy)
      /\ \A row \in legacy : row.id \notin old.modern /\ report[row.id].state = "live"
      /\ \A r \in Reports : (\E row \in legacy : row.id = r) <=>
           r \notin old.modern /\ report[r].state = "live" /\ report[r].content # "none"
  BY <1>2, LegacyFacts
<1>5. audience # "leadership"
  BY <1>1, <1>2 DEF LeadershipHeld
<1>6. /\ \A x, y \in old.rows : x.id = y.id => x = y
      /\ \A x \in old.rows :
           /\ report[x.id].state # "absent"
           /\ x.id \in old.modern \/ report[x.id].state = "deleted"
  BY <1>1, <1>2 DEF RowsReadOnce
<1>7. q = "turn" => \A r \in chain.steady : \E row \in rows : row.id = r
  <2> SUFFICES ASSUME q = "turn", NEW r \in chain.steady
               PROVE  \E row \in rows : row.id = r
    OBVIOUS
  <2>1. r \in Reports /\ report[r].state = "live" /\ report[r].content # "none"
    BY <1>2, SteadyMatches DEF Matches, ReportsFit
  <2>2. /\ chain.steady \intersect Modern(report) \subseteq {row.id : row \in old.rows}
        /\ chain.steady \intersect old.modern \subseteq Modern(report)
    BY <1>1, <1>2 DEF TurnFollowsChain
  <2> HIDE DEF old, legacy
  <2>3. CASE r \in Modern(report)
    BY <2>2, <2>3
  <2>4. CASE r \notin Modern(report)
    BY <1>4, <2>1, <2>2, <2>4
  <2> QED
    BY <2>3, <2>4
<1> HIDE DEF old, legacy
<1>8. OfDifferentReports(rows) /\ rows \in SUBSET Row /\ \A row \in rows : report[row.id].state # "absent"
  BY <1>2, <1>4, <1>6 DEF OfDifferentReports
<1> HIDE DEF rows
<1> QED
  BY <1>1, <1>3, <1>5, <1>7, <1>8, AnswerPreserves DEF old

(***************************************************************************)
(* The theorems.                                                           *)
(***************************************************************************)
LEMMA CallsPreserve ==
  ASSUME IndInv, Calls, writes + calls < MaxOperations, calls' = calls + 1
  PROVE  IndInv'
<1>1. calls' \in 0..MaxOperations
  <2>1. writes \in 0..MaxOperations /\ calls \in 0..MaxOperations /\ MaxOperations \in Nat
    BY ShelfAssumption DEF IndInv, TypeOK
  <2> QED
    BY <2>1
<1>2. Permissions \subseteq [stale : BOOLEAN, legacy : BOOLEAN]
  BY ShelfAssumption
<1>3. ASSUME NEW relation \in {"overlap", "previous_adjacent"}, NEW p \in Permissions,
             TurnLists([relation |-> relation, stale |-> p.stale, legacy |-> p.legacy, cursor |-> NoCursor])
      PROVE  IndInv'
  <2> DEFINE query == [relation |-> relation, stale |-> p.stale, legacy |-> p.legacy, cursor |-> NoCursor]
  <2>1. query \in ListQuery
    BY <1>2 DEF ListQuery
  <2> HIDE DEF query
  <2>2. TurnLists(query)
    BY <1>3 DEF query
  <2> QED
    BY <1>1, <2>1, <2>2, TurnListsPreserves
<1>4. ASSUME TurnLists(chain.query) PROVE IndInv'
  <2>1. chain.query \in ListQuery
    BY ChainTypes DEF IndInv
  <2> QED
    BY <1>1, <1>4, <2>1, TurnListsPreserves
<1>5. ASSUME NEW r \in Reports, NEW p \in Permissions,
             TurnReads([report |-> r, stale |-> p.stale, legacy |-> p.legacy])
      PROVE  IndInv'
  <2> DEFINE query == [report |-> r, stale |-> p.stale, legacy |-> p.legacy]
  <2>1. query \in ContentQuery
    BY <1>2 DEF ContentQuery
  <2> HIDE DEF query
  <2>2. TurnReads(query)
    BY <1>5 DEF query
  <2> QED
    BY <1>1, <2>1, <2>2, TurnReadsPreserves
<1>6. ASSUME NEW i \in DOMAIN snapshot, RefreshHistoricalQuery(i) PROVE IndInv'
  BY <1>1, <1>6, RefreshPreserves
<1>7. ASSUME ListReports PROVE IndInv'
  BY <1>1, <1>7, ListReportsPreserves
<1>8. ASSUME NEW r \in Reports, GetReport(r) PROVE IndInv'
  BY <1>1, <1>8, GetReportPreserves
<1> QED
  BY <1>3, <1>4, <1>5, <1>6, <1>7, <1>8 DEF Calls

LEMMA StatementsPreserve == ASSUME IndInv, Statements, UNCHANGED calls PROVE IndInv'
<1>1. ASSUME NEW q \in {"turn", "user"}, ReadAuthorized(q) PROVE IndInv'
  BY <1>1, ReadAuthorizedPreserves
<1>2. ASSUME NEW q \in {"turn", "user"}, ReadModern(q) PROVE IndInv'
  BY <1>2, ReadModernPreserves
<1>3. ASSUME NEW q \in {"turn", "user"}, ReadLegacy(q) PROVE IndInv'
  BY <1>3, ReadLegacyPreserves
<1>4. ASSUME NEW q \in {"turn", "user"}, ReadReport(q) PROVE IndInv'
  BY <1>4, ReadReportPreserves
<1>5. ASSUME NEW q \in {"turn", "user"}, ReadVariant(q) PROVE IndInv'
  BY <1>5, ReadVariantPreserves
<1>6. ASSUME NEW q \in {"turn", "user"}, ReadAnyVariant(q) PROVE IndInv'
  BY <1>6, ReadAnyVariantPreserves
<1>7. ASSUME NEW q \in {"turn", "user"}, PersistReads(q) PROVE IndInv'
  BY <1>7, PersistReadsPreserves
<1>8. ASSUME NEW q \in {"turn", "user"}, InsertSnapshot(q) PROVE IndInv'
  BY <1>8, InsertSnapshotPreserves
<1>9. ASSUME ListVariants \/ GetVariants \/ GetSnapshots PROVE IndInv'
  BY <1>9, ListVariantsPreserves, GetVariantsPreserves, GetSnapshotsPreserves
<1> QED
  BY <1>1, <1>2, <1>3, <1>4, <1>5, <1>6, <1>7, <1>8, <1>9 DEF Statements

LEMMA StutterPreserves == ASSUME IndInv, UNCHANGED vars PROVE IndInv'
<1> DEFINE held == reader["turn"]
<1>1. /\ "turn" \in Readers /\ held \in Hold /\ HeldFits("turn", held) /\ TurnFollowsChain(held)
      /\ reader \in [Readers -> Hold] /\ calls \in 0..MaxOperations
  BY DEF IndInv, TypeOK, Readers, ReadersFit, Held
<1>2. UNCHANGED <<report, audience, budget, ran, chain, snapshot, writes>> /\ calls' = calls /\ reader' = reader
  BY DEF vars
<1>3. Goto("turn", held)
  BY <1>1, <1>2 DEF Goto
<1>4. calls' \in 0..MaxOperations
  BY <1>1, <1>2
<1> HIDE DEF held
<1> QED
  BY <1>1, <1>2, <1>3, <1>4, OnlyHeld

LEMMA NextPreserves == IndInv /\ [Next]_vars => IndInv'
<1> SUFFICES ASSUME IndInv, [Next]_vars PROVE IndInv'
  OBVIOUS
<1>1. ASSUME writes + calls < MaxOperations, writes' = writes + 1, Writes, UNCHANGED calls PROVE IndInv'
  BY <1>1, WritesPreserve
<1>2. ASSUME writes + calls < MaxOperations, calls' = calls + 1, Calls PROVE IndInv'
  BY <1>2, CallsPreserve
<1>3. ASSUME Statements, UNCHANGED calls PROVE IndInv'
  BY <1>3, StatementsPreserve
<1>4. ASSUME NewTurn, UNCHANGED calls PROVE IndInv'
  BY <1>4, NewTurnPreserves
<1>5. ASSUME UNCHANGED vars PROVE IndInv'
  BY <1>5, StutterPreserves
<1> QED
  BY <1>1, <1>2, <1>3, <1>4, <1>5 DEF Next

\* Between any two statements of the two query tools, of a refresh and of the
\* report pages, whatever reports are written in between: what a reader holds,
\* the snapshots and the turn's pages fit the reports (package tools,
\* src/internal/engine/tools; src/internal/api/reports).
THEOREM Invariance == Spec => []IndInv
BY InitHolds, NextPreserves, PTL DEF Spec

\* The two tools agree on what they give of a report, a report's page asks for
\* event snapshots there are, and the ranges of a content answer are the lines
\* around the matching ones, whatever matches.
THEOREM WellFormedHolds == Spec => []WellFormed
<1>1. IndInv => WellFormed
  BY Agreement, Bundles, Ranges DEF WellFormed, IndInv
<1> QED
  BY <1>1, Invariance, PTL

\* A leadership session is given leadership finals only, by either tool, also
\* when a query is refreshed.
THEOREM LeadershipReads == Spec => []LeadershipReadsItsOwn
<1>1. IndInv => LeadershipReadsItsOwn
  <2> SUFFICES ASSUME IndInv, audience = "leadership"
               PROVE  /\ \A i \in DOMAIN snapshot : OnlyLeadership(snapshot[i].items)
                      /\ \A q \in {"turn", "user"} : At(q, "answered") => OnlyLeadership(reader[q].items)
    BY DEF LeadershipReadsItsOwn, OnlyLeadership
  <2>1. \A i \in DOMAIN snapshot : OnlyLeadership(snapshot[i].items)
    BY DEF IndInv, SnapshotsFit
  <2>2. ASSUME NEW q \in {"turn", "user"}, At(q, "answered") PROVE OnlyLeadership(reader[q].items)
    <3>1. LeadershipHeld(reader[q])
      BY DEF IndInv, ReadersFit, HeldFits, Readers
    <3> QED
      BY <2>2, <3>1 DEF LeadershipHeld, At
  <2> QED
    BY <2>1, <2>2
<1> QED
  BY <1>1, Invariance, PTL

\* The pages of a list query list no report twice, and to their end every
\* report that went on matching.
THEOREM PagesSteady == Spec => []PagesListSteadyReports
<1>1. IndInv => PagesListSteadyReports
  <2> SUFFICES ASSUME IndInv PROVE PagesListSteadyReports
    OBVIOUS
  <2>1. TypeOK /\ chain.listed \in Seq(Reports)
    BY ChainTypes DEF IndInv
  <2>2. ASSUME NEW i \in DOMAIN chain.listed, NEW k \in DOMAIN chain.listed,
               chain.listed[i] = chain.listed[k]
        PROVE  i = k
    <3>1. i \in Nat /\ k \in Nat /\ chain.listed[i] \in Reports
      BY <2>1
    <3>2. ~Newer(chain.listed[i], chain.listed[i])
      <4>1. chain.listed[i] \in Nat /\ report[chain.listed[i]].week \in Nat
        BY <2>1, <3>1, WeeksAreNumbers
      <4> QED
        BY <4>1 DEF Newer
    <3>3. ~(i < k) /\ ~(k < i)
      BY <2>2, <3>2 DEF IndInv, PagesDescend
    <3> QED
      BY <3>1, <3>3
  <2>3. chain.state = "done" /\ chain.query.relation = "overlap" => chain.steady \subseteq ToSet(chain.listed)
    BY DEF IndInv, SteadyIsAhead
  <2> QED
    BY <2>2, <2>3 DEF PagesListSteadyReports
<1> QED
  BY <1>1, Invariance, PTL

\* What is shown of the rows read is true of the reports when it is shown.
LEMMA ShownIsTrue ==
  ASSUME IndInv, At("browser", "listed") \/ At("browser", "got"),
         NEW row \in ShownOf(reader["browser"].rows), row.id \in Live
  PROVE  row.text = TextOf(row.id)
<1> DEFINE rows == reader["browser"].rows
           r == row.id
<1>1. TypeOK /\ ReportsFit /\ rows \in SUBSET Row
  BY HeldTypes DEF IndInv, Readers
<1>2. PageFits(reader["browser"]) /\ reader["browser"].op \in {"listed", "got"}
  BY DEF IndInv, ReadersFit, HeldFits, Readers, At
<1>3. \A x \in rows : report[x.id].revision = 0 => x.text = report[x.id].content
  BY <1>2 DEF PageFits
<1> HIDE DEF rows
<1>4. PICK old \in rows : row.id = old.id /\ row.text = Shown(old)
  BY <1>1, ShownOfFacts DEF rows
<1>5. r \in Reports /\ report[r].state = "live" /\ report[r].revision \in Nat /\ "personal" \in Audiences
  BY <1>1, ReportTypes DEF Live, Audiences
<1>6. CASE report[r].revision > 0
  <2>1. r \in Modern(report)
    BY <1>5, <1>6 DEF Modern
  <2>2. report[r].final["personal"] = "none" => report[r].content = "draft"
    BY <1>1, <1>5, <1>6 DEF ReportsFit
  <2> QED
    BY <1>4, <2>1, <2>2 DEF Shown, TextOf
<1>7. CASE report[r].revision = 0
  <2>1. r \notin Modern(report)
    BY <1>5, <1>7 DEF Modern
  <2>2. report[r].final["personal"] = "none"
    BY <1>1, <1>5, <1>7 DEF ReportsFit
  <2>3. old.text = report[r].content
    BY <1>3, <1>4, <1>7
  <2> QED
    BY <1>4, <2>1, <2>2, <2>3 DEF Shown, TextOf
<1> QED
  BY <1>5, <1>6, <1>7

\* A page shows of each report the text it had when the page was read or shown,
\* unless the report was deleted meanwhile.
THEOREM ShownTrue == Spec => ShownTextWasTrue
<1> DEFINE Showing == At("browser", "listed") \/ At("browser", "got")
           TrueThen == \A row \in reader'["browser"].rows :
                     Held("browser")' = Held("browser") \/ row \in Held("browser").was \/ row.text = TextOf(row.id)
                       \/ row.id \notin Live
<1>1. IndInv /\ [Next]_vars => (Showing => TrueThen)
  <2> SUFFICES ASSUME IndInv, [Next]_vars, Showing PROVE TrueThen
    OBVIOUS
  <2>1. "browser" \in Readers /\ reader \in [Readers -> Hold]
    BY DEF IndInv, TypeOK, Readers
  <2>2. ASSUME NEW q \in {"turn", "user"}, NEW held, Goto(q, held) PROVE TrueThen
    BY <2>1, <2>2 DEF Goto, Held
  <2>3. ASSUME reader' = reader PROVE TrueThen
    BY <2>3 DEF Held
  <2>4. ASSUME NEW held, held.rows = ShownOf(reader["browser"].rows), Goto("browser", held) PROVE TrueThen
    <3>1. reader'["browser"].rows = ShownOf(reader["browser"].rows)
      BY <2>1, <2>4 DEF Goto
    <3> QED
      BY <3>1, ShownIsTrue
  <2>5. CASE Writes
    BY <2>3, <2>5, WriteFacts DEF IndInv
  <2>6. CASE Calls
    <3>1. ~ListReports /\ \A r \in Reports : ~GetReport(r)
      BY DEF ListReports, GetReport, At
    <3>2. (\E query : TurnLists(query) \/ TurnReads(query)) \/ \E i \in DOMAIN snapshot : RefreshHistoricalQuery(i)
      BY <2>6, <3>1 DEF Calls
    <3>3. \E q \in {"turn", "user"} : \E held : Goto(q, held)
      BY <3>2 DEF TurnLists, TurnReads, RefreshHistoricalQuery
    <3> QED
      BY <2>2, <3>3
  <2>7. CASE Statements
    <3>1. ~GetSnapshots
      BY DEF GetSnapshots, At
    <3>2. CASE ListVariants
      <4> DEFINE held == [Idle EXCEPT !.rows = ShownOf(Held("browser").rows)]
      <4>1. Goto("browser", held)
        BY <3>2 DEF ListVariants
      <4>2. held.rows = ShownOf(reader["browser"].rows)
        BY DEF Idle, Held
      <4> HIDE DEF held
      <4> QED
        BY <2>4, <4>1, <4>2
    <3>3. CASE GetVariants
      <4> DEFINE rows == Held("browser").rows
                 r == (CHOOSE row \in rows : TRUE).id
                 held == [Idle EXCEPT !.op = "bundle", !.rows = ShownOf(rows),
                                     !.variant = IF ListReportVariants(r) = {} THEN NoVariant
                                                 ELSE VariantOf(report, r)]
      <4>1. Goto("browser", held)
        BY <3>3 DEF GetVariants
      <4>2. held.rows = ShownOf(reader["browser"].rows)
        BY DEF Idle, Held
      <4> HIDE DEF held
      <4> QED
        BY <2>4, <4>1, <4>2
    <3>4. CASE \E q \in {"turn", "user"} :
                 \/ ReadAuthorized(q) \/ ReadModern(q) \/ ReadLegacy(q)
                 \/ ReadReport(q) \/ ReadVariant(q) \/ ReadAnyVariant(q)
                 \/ PersistReads(q) \/ InsertSnapshot(q)
      <4>1. \E q \in {"turn", "user"} : \E held : Goto(q, held)
        BY <3>4 DEF ReadAuthorized, ReadModern, ReadLegacy, ReadReport, ReadVariant, ReadAnyVariant,
                    PersistReads, InsertSnapshot, Refuse, AnswerList
      <4> QED
        BY <2>2, <4>1
    <3> QED
      BY <2>7, <3>1, <3>2, <3>3, <3>4 DEF Statements
  <2>8. CASE NewTurn
    BY <2>3, <2>8 DEF NewTurn
  <2>9. CASE UNCHANGED vars
    BY <2>3, <2>9 DEF vars
  <2> QED
    BY <2>5, <2>6, <2>7, <2>8, <2>9 DEF Next
<1>2. Spec => [][Showing => TrueThen]_vars
  <2> HIDE DEF Showing, TrueThen
  <2> QED
    BY <1>1, Invariance, PTL DEF Spec
<1> QED
  BY <1>2 DEF ShownTextWasTrue

=============================================================================
