------------------------ MODULE CollectSync_proofs ------------------------
(***************************************************************************)
(* Proofs about CollectSync, for any number of sources, requests and       *)
(* branches, pages of any size and any clock: IndInv is inductive.         *)
(***************************************************************************)
EXTENDS CollectSync, TLAPS

USE DEF At, Goto, Step, Absent, NoBranch, NoSource, Unnamed, db, repository

(***************************************************************************)
(* One cursor, under one name.                                             *)
(***************************************************************************)
Good(s, n, x) ==
  /\ x <= clock /\ (Ref(n).state = "never" => x <= 0)
  /\ \A c \in Reachable(n) : c < x => events[s][c] # <<>> \/ <<n, c>> \in late

BranchRow == [state : {"never", "live", "gone"}, has : SUBSET Commits]

LEMMA NameFacts ==
  /\ Sources \subseteq Nat \ {0} /\ Branches \subseteq Nat \ {0} /\ Branches \subseteq Names
  /\ Names \subseteq Nat /\ 0 \in Names /\ -1 \notin Names
  /\ Current \in Branches /\ \A n \in Names : (IF n = 0 THEN Current ELSE n) \in Branches
  /\ Commits \subseteq Nat \ {0} /\ Commits \subseteq Dates /\ Dates \subseteq Nat /\ 0 \in Dates
  /\ -1 \notin Dates
BY CollectAssumption DEF Branches, Names, Commits, Dates

LEMMA RefFacts ==
  ASSUME branch \in [Branches -> BranchRow], NEW n \in Names
  PROVE  Ref(n) \in BranchRow /\ Reachable(n) \subseteq Commits
BY NameFacts DEF Ref, Reachable, BranchRow

LEMMA TrustedIsGood ==
  ASSUME NEW s, NEW config
  PROVE  Trusted(s, config) <=>
           \A n \in Names : Good(s, n, config.branches[n]) /\ Good(s, n, config.cursors[n])
BY DEF Trusted, IsPast, Covers, Good

LEMMA SmallIsGood ==
  ASSUME TypeOK, NEW s, NEW n \in Names, NEW x \in {-1, 0}
  PROVE  Good(s, n, x)
<1>1. clock \in Nat
  BY CollectAssumption DEF TypeOK
<1>2. Reachable(n) \subseteq Nat \ {0}
  BY NameFacts, RefFacts DEF TypeOK, BranchRow
<1> QED
  BY <1>1, <1>2 DEF Good

LEMMA IdleFacts == /\ Idle \in Request /\ Idle.op = "idle" /\ Idle.source = 0 /\ Idle.queue = {}
                   /\ EmptyConfig \in Config /\ Idle.newest \in [Names -> Dates]
                   /\ \A n \in Names : Idle.newest[n] = 0
<1>1. EmptyConfig \in Config
  BY NameFacts DEF EmptyConfig, NewConfig, NoCursors, Config
<1> QED
  BY <1>1, NameFacts DEF Idle, Request

LEMMA IdleFits == Fits(Idle)
BY IdleFacts DEF Fits

(***************************************************************************)
(* What a step leaves true for those who trust a cursor.                   *)
(***************************************************************************)
Frame ==
  /\ clock \in Nat /\ clock' \in Nat /\ clock <= clock' /\ late \subseteq late'
  /\ branch \in [Branches -> BranchRow] /\ branch' \in [Branches -> BranchRow]
  /\ \A s \in Sources, c \in Commits : events[s][c] # <<>> => events'[s][c] # <<>>
  /\ \A n \in Names :
       /\ Ref(n).state # "never" => (Ref(n).state # "never")'
       /\ \A c \in Commits : (c \in Reachable(n))' =>
            c \in Reachable(n) \/ c >= clock \/ <<n, c>> \in late' \/ Ref(n).state = "never"

LEMMA GoodStays ==
  ASSUME Frame, NEW s \in Sources, NEW n \in Names, NEW x \in Int, Good(s, n, x)
  PROVE  Good(s, n, x)'
<1>1. x <= clock' /\ ((Ref(n).state = "never")' => x <= 0)
  BY DEF Frame, Good
<1>2. ASSUME NEW c \in Commits, (c \in Reachable(n))', c < x
      PROVE  events'[s][c] # <<>> \/ <<n, c>> \in late'
  <2>1. c \in Nat \ {0}
    BY NameFacts
  <2>2. CASE c \in Reachable(n)
    BY <1>2, <2>2 DEF Frame, Good
  <2>3. CASE c >= clock
    BY <1>2, <2>1, <2>3 DEF Frame, Good
  <2>4. CASE <<n, c>> \in late'
    BY <2>4
  <2>5. CASE Ref(n).state = "never"
    BY <1>2, <2>1, <2>5 DEF Frame, Good
  <2> QED
    BY <1>2, <2>2, <2>3, <2>4, <2>5 DEF Frame
<1>3. \A c : (c \in Reachable(n))' => c \in Commits
  BY NameFacts DEF Frame, BranchRow, Reachable, Ref
<1> QED
  BY <1>1, <1>2, <1>3 DEF Good

LEMMA TrustedStays ==
  ASSUME Frame, NEW s \in Sources, NEW config \in Config, Trusted(s, config)
  PROVE  Trusted(s, config)'
<1>1. \A n \in Names : config.branches[n] \in Int /\ config.cursors[n] \in Int
  <2>1. config.branches \in [Names -> {-1} \union Dates] /\ config.cursors \in [Names -> {-1} \union Dates]
    BY DEF Config
  <2>2. {-1} \union Dates \subseteq Int
    BY NameFacts
  <2> QED
    BY <2>1, <2>2
<1>2. \A n \in Names : Good(s, n, config.branches[n]) /\ Good(s, n, config.cursors[n])
  BY TrustedIsGood
<1>3. \A n \in Names : Good(s, n, config.branches[n])' /\ Good(s, n, config.cursors[n])'
  BY <1>1, <1>2, GoodStays
<1> QED
  BY <1>3 DEF Trusted, IsPast, Covers, Good

LEMMA FetchedStays ==
  ASSUME Frame, NEW h \in Request, Fetched(h)
  PROVE  Fetched(h)'
<1>1. h.now \in Nat /\ \A n \in Names : h.newest[n] \in Nat
  BY NameFacts DEF Request
<1>2. h.now <= clock' /\ \A n \in Names : h.newest[n] <= h.now
  BY <1>1 DEF Frame, Fetched
<1>3. \A n \in Names : h.newest[n] <= clock' /\ ((Ref(n).state = "never")' => h.newest[n] <= 0)
  BY <1>1 DEF Frame, Fetched, IsPast
<1>4. ASSUME NEW n \in Names, NEW c \in Commits, (c \in Reachable(n))', c < h.newest[n]
      PROVE  c < Cursor(h, n) \/ h.first[c] # -1 \/ <<n, c>> \in late'
  <2>1. c \in Nat \ {0} /\ h.newest[n] <= clock
    BY <1>1, NameFacts DEF Frame, Fetched, IsPast
  <2>2. CASE c \in Reachable(n)
    BY <1>4, <2>2 DEF Frame, Fetched
  <2>3. CASE c >= clock
    BY <1>1, <1>4, <2>1, <2>3 DEF Frame
  <2>4. CASE <<n, c>> \in late'
    BY <2>4
  <2>5. CASE Ref(n).state = "never"
    BY <1>1, <1>4, <2>1, <2>5 DEF Fetched, IsPast
  <2> QED
    BY <1>4, <2>2, <2>3, <2>4, <2>5 DEF Frame
<1>5. \A n \in Names : \A c : (c \in Reachable(n))' => c \in Commits
  BY NameFacts DEF Frame, BranchRow, Reachable, Ref
<1>6. \A n \in Names : Cursor(h, n)' = Cursor(h, n)
  BY DEF Cursor
<1> QED
  BY <1>2, <1>3, <1>4, <1>5, <1>6 DEF Fetched, IsPast

LEMMA FitsStay ==
  ASSUME Frame, NEW h \in Request, Fits(h),
         h.op = "insert" => events'[h.source] = events[h.source]
  PROVE  Fits(h)'
<1>1. h.source # 0 => h.source \in Sources /\ h.config \in Config
  BY DEF Request
<1>2. h.source # 0 => Trusted(h.source, h.config)'
  <2> PICK config : config = h.config
    OBVIOUS
  <2> QED
    BY <1>1, TrustedStays DEF Fits
<1>3. h.op \in {"collect", "insert", "save"} => Fetched(h)'
  BY FetchedStays DEF Fits
<1>4. h.op = "insert" => h.known = (ListRawEventMetadataBySourceID(h.source))'
  BY DEF Fits, ListRawEventMetadataBySourceID
<1>5. h.op = "save" => \A c \in Commits : h.first[c] # -1 => events'[h.source][c] # <<>>
  BY <1>1 DEF Fits, Frame
<1>6. (h.newest = Idle.newest)' <=> h.newest = Idle.newest
  BY DEF Idle
<1> QED
  BY <1>2, <1>3, <1>4, <1>5, <1>6 DEF Fits

(***************************************************************************)
(* Locks and requests.                                                     *)
(***************************************************************************)
\* A request takes a lock nobody holds, keeps it, or leaves it.
LEMMA LocksFollow ==
  ASSUME TypeOK, LocksAreOwned, NEW r \in Requests, NEW held \in Request,
         request' = [request EXCEPT ![r] = held],
         lock' \in [Sources -> SUBSET Requests],
         \A s \in Sources :
           /\ lock'[s] = (lock[s] \ {r}) \union {q \in {r} : WorksOn(held, s)}
           /\ WorksOn(held, s) => lock[s] \subseteq {r}
  PROVE  LocksAreOwned'
<1> SUFFICES ASSUME NEW s \in Sources
             PROVE  /\ lock'[s] = {q \in Requests : WorksOn(request'[q], s)}
                    /\ \A p, q \in lock'[s] : p = q
  BY DEF LocksAreOwned, WorksOn
<1>1. request'[r] = held /\ \A q \in Requests : q # r => request'[q] = request[q]
  BY DEF TypeOK
<1>2. lock[s] = {q \in Requests : WorksOn(request[q], s)} /\ \A p, q \in lock[s] : p = q
  BY DEF LocksAreOwned
<1> QED
  BY <1>1, <1>2

Kept == UNCHANGED <<events, clock, branch>> /\ late \subseteq late'
        /\ late' \subseteq Names \X Commits /\ incidents' \in 0..MaxIncidents

LEMMA KeptIsFrame == IndInv /\ Kept => Frame
<1> SUFFICES ASSUME IndInv, Kept PROVE Frame
  OBVIOUS
<1>1. clock \in Nat /\ branch \in [Branches -> BranchRow]
  BY CollectAssumption DEF IndInv, TypeOK, BranchRow
<1> QED
  BY <1>1 DEF Kept, Frame, Ref, Reachable

LEMMA RequestsFit ==
  ASSUME IndInv, Frame, NEW r \in Requests, NEW held \in Request, Fits(held)',
         request' = [request EXCEPT ![r] = held],
         \A q \in Requests : q # r /\ request[q].op = "insert" =>
           events'[request[q].source] = events[request[q].source]
  PROVE  request' \in [Requests -> Request] /\ \A q \in Requests : Fits(request[q])'
<1>1. request' \in [Requests -> Request]
  BY DEF IndInv, TypeOK
<1>2. ASSUME NEW q \in Requests PROVE Fits(request[q])'
  <2>1. PICK h \in Request : h = request'[q]
    BY <1>1
  <2>2. Fits(h)'
    <3>1. CASE q = r
      BY <2>1, <3>1 DEF IndInv, TypeOK
    <3>2. CASE q # r
      <4>1. h = request[q] /\ Fits(request[q])
        BY <2>1, <3>2 DEF IndInv, TypeOK
      <4>2. Fits(h)
        BY <4>1
      <4> QED
        BY <3>2, <4>1, <4>2, FitsStay
    <3> QED
      BY <3>1, <3>2
  <2> QED
    BY <2>1, <2>2 DEF Fits, Trusted, Fetched, IsPast, Covers, Cursor, ListRawEventMetadataBySourceID
<1> QED
  BY <1>1, <1>2

RowsTrusted == /\ row' \in [Sources -> Row]
               /\ \A s \in Sources : Trusted(s, row'[s].config)

\* A statement of one request, which may write a row it has reason to trust.
LEMMA StepTo ==
  ASSUME IndInv, Kept, RowsTrusted, NEW r \in Requests, NEW held \in Request, Fits(held)',
         request' = [request EXCEPT ![r] = held],
         lock' \in [Sources -> SUBSET Requests],
         \A s \in Sources :
           /\ lock'[s] = (lock[s] \ {r}) \union {q \in {r} : WorksOn(held, s)}
           /\ WorksOn(held, s) => lock[s] \subseteq {r}
  PROVE  IndInv'
<1>1. Frame
  BY KeptIsFrame
<1>2. Fits(held)'
  OBVIOUS
<1>3. request' \in [Requests -> Request] /\ \A q \in Requests : Fits(request[q])'
  BY <1>1, <1>2, RequestsFit DEF Kept
<1>4. LocksAreOwned'
  BY LocksFollow DEF IndInv
<1>5. CursorsAreTrusted'
  <2> SUFFICES ASSUME NEW s \in Sources PROVE Trusted(s, row[s].config)'
    BY DEF CursorsAreTrusted
  <2>1. PICK config \in Config : config = row'[s].config
    BY DEF RowsTrusted, Row
  <2>2. Trusted(s, config)'
    BY <1>1, <2>1, TrustedStays DEF RowsTrusted
  <2> QED
    BY <2>1, <2>2 DEF Trusted, IsPast, Covers
<1>6. TypeOK'
  BY <1>3 DEF IndInv, TypeOK, Kept, RowsTrusted
<1>7. NoDuplicates' /\ BranchesHaveAPast'
  BY DEF IndInv, NoDuplicates, BranchesHaveAPast, Kept
<1> QED
  BY <1>3, <1>4, <1>5, <1>6, <1>7 DEF IndInv

LEMMA StepPreserves ==
  ASSUME IndInv, Kept, RowsTrusted, NEW r \in Requests, NEW held \in Request, Fits(held),
         request' = [request EXCEPT ![r] = held],
         lock' \in [Sources -> SUBSET Requests],
         \A s \in Sources :
           /\ lock'[s] = (lock[s] \ {r}) \union {q \in {r} : WorksOn(held, s)}
           /\ WorksOn(held, s) => lock[s] \subseteq {r}
  PROVE  IndInv'
<1>1. Fits(held)'
  BY KeptIsFrame, FitsStay DEF Kept
<1> QED
  BY <1>1, StepTo

(***************************************************************************)
(* The ways a statement ends.                                              *)
(***************************************************************************)
LEMMA SameLock ==
  ASSUME IndInv, NEW r \in Requests, NEW held \in Request, UNCHANGED lock,
         \A s \in Sources : WorksOn(held, s) <=> WorksOn(request[r], s)
  PROVE  /\ lock' \in [Sources -> SUBSET Requests]
         /\ \A s \in Sources :
              /\ lock'[s] = (lock[s] \ {r}) \union {q \in {r} : WorksOn(held, s)}
              /\ WorksOn(held, s) => lock[s] \subseteq {r}
<1>1. ASSUME NEW s \in Sources
      PROVE  /\ lock'[s] = (lock[s] \ {r}) \union {q \in {r} : WorksOn(held, s)}
             /\ WorksOn(held, s) => lock[s] \subseteq {r}
  <2>1. lock[s] = {q \in Requests : WorksOn(request[q], s)} /\ \A p, q \in lock[s] : p = q
    BY DEF IndInv, LocksAreOwned
  <2> QED
    BY <2>1
<1>2. lock' \in [Sources -> SUBSET Requests]
  BY DEF IndInv, TypeOK
<1> QED
  BY <1>1, <1>2

LEMMA KeepsLock ==
  ASSUME IndInv, Kept, RowsTrusted, NEW r \in Requests, NEW held \in Request, Fits(held),
         request' = [request EXCEPT ![r] = held], UNCHANGED lock,
         \A s \in Sources : WorksOn(held, s) <=> WorksOn(request[r], s)
  PROVE  IndInv'
BY SameLock, StepPreserves

LEMMA TakesLock ==
  ASSUME IndInv, Kept, RowsTrusted, NEW r \in Requests, NEW held \in Request, Fits(held),
         request' = [request EXCEPT ![r] = held], request[r].source = 0,
         NEW s \in Sources, WorksOn(held, s), Acquire(r, s)
  PROVE  IndInv'
<1>1. lock' = [lock EXCEPT ![s] = {r}] /\ lock[s] = {} /\ lock' \in [Sources -> SUBSET Requests]
  BY DEF Acquire, IndInv, TypeOK
<1>2. ASSUME NEW t \in Sources
      PROVE  /\ lock'[t] = (lock[t] \ {r}) \union {q \in {r} : WorksOn(held, t)}
             /\ WorksOn(held, t) => lock[t] \subseteq {r}
  <2>1. r \notin lock[t]
    BY NameFacts DEF IndInv, LocksAreOwned, WorksOn
  <2>2. WorksOn(held, t) <=> t = s
    BY DEF WorksOn
  <2>3. lock'[t] = IF t = s THEN {r} ELSE lock[t]
    BY <1>1 DEF IndInv, TypeOK
  <2> QED
    BY <1>1, <2>1, <2>2, <2>3
<1> QED
  BY <1>1, <1>2, StepPreserves

LEMMA LeavesLock ==
  ASSUME IndInv, Kept, RowsTrusted, NEW r \in Requests, NEW held \in Request, Fits(held),
         request' = [request EXCEPT ![r] = held], held.source = 0,
         Release(r, request[r].source)
  PROVE  IndInv'
<1>1. lock' = [lock EXCEPT ![request[r].source] = lock[request[r].source] \ {r}]
  BY DEF Release
<1>2. lock' \in [Sources -> SUBSET Requests]
  BY <1>1 DEF IndInv, TypeOK
<1>3. ASSUME NEW t \in Sources
      PROVE  /\ lock'[t] = (lock[t] \ {r}) \union {q \in {r} : WorksOn(held, t)}
             /\ WorksOn(held, t) => lock[t] \subseteq {r}
  <2>1. ~WorksOn(held, t)
    BY NameFacts DEF WorksOn
  <2>2. t # request[r].source => r \notin lock[t]
    BY DEF IndInv, LocksAreOwned, WorksOn
  <2>3. lock'[t] = IF t = request[r].source THEN lock[t] \ {r} ELSE lock[t]
    BY <1>1 DEF IndInv, TypeOK
  <2> QED
    BY <2>1, <2>2, <2>3
<1> QED
  BY <1>2, <1>3, StepPreserves

LEMMA DonePreserves ==
  ASSUME IndInv, Kept, RowsTrusted, NEW r \in Requests, Done(r)
  PROVE  IndInv'
<1>1. PICK held \in Request :
        held = IF request[r].queue = {} THEN Idle
               ELSE [Idle EXCEPT !.op = "next", !.resync = request[r].resync,
                                 !.queue = request[r].queue]
  BY IdleFacts DEF IndInv, TypeOK, Request
<1>2. held.source = 0 /\ held.op \in {"idle", "next"} /\ (held.op = "next" => held.queue # {})
  BY <1>1, IdleFacts DEF Idle
<1>3. Fits(held)
  BY <1>2 DEF Fits
<1> QED
  BY <1>1, <1>2, <1>3, LeavesLock DEF Done

LEMMA SameRows == IndInv /\ UNCHANGED row => RowsTrusted
BY DEF IndInv, TypeOK, CursorsAreTrusted, RowsTrusted

LEMMA UpdatedRows ==
  ASSUME IndInv, NEW s \in Sources, NEW changed \in Row, Trusted(s, changed.config),
         UpdateCollectSource(s, changed)
  PROVE  RowsTrusted
<1>1. /\ row' \in [Sources -> Row]
      /\ \A t \in Sources : row'[t] = row[t] \/ (t = s /\ row'[t] = changed)
  BY DEF UpdateCollectSource, IndInv, TypeOK
<1> QED
  BY <1>1 DEF RowsTrusted, IndInv, CursorsAreTrusted

\* Of a row, all but the configuration is changed.
LEMMA StatusRows ==
  ASSUME IndInv, NEW s \in Sources, NEW changed \in Row, changed.config = row[s].config,
         UpdateCollectSource(s, changed)
  PROVE  RowsTrusted
BY UpdatedRows DEF IndInv, CursorsAreTrusted

LEMMA NothingElse == IndInv /\ UNCHANGED <<events, repository>> => Kept
BY DEF IndInv, TypeOK, Kept

LEMMA AnIncident == IndInv /\ Incident /\ UNCHANGED <<events, clock, branch, late>> => Kept
BY CollectAssumption DEF IndInv, TypeOK, Kept, Incident

\* The request goes idle, and had no lock.
LEMMA GoesIdle ==
  ASSUME IndInv, Kept, RowsTrusted, NEW r \in Requests,
         request' = [request EXCEPT ![r] = Idle], UNCHANGED lock,
         request[r].op \in {"idle", "next", "put", "patch", "delete"}
  PROVE  IndInv'
<1>1. Fits(request[r])
  BY DEF IndInv
<1>2. \A s \in Sources : ~WorksOn(Idle, s) /\ ~WorksOn(request[r], s)
  BY <1>1, IdleFacts, NameFacts DEF Fits, WorksOn
<1> QED
  BY <1>2, IdleFacts, IdleFits, KeepsLock

(***************************************************************************)
(* Beginning a sync.                                                       *)
(***************************************************************************)
LEMMA BeginFits ==
  ASSUME IndInv, NEW h \in Request, NEW c \in Config, h.source \in Sources, Trusted(h.source, c),
         h.newest = Idle.newest
  PROVE  /\ Begin(h, c) \in Request /\ Fits(Begin(h, c))
         /\ Begin(h, c).source = h.source /\ Begin(h, c).op = "collect"
<1> DEFINE b == Begin(h, c)
<1>1. LocalBranchNames \subseteq Branches /\ NormalizeBranches(c) \subseteq Names /\ Branches \subseteq Names
  BY NameFacts DEF LocalBranchNames, NormalizeBranches, Named
<1>2. clock \in Nat /\ clock \in Dates /\ AllBranchesMode(h.type, c) \in BOOLEAN
  BY CollectAssumption DEF IndInv, TypeOK, Dates, AllBranchesMode
<1>3. b \in Request
  <2>1. PICK all \in BOOLEAN, heads \in SUBSET Branches, todo \in SUBSET Names :
          b = [h EXCEPT !.op = "collect", !.config = c, !.now = clock, !.all = all,
                        !.heads = heads, !.todo = todo]
    BY <1>1, <1>2 DEF Begin
  <2> HIDE DEF b
  <2> QED
    BY <1>2, <2>1 DEF Request
<1>4. /\ b.source = h.source /\ b.op = "collect" /\ b.now = clock /\ b.config = c
      /\ b.newest = Idle.newest
  BY DEF Begin, Request
<1> HIDE DEF b
<1>5. Fetched(b)
  <2>1. \A n \in Names : b.newest[n] = 0
    BY <1>4, IdleFacts
  <2>2. \A n \in Names : Reachable(n) \subseteq Nat \ {0}
    BY RefFacts, NameFacts DEF IndInv, TypeOK, BranchRow
  <2> QED
    BY <1>2, <1>4, <2>1, <2>2 DEF Fetched, IsPast
<1>6. h.source # 0
  BY NameFacts
<1> QED
  BY <1>3, <1>4, <1>5, <1>6 DEF Fits, b

LEMMA SyncSourcePreserves ==
  ASSUME IndInv, NEW r \in Requests, NEW s \in Sources, NEW given \in Request,
         given.newest = Idle.newest, given.config = EmptyConfig, request[r].source = 0,
         SyncSource(r, s, given), incidents' \in 0..MaxIncidents
  PROVE  IndInv'
<1> DEFINE c == row[s].config
           h == [given EXCEPT !.source = s, !.type = row[s].type]
           emails == [h EXCEPT !.op = "emails"]
           migrate == [h EXCEPT !.op = "migrate", !.config = c]
<1>1. Kept /\ RowsTrusted /\ Acquire(r, s)
  BY SameRows DEF SyncSource, Kept, IndInv, TypeOK
<1>2. c \in Config /\ row[s].type \in {"git-local", "remote"} /\ Trusted(s, c) /\ s # 0
  BY NameFacts DEF IndInv, TypeOK, Row, CursorsAreTrusted
<1>3. h \in Request /\ h.source = s /\ h.newest = Idle.newest /\ h.config = EmptyConfig
  BY <1>2 DEF Request
<1>4. Trusted(s, EmptyConfig)
  <2>1. \A n \in Names : EmptyConfig.branches[n] = -1 /\ EmptyConfig.cursors[n] = -1
    BY DEF EmptyConfig, NewConfig, NoCursors
  <2> QED
    BY <2>1, SmallIsGood, TrustedIsGood DEF IndInv
<1>5. /\ emails \in Request /\ emails.op = "emails" /\ emails.source = s
      /\ emails.config = EmptyConfig
      /\ migrate \in Request /\ migrate.op = "migrate" /\ migrate.source = s
      /\ migrate.config = c /\ migrate.newest = Idle.newest
  BY ZenonT(40), <1>2, <1>3 DEF Request
<1>6. Fits(emails) /\ Fits(migrate)
  BY <1>2, <1>4, <1>5 DEF Fits
<1>7. PICK held \in Request :
        /\ held = CASE ~c.emails -> emails
                    [] c.emails /\ Legacy(h.type, c) -> migrate
                    [] OTHER -> Begin(h, c)
        /\ held \in {emails, migrate, Begin(h, c)}
  <2>1. c.emails \in BOOLEAN
    BY <1>2 DEF Config
  <2>2. Begin(h, c) \in Request
    BY <1>2, <1>3, BeginFits
  <2> HIDE DEF emails, migrate, h, c
  <2> QED
    BY <1>5, <2>1, <2>2
<1>8. request' = [request EXCEPT ![r] = held]
  BY <1>7 DEF SyncSource, GetCollectSourceForExecution
<1>9. Fits(held) /\ held.source = s /\ held.op \in {"emails", "migrate", "collect"}
  <2>1. Fits(Begin(h, c)) /\ Begin(h, c).source = s /\ Begin(h, c).op = "collect"
    BY <1>2, <1>3, BeginFits
  <2> HIDE DEF emails, migrate, h, c
  <2> QED
    BY <1>5, <1>6, <1>7, <2>1
<1> QED
  BY <1>1, <1>8, <1>9, TakesLock DEF WorksOn

LEMMA SyncPreserves ==
  ASSUME IndInv, NEW r \in Requests, NEW s \in Sources, NEW resync \in BOOLEAN, Sync(r, s, resync)
  PROVE  IndInv'
<1>1. PICK given \in Request : given = [Idle EXCEPT !.resync = resync]
  BY IdleFacts DEF Request
<1>2. given.newest = Idle.newest /\ given.config = EmptyConfig
  BY <1>1 DEF Idle
<1>3. request[r].source = 0
  BY DEF Sync, IndInv, Fits
<1>4. incidents' \in 0..MaxIncidents
  BY CollectAssumption DEF Sync, Incident, IndInv, TypeOK
<1> QED
  BY <1>1, <1>2, <1>3, <1>4, SyncSourcePreserves DEF Sync

LEMMA SyncAllPreserves ==
  ASSUME IndInv, NEW r \in Requests, NEW resync \in BOOLEAN, SyncAll(r, resync)
  PROVE  IndInv'
<1> DEFINE S == {s \in ListEnabledCollectSources : row[s].config.emails}
<1>1. S \in SUBSET Sources /\ S # {}
  BY DEF SyncAll, ListEnabledCollectSources
<1> HIDE DEF S
<1>2. PICK held \in Request : held = [Idle EXCEPT !.op = "next", !.resync = resync, !.queue = S]
  BY <1>1, IdleFacts DEF Request
<1>3. held.op = "next" /\ held.source = 0 /\ held.queue = S
  BY <1>2 DEF Idle
<1>4. Fits(held)
  BY <1>1, <1>3 DEF Fits
<1>5. Kept /\ RowsTrusted
  BY SameRows, CollectAssumption DEF SyncAll, Incident, Kept, IndInv, TypeOK
<1>6. \A s \in Sources : ~WorksOn(held, s) /\ ~WorksOn(request[r], s)
  BY <1>3, NameFacts DEF SyncAll, IndInv, Fits, WorksOn
<1> QED
  BY <1>2, <1>4, <1>5, <1>6, KeepsLock DEF SyncAll, S

LEMMA NextSourcePreserves ==
  ASSUME IndInv, NEW r \in Requests, NEW s \in request[r].queue, NextSource(r, s)
  PROVE  IndInv'
<1>1. s \in Sources /\ request[r].queue \in SUBSET Sources /\ request[r].resync \in BOOLEAN
  BY DEF IndInv, TypeOK, Request
<1>2. PICK given \in Request :
        given = [Idle EXCEPT !.resync = request[r].resync, !.queue = request[r].queue \ {s}]
  BY <1>1, IdleFacts DEF Request
<1>3. given.newest = Idle.newest /\ given.config = EmptyConfig
  BY <1>2 DEF Idle
<1>4. request[r].source = 0
  BY DEF NextSource, IndInv, Fits
<1>5. incidents' \in 0..MaxIncidents
  BY DEF NextSource, IndInv, TypeOK
<1> QED
  BY <1>1, <1>2, <1>3, <1>4, <1>5, SyncSourcePreserves DEF NextSource

LEMMA NextUnusablePreserves ==
  ASSUME IndInv, NEW r \in Requests, NEW s \in request[r].queue, NextUnusable(r, s)
  PROVE  IndInv'
<1> DEFINE h == request[r]
<1>0. h \in Request /\ h.op = "next" /\ Fits(h) /\ Kept /\ RowsTrusted /\ UNCHANGED lock
  BY SameRows, NothingElse DEF NextUnusable, IndInv, TypeOK
<1>1. CASE h.queue = {s}
  BY <1>0, <1>1, GoesIdle DEF NextUnusable
<1>2. CASE h.queue # {s}
  <2>1. PICK held \in Request : held = [h EXCEPT !.queue = h.queue \ {s}]
    BY <1>0 DEF Request
  <2>2. /\ held.op = "next" /\ held.source = h.source /\ held.queue = h.queue \ {s}
        /\ held.queue # {}
    BY <1>0, <1>2, <2>1 DEF Request
  <2>3. h.source = 0
    BY <1>0 DEF Fits
  <2>4. Fits(held)
    BY <2>2, <2>3 DEF Fits
  <2>5. request' = [request EXCEPT ![r] = held]
    BY <1>2, <2>1 DEF NextUnusable
  <2>6. \A t \in Sources : WorksOn(held, t) <=> WorksOn(request[r], t)
    BY <1>0, <2>2 DEF WorksOn
  <2> QED
    BY <1>0, <2>4, <2>5, <2>6, KeepsLock
<1> QED
  BY <1>1, <1>2

LEMMA NextBusyPreserves ==
  ASSUME IndInv, NEW r \in Requests, NEW s \in request[r].queue, NextBusy(r, s)
  PROVE  IndInv'
BY SameRows, NothingElse, GoesIdle DEF NextBusy

(***************************************************************************)
(* Statements of a sync.                                                   *)
(***************************************************************************)
\* A statement of a sync keeps its source, and with it the lock.
LEMMA SyncKeepsLock ==
  ASSUME IndInv, Kept, RowsTrusted, NEW r \in Requests, NEW held \in Request, Fits(held),
         request' = [request EXCEPT ![r] = held], UNCHANGED lock,
         held.source = request[r].source,
         held.op \notin {"put", "patch", "delete"}, request[r].op \notin {"put", "patch", "delete"}
  PROVE  IndInv'
BY KeepsLock DEF WorksOn

LEMMA NoEmailsPreserves ==
  ASSUME IndInv, NEW r \in Requests, NoEmails(r)
  PROVE  IndInv'
<1> DEFINE s == request[r].source
           changed == [row[s] EXCEPT !.status = "unavailable"]
<1>1. s \in Sources
  BY DEF NoEmails, IndInv, TypeOK, Request, Fits
<1>2. changed \in Row /\ changed.config = row[s].config
  <2>1. row[s] \in Row
    BY <1>1 DEF IndInv, TypeOK
  <2> QED
    BY <2>1 DEF Row
<1>3. RowsTrusted
  BY <1>1, <1>2, StatusRows DEF NoEmails, UpdateCollectSourceForExecution
<1> QED
  BY <1>3, NothingElse, DonePreserves DEF NoEmails

LEMMA MigratePreserves ==
  ASSUME IndInv, NEW r \in Requests, MigrateLegacyPaths(r)
  PROVE  IndInv'
<1> DEFINE h == request[r]
           s == h.source
           named == [n \in Names |-> IF n \in h.config.paths THEN 0 ELSE -1]
           c == [h.config EXCEPT !.paths = {}, !.branches = named]
           changed == [row[s] EXCEPT !.config = c]
<1>0. /\ h \in Request /\ h.op = "migrate" /\ Fits(h) /\ s \in Sources /\ s # 0
      /\ h.newest = Idle.newest /\ Trusted(s, h.config) /\ h.config \in Config
  BY NameFacts DEF MigrateLegacyPaths, IndInv, TypeOK, Request, Fits
<1>1. named \in [Names -> {-1} \union Dates] /\ \A n \in Names : named[n] \in {-1, 0}
  BY NameFacts
<1>2. c \in Config /\ c.branches = named /\ c.cursors = h.config.cursors
  BY <1>0, <1>1 DEF Config
<1> HIDE DEF c, named
<1>3. Trusted(s, c)
  <2>1. \A n \in Names : Good(s, n, h.config.cursors[n])
    BY <1>0, TrustedIsGood
  <2>2. \A n \in Names : Good(s, n, named[n])
    BY <1>1, SmallIsGood DEF IndInv
  <2> QED
    BY <1>2, <2>1, <2>2, TrustedIsGood
<1>4. changed \in Row /\ changed.config = c
  <2>1. row[s] \in Row
    BY <1>0 DEF IndInv, TypeOK
  <2> QED
    BY <1>2, <2>1 DEF Row
<1>5. RowsTrusted
  BY <1>0, <1>3, <1>4, UpdatedRows DEF MigrateLegacyPaths, UpdateCollectSourceForExecution, c, named
<1>6. PICK held \in Request : /\ held = Begin(h, c) /\ Fits(held) /\ held.op = "collect"
                              /\ held.source = s
  BY <1>0, <1>2, <1>3, BeginFits
<1>7. request' = [request EXCEPT ![r] = held] /\ UNCHANGED lock
  BY <1>6 DEF MigrateLegacyPaths, c, named
<1> QED
  BY <1>0, <1>5, <1>6, <1>7, NothingElse, SyncKeepsLock DEF MigrateLegacyPaths

\* Only the operation changes, to one that promises nothing more.
LEMMA TurnsTo ==
  ASSUME IndInv, Kept, UNCHANGED <<row, lock>>, NEW r \in Requests,
         NEW op \in {"fail", "noRepository"}, Step(r, op),
         request[r].op \in {"collect", "insert", "save"}
  PROVE  IndInv'
<1>1. request[r] \in Request /\ Fits(request[r])
  BY DEF IndInv, TypeOK
<1>2. PICK held \in Request : held = [request[r] EXCEPT !.op = op]
  BY <1>1 DEF Request
<1>3. /\ held.op = op /\ held.source = request[r].source /\ held.config = request[r].config
  BY <1>1, <1>2 DEF Request
<1>4. Fits(held)
  BY <1>1, <1>3 DEF Fits
<1> QED
  BY <1>2, <1>3, <1>4, SameRows, SyncKeepsLock

LEMMA CollectPreserves ==
  ASSUME IndInv, NEW r \in Requests, NEW n \in request[r].todo, CollectOneBranch(r, n)
  PROVE  IndInv'
<1> DEFINE h == request[r]
           range == Log(n, Cursor(h, n), h.now)
           got == IF h.type = "remote" THEN Page(range) ELSE range
           listed == [h EXCEPT !.todo = h.todo \ {n}]
<1>0. /\ h \in Request /\ h.op = "collect" /\ Fits(h) /\ n \in Names /\ Fetched(h)
      /\ UNCHANGED <<row, events, lock, clock, branch>> /\ RowsTrusted
  BY SameRows DEF CollectOneBranch, IndInv, TypeOK, Request, Fits
<1>1. listed \in Request
  BY <1>0 DEF Request
<1>2. /\ listed.op = "collect" /\ listed.source = h.source /\ listed.config = h.config
      /\ listed.now = h.now /\ listed.newest = h.newest /\ listed.first = h.first
      /\ listed.all = h.all /\ listed.resync = h.resync
  BY <1>0 DEF Request
<1> HIDE DEF listed
<1>3. CASE (Incident \/ UNCHANGED incidents) /\ UNCHANGED late
           /\ request' = [request EXCEPT ![r] = listed]
  <2>1. Kept
    BY <1>0, <1>3, AnIncident, NothingElse
  <2>2. Fits(listed)
    BY <1>0, <1>2 DEF Fits, Fetched, Cursor
  <2> QED
    BY <1>0, <1>1, <1>2, <1>3, <2>1, <2>2, SyncKeepsLock
<1>4. ASSUME NEW date \in {0} \union got, Resolves(n), UNCHANGED incidents,
             \A c \in got : c <= date,
             request' = [request EXCEPT ![r] =
               [listed EXCEPT !.ok = TRUE, !.newest[n] = date,
                  !.first = [c \in Commits |->
                     IF listed.first[c] = -1 /\ c \in got THEN n ELSE listed.first[c]]]],
             late' = late \union {n} \X (range \ got)
      PROVE  IndInv'
  <2> DEFINE first == [c \in Commits |->
                         IF listed.first[c] = -1 /\ c \in got THEN n ELSE listed.first[c]]
             newest == [listed.newest EXCEPT ![n] = date]
  <2>1. /\ range \subseteq Reachable(n) /\ Reachable(n) \subseteq Commits /\ got \subseteq range
        /\ date \in Dates
    BY <1>0, RefFacts, NameFacts DEF Log, Page, IndInv, TypeOK, BranchRow
  <2>2. /\ newest \in [Names -> Dates] /\ first \in [Commits -> {-1} \union Names]
        /\ newest[n] = date /\ \A m \in Names : m # n => newest[m] = h.newest[m]
        /\ \A c \in Commits : /\ h.first[c] # -1 => first[c] # -1
                              /\ c \in got => first[c] # -1
    BY <1>0, <1>2, <2>1, NameFacts DEF Request
  <2> HIDE DEF first, newest
  <2>3. PICK held \in Request :
          held = [listed EXCEPT !.ok = TRUE, !.newest = newest, !.first = first]
    BY <1>1, <2>2 DEF Request
  <2>4. /\ held.op = "collect" /\ held.source = h.source /\ held.config = h.config
        /\ held.now = h.now /\ held.newest = newest /\ held.first = first
        /\ held.all = h.all /\ held.resync = h.resync
    BY <1>1, <1>2, <2>3 DEF Request
  <2>5. request' = [request EXCEPT ![r] = held]
    BY <1>4, <2>3 DEF first, newest
  <2>6. Kept
    BY <1>0, <1>4, <2>1 DEF Kept, IndInv, TypeOK
  <2>7. date <= h.now /\ h.now \in Nat /\ clock \in Nat /\ h.now <= clock /\ Ref(n).state = "live"
    <3>1. h.now \in Nat /\ clock \in Nat /\ h.now <= clock
      <4>1. h.now \in Dates /\ clock \in 1..MaxClock
        BY <1>0 DEF IndInv, TypeOK, Request
      <4>2. h.now \in Nat /\ clock \in Nat
        <5>1. h.now \in Nat
          BY <4>1, NameFacts
        <5>2. clock \in Nat
          BY <4>1, CollectAssumption
        <5> QED
          BY <5>1, <5>2
      <4> QED
        BY <1>0, <4>2 DEF Fetched
    <3>2. \A c \in range : c <= h.now
      BY DEF Log
    <3> QED
      BY <1>4, <2>1, <3>1, <3>2 DEF Resolves
  <2>8. Fits(held)'
    <3>1. Frame
      BY <2>6, KeptIsFrame
    <3>2. h.source \in Sources /\ Trusted(h.source, h.config) /\ h.source # 0
      BY <1>0, NameFacts DEF Fits, Request
    <3>3. Trusted(held.source, held.config)'
      <4>1. PICK s \in Sources, config \in Config : s = held.source /\ config = held.config
        BY <2>4, <3>2 DEF Request
      <4>2. Trusted(s, config)'
        BY <2>4, <3>1, <3>2, <4>1, TrustedStays
      <4> QED
        BY <4>1, <4>2
    <3>4. Fetched(held)'
      <4>1. IsPast(newest) /\ \A m \in Names : newest[m] <= h.now
        BY <1>0, <2>2, <2>7 DEF Fetched, IsPast
      <4>2. ASSUME NEW m \in Names, NEW c \in Reachable(m), c < newest[m]
            PROVE  c < Cursor(h, m) \/ first[c] # -1 \/ <<m, c>> \in late'
        <5>1. c \in Commits /\ c \in Nat
          BY RefFacts, NameFacts DEF IndInv, TypeOK, BranchRow
        <5>2. CASE m # n
          BY <1>0, <2>2, <2>6, <4>2, <5>1, <5>2 DEF Fetched, Kept
        <5>3. CASE m = n /\ ~(c < Cursor(h, n))
          <6>1. Cursor(h, n) \in Int
            <7>1. h.config \in Config
              BY <1>0 DEF Request
            <7>2. h.config.branches[n] \in {-1} \union Dates /\ h.config.cursors[n] \in {-1} \union Dates
              BY <1>0, <7>1 DEF Config
            <7>3. {-1} \union Dates \subseteq Int
              BY NameFacts
            <7>4. Cursor(h, n) \in {0, h.config.branches[n], h.config.cursors[n]}
              BY DEF Cursor
            <7> QED
              BY <7>2, <7>3, <7>4
          <6>2. c \in range
            BY <2>2, <2>7, <4>2, <5>1, <5>3, <6>1, <2>1, NameFacts DEF Log
          <6> QED
            BY <1>4, <2>2, <5>1, <5>3, <6>2
        <5> QED
          BY <5>2, <5>3
      <4>3. Cursor(held, 0) = Cursor(h, 0) /\ \A m : Cursor(held, m) = Cursor(h, m)
        BY <2>4 DEF Cursor
      <4>4. /\ held.now <= clock' /\ \A m \in Names : held.newest[m] <= held.now
            /\ \A m \in Names : held.newest[m] <= clock' /\ ((Ref(m).state = "never")' => held.newest[m] <= 0)
        BY <1>0, <2>4, <2>7, <4>1 DEF IsPast, Ref
      <4>5. \A m \in Names : \A c : (c \in Reachable(m))' =>
              (c < held.newest[m] => c < Cursor(held, m) \/ held.first[c] # -1 \/ <<m, c>> \in late')
        BY <1>0, <2>4, <4>2, <4>3 DEF Reachable, Ref
      <4>6. \A m : Cursor(held, m)' = Cursor(held, m)
        BY DEF Cursor
      <4> QED
        BY <4>4, <4>5, <4>6 DEF Fetched, IsPast
    <3> QED
      BY <2>4, <3>2, <3>3, <3>4 DEF Fits
  <2>9. \A s \in Sources : WorksOn(held, s) <=> WorksOn(request[r], s)
    BY <1>0, <2>4 DEF WorksOn
  <2> QED
    BY <1>0, <2>5, <2>6, <2>8, <2>9, SameLock, StepTo
<1>5. \/ (Incident \/ UNCHANGED incidents) /\ UNCHANGED late /\ request' = [request EXCEPT ![r] = listed]
      \/ /\ Resolves(n) /\ UNCHANGED incidents
         /\ late' = late \union {n} \X (range \ got)
         /\ \E date \in {0} \union got :
              /\ \A c \in got : c <= date
              /\ request' = [request EXCEPT ![r] =
                   [listed EXCEPT !.ok = TRUE, !.newest[n] = date,
                      !.first = [c \in Commits |->
                         IF listed.first[c] = -1 /\ c \in got THEN n ELSE listed.first[c]]]]
  BY DEF CollectOneBranch, listed
<1> HIDE DEF got, range
<1> QED
  BY <1>3, <1>4, <1>5

LEMMA ReadKnownPreserves ==
  ASSUME IndInv, NEW r \in Requests, ReadKnown(r)
  PROVE  IndInv'
<1> DEFINE h == request[r]
<1>0. /\ h \in Request /\ h.op = "collect" /\ Fits(h) /\ Kept /\ RowsTrusted /\ UNCHANGED lock
  BY SameRows, NothingElse DEF ReadKnown, IndInv, TypeOK
<1>1. PICK known \in SUBSET Commits : known = ListRawEventMetadataBySourceID(h.source)
  BY DEF ListRawEventMetadataBySourceID
<1>2. PICK held \in Request : held = [h EXCEPT !.op = "insert", !.known = known]
  BY <1>0 DEF Request
<1>3. /\ held.op = "insert" /\ held.source = h.source /\ held.config = h.config
      /\ held.now = h.now /\ held.newest = h.newest /\ held.first = h.first
      /\ held.all = h.all /\ held.resync = h.resync /\ held.known = known
  BY <1>0, <1>2 DEF Request
<1>4. Fits(held)
  BY <1>0, <1>1, <1>3 DEF Fits, Fetched, Cursor
<1>5. request' = [request EXCEPT ![r] = held]
  BY <1>1, <1>2 DEF ReadKnown
<1> QED
  BY <1>0, <1>3, <1>4, <1>5, SyncKeepsLock

\* The lock keeps the events of the source as they were read; those inserted
\* are none of them.
LEMMA InsertPreserves ==
  ASSUME IndInv, NEW r \in Requests, InsertNewEvents(r)
  PROVE  IndInv'
<1> DEFINE h == request[r]
           s == h.source
<1>0. /\ h \in Request /\ h.op = "insert" /\ Fits(h) /\ s \in Sources /\ s # 0 /\ Fetched(h)
      /\ h.known = ListRawEventMetadataBySourceID(s)
      /\ UNCHANGED <<row, lock, clock, branch, late, incidents>>
  BY NameFacts DEF InsertNewEvents, IndInv, TypeOK, Request, Fits
<1>1. \A c \in Commits : c \in Fresh(r) <=> h.first[c] # -1 /\ events[s][c] = <<>>
  BY <1>0 DEF Fresh, ListRawEventMetadataBySourceID
<1>2. events' = [events EXCEPT ![s] =
        [c \in Commits |-> IF c \in Fresh(r) THEN Append(events[s][c], h.first[c]) ELSE events[s][c]]]
  BY DEF InsertNewEvents, InsertCollectedRawEvent
<1>3. events \in [Sources -> [Commits -> Seq(Names)]]
  BY DEF IndInv, TypeOK
<1>4. \A c \in Commits : /\ c \in Fresh(r) => /\ h.first[c] \in Names /\ events[s][c] = <<>>
                                              /\ events'[s][c] = Append(<<>>, h.first[c])
                         /\ c \notin Fresh(r) => events'[s][c] = events[s][c]
  <2>1. \A c \in Commits : h.first[c] \in {-1} \union Names
    BY <1>0 DEF Request
  <2> QED
    BY <1>0, <1>1, <1>2, <1>3, <2>1
<1>5. \A c \in Commits : c \in Fresh(r) =>
        events'[s][c] \in Seq(Names) /\ Len(events'[s][c]) = 1 /\ events'[s][c] # <<>>
  <2> SUFFICES ASSUME NEW c \in Commits, c \in Fresh(r)
               PROVE  events'[s][c] \in Seq(Names) /\ Len(events'[s][c]) = 1 /\ events'[s][c] # <<>>
    OBVIOUS
  <2>1. PICK n \in Names : events'[s][c] = Append(<<>>, n)
    BY <1>4
  <2>2. Append(<<>>, n) \in Seq(Names) /\ Len(Append(<<>>, n)) = 1 /\ Append(<<>>, n) # <<>>
    OBVIOUS
  <2> QED
    BY <2>1, <2>2
<1>6. \A t \in Sources : t # s => events'[t] = events[t]
  BY <1>0, <1>2, <1>3
<1>7. events' \in [Sources -> [Commits -> Seq(Names)]]
  <2>1. \A c \in Commits : events'[s][c] \in Seq(Names)
    BY <1>0, <1>3, <1>4, <1>5
  <2>2. events'[s] = [c \in Commits |-> events'[s][c]]
    BY <1>0, <1>2, <1>3
  <2>3. events'[s] \in [Commits -> Seq(Names)]
    BY <2>1, <2>2
  <2> QED
    BY <1>2, <1>3, <1>6, <2>3
<1>8. Frame
  <2>1. \A t \in Sources, c \in Commits : events[t][c] # <<>> => events'[t][c] # <<>>
    BY <1>0, <1>4, <1>5, <1>6
  <2>2. clock \in Nat /\ branch \in [Branches -> BranchRow]
    BY CollectAssumption DEF IndInv, TypeOK, BranchRow
  <2> QED
    BY <1>0, <2>1, <2>2 DEF Frame, Ref, Reachable
<1>9. PICK held \in Request : held = [h EXCEPT !.op = "save"]
  BY <1>0 DEF Request
<1>10. /\ held.op = "save" /\ held.source = s /\ held.config = h.config
       /\ held.now = h.now /\ held.newest = h.newest /\ held.first = h.first
       /\ held.all = h.all /\ held.resync = h.resync
  BY <1>0, <1>9 DEF Request
<1>11. Fits(held)'
  <2>1. Trusted(held.source, held.config)'
    <3>1. PICK t \in Sources, config \in Config : t = held.source /\ config = held.config
      BY <1>0, <1>10 DEF Request
    <3>2. Trusted(t, config)
      BY <1>0, <1>10, <3>1 DEF Fits
    <3>3. Trusted(t, config)'
      BY <1>8, <3>2, TrustedStays
    <3> QED
      BY <3>1, <3>3
  <2>2. Fetched(held)'
    <3>1. Fetched(held)
      BY <1>0, <1>10 DEF Fetched, Cursor
    <3> QED
      BY <1>8, <3>1, FetchedStays
  <2>3. \A c \in Commits : held.first[c] # -1 => events'[held.source][c] # <<>>
    BY <1>1, <1>4, <1>5, <1>10
  <2> QED
    BY <1>0, <1>10, <2>1, <2>2, <2>3 DEF Fits
<1>12. request' = [request EXCEPT ![r] = held]
  BY <1>9 DEF InsertNewEvents
<1>13. request' \in [Requests -> Request] /\ \A q \in Requests : Fits(request[q])'
  <2>1. ASSUME NEW q \in Requests, q # r, request[q].op = "insert"
        PROVE  events'[request[q].source] = events[request[q].source]
    <3>1. request[q].source \in Sources
      BY <2>1, NameFacts DEF IndInv, TypeOK, Request, Fits
    <3>2. request[q].source # s
      BY <1>0, <2>1, <3>1 DEF IndInv, LocksAreOwned, WorksOn
    <3> QED
      BY <1>6, <3>1, <3>2
  <2> QED
    BY <1>8, <1>11, <1>12, <2>1, RequestsFit
<1>14. LocksAreOwned'
  <2>1. \A t \in Sources : WorksOn(held, t) <=> WorksOn(request[r], t)
    BY <1>0, <1>10 DEF WorksOn
  <2>2. /\ lock' \in [Sources -> SUBSET Requests]
        /\ \A t \in Sources :
             /\ lock'[t] = (lock[t] \ {r}) \union {q \in {r} : WorksOn(held, t)}
             /\ WorksOn(held, t) => lock[t] \subseteq {r}
    BY <1>0, <2>1, SameLock
  <2>3. TypeOK /\ LocksAreOwned
    BY DEF IndInv
  <2> QED
    BY <1>12, <2>2, <2>3, LocksFollow
<1>15. CursorsAreTrusted'
  <2> SUFFICES ASSUME NEW t \in Sources PROVE Trusted(t, row[t].config)'
    BY DEF CursorsAreTrusted
  <2>1. PICK config \in Config : config = row[t].config
    BY DEF IndInv, TypeOK, Row
  <2>2. Trusted(t, config)'
    BY <1>8, <2>1, TrustedStays DEF IndInv, CursorsAreTrusted
  <2> QED
    BY <1>0, <2>1, <2>2 DEF Trusted, IsPast, Covers
<1>16. TypeOK'
  BY <1>0, <1>7, <1>13 DEF IndInv, TypeOK
<1>17. NoDuplicates'
  <2> SUFFICES ASSUME NEW t \in Sources, NEW c \in Commits PROVE Len(events'[t][c]) <= 1
    BY DEF NoDuplicates
  <2>1. Len(events[t][c]) <= 1
    BY DEF IndInv, NoDuplicates
  <2>2. CASE t = s /\ c \in Fresh(r)
    <3>1. Len(events'[t][c]) = 1
      BY <1>5, <2>2
    <3> QED
      BY <3>1
  <2>3. CASE t # s \/ c \notin Fresh(r)
    <3>1. events'[t][c] = events[t][c]
      BY <1>4, <1>6, <2>3
    <3> QED
      BY <2>1, <3>1
  <2> QED
    BY <2>2, <2>3
<1>18. BranchesHaveAPast'
  BY <1>0 DEF IndInv, BranchesHaveAPast
<1> QED
  BY <1>13, <1>14, <1>15, <1>16, <1>17, <1>18 DEF IndInv

\* The cursors saved are those of the configuration the sync began with, or
\* the newest it fetched.
LEMMA FetchedIsGood ==
  ASSUME IndInv, NEW h \in Request, Fits(h), h.op = "save", NEW n \in Names, h.newest[n] > 0
  PROVE  Good(h.source, n, h.newest[n])
<1>1. /\ Fetched(h) /\ h.source \in Sources /\ Trusted(h.source, h.config)
      /\ \A c \in Commits : h.first[c] # -1 => events[h.source][c] # <<>>
  BY DEF Fits, Request
<1>2. Good(h.source, n, h.config.branches[n]) /\ Good(h.source, n, h.config.cursors[n])
  BY <1>1, TrustedIsGood
<1>3. h.newest[n] <= clock /\ (Ref(n).state = "never" => h.newest[n] <= 0)
  BY <1>1 DEF Fetched, IsPast
<1>4. ASSUME NEW c \in Reachable(n), c < h.newest[n]
      PROVE  events[h.source][c] # <<>> \/ <<n, c>> \in late
  <2>1. c \in Commits /\ c \in Nat \ {0}
    BY RefFacts, NameFacts DEF IndInv, TypeOK, BranchRow
  <2>2. CASE c < Cursor(h, n)
    <3>1. Cursor(h, n) \in {0, h.config.branches[n], h.config.cursors[n]}
      BY DEF Cursor
    <3>2. Cursor(h, n) # 0
      BY <2>1, <2>2
    <3> QED
      BY <1>2, <2>2, <3>1, <3>2 DEF Good
  <2>3. CASE h.first[c] # -1 \/ <<n, c>> \in late
    BY <1>1, <2>1, <2>3
  <2> QED
    BY <1>1, <1>4, <2>2, <2>3 DEF Fetched
<1> QED
  BY <1>3, <1>4 DEF Good

LEMMA SavePreserves ==
  ASSUME IndInv, NEW r \in Requests, NEW c \in Config, Save(r, c),
         Trusted(request[r].source, c)
  PROVE  IndInv'
<1> DEFINE s == request[r].source
           changed == [row[s] EXCEPT !.config = c, !.last = "success"]
<1>1. s \in Sources
  BY DEF Save, IndInv, TypeOK, Request, Fits
<1>2. changed \in Row /\ changed.config = c
  <2>1. row[s] \in Row
    BY <1>1 DEF IndInv, TypeOK
  <2> QED
    BY <2>1 DEF Row
<1>3. RowsTrusted
  BY <1>1, <1>2, UpdatedRows DEF Save, UpdateCollectSourceForExecution
<1> QED
  BY <1>3, NothingElse, DonePreserves DEF Save

LEMMA SaveBranchCursorsPreserves ==
  ASSUME IndInv, NEW r \in Requests, SaveBranchCursors(r)
  PROVE  IndInv'
<1> DEFINE h == request[r]
           new == BuildPrunedBranchCursors(h)
           c == [h.config EXCEPT !.cursors = new]
<1>0. /\ h \in Request /\ h.op = "save" /\ Fits(h) /\ h.config \in Config
      /\ Trusted(h.source, h.config)
  BY DEF SaveBranchCursors, Save, IndInv, TypeOK, Request, Fits
<1>1. \A n \in Names : h.newest[n] \in Dates /\ h.config.cursors[n] \in {-1} \union Dates
  <2>1. h.newest \in [Names -> Dates] /\ h.config.cursors \in [Names -> {-1} \union Dates]
    BY <1>0 DEF Request, Config
  <2> QED
    BY <2>1
<1>2. \A n \in Names : new[n] = IF n \notin h.heads THEN -1
                                ELSE IF h.newest[n] > 0 THEN h.newest[n]
                                ELSE IF h.config.cursors[n] = -1 THEN 0 ELSE h.config.cursors[n]
  BY DEF BuildPrunedBranchCursors
<1>3. new \in [Names -> {-1} \union Dates]
  <2>1. \A n \in Names : new[n] \in {-1} \union Dates
    BY <1>1, <1>2, NameFacts
  <2> QED
    BY <2>1 DEF BuildPrunedBranchCursors
<1>4. \A n \in Names : Good(h.source, n, new[n])
  <2> SUFFICES ASSUME NEW n \in Names PROVE Good(h.source, n, new[n])
    OBVIOUS
  <2>1. Good(h.source, n, h.config.cursors[n]) /\ Good(h.source, n, -1) /\ Good(h.source, n, 0)
    BY <1>0, TrustedIsGood, SmallIsGood DEF IndInv
  <2>2. h.newest[n] > 0 => Good(h.source, n, h.newest[n])
    BY <1>0, FetchedIsGood
  <2>3. new[n] \in {-1, 0, h.config.cursors[n]} \/ (h.newest[n] > 0 /\ new[n] = h.newest[n])
    BY <1>2
  <2> HIDE DEF new
  <2> QED
    BY <2>1, <2>2, <2>3
<1> HIDE DEF new
<1>5. c \in Config /\ c.branches = h.config.branches /\ c.cursors = new
  BY <1>0, <1>3 DEF Config
<1>6. Trusted(h.source, c)
  BY <1>0, <1>4, <1>5, TrustedIsGood
<1> QED
  BY <1>5, <1>6, SavePreserves DEF SaveBranchCursors, new

LEMMA SaveBranchesPreserves ==
  ASSUME IndInv, NEW r \in Requests, SaveBranches(r)
  PROVE  IndInv'
<1> DEFINE h == request[r]
           new == UpdatedBranches(h)
           c == [h.config EXCEPT !.branches = new]
<1>0. /\ h \in Request /\ h.op = "save" /\ Fits(h) /\ h.config \in Config
      /\ Trusted(h.source, h.config)
  BY DEF SaveBranches, Save, IndInv, TypeOK, Request, Fits
<1>1. \A n \in Names : h.newest[n] \in Dates /\ h.config.branches[n] \in {-1} \union Dates
  <2>1. h.newest \in [Names -> Dates] /\ h.config.branches \in [Names -> {-1} \union Dates]
    BY <1>0 DEF Request, Config
  <2> QED
    BY <2>1
<1>2. \A n \in Names : new[n] = IF n \notin NormalizeBranches(h.config) THEN -1
                                ELSE IF h.newest[n] > 0 THEN h.newest[n]
                                ELSE IF h.config.branches[n] = -1 THEN 0 ELSE h.config.branches[n]
  BY DEF UpdatedBranches
<1>3. new \in [Names -> {-1} \union Dates]
  <2>1. \A n \in Names : new[n] \in {-1} \union Dates
    BY <1>1, <1>2, NameFacts
  <2> QED
    BY <2>1 DEF UpdatedBranches
<1>4. \A n \in Names : Good(h.source, n, new[n])
  <2> SUFFICES ASSUME NEW n \in Names PROVE Good(h.source, n, new[n])
    OBVIOUS
  <2>1. Good(h.source, n, h.config.branches[n]) /\ Good(h.source, n, -1) /\ Good(h.source, n, 0)
    BY <1>0, TrustedIsGood, SmallIsGood DEF IndInv
  <2>2. h.newest[n] > 0 => Good(h.source, n, h.newest[n])
    BY <1>0, FetchedIsGood
  <2>3. new[n] \in {-1, 0, h.config.branches[n]} \/ (h.newest[n] > 0 /\ new[n] = h.newest[n])
    BY <1>2
  <2> HIDE DEF new
  <2> QED
    BY <2>1, <2>2, <2>3
<1> HIDE DEF new
<1>5. c \in Config /\ c.branches = new /\ c.cursors = h.config.cursors
  BY <1>0, <1>3 DEF Config
<1>6. Trusted(h.source, c)
  BY <1>0, <1>4, <1>5, TrustedIsGood
<1> QED
  BY <1>5, <1>6, SavePreserves DEF SaveBranches, new

LEMMA AllBranchesFailedPreserves ==
  ASSUME IndInv, NEW r \in Requests, AllBranchesFailed(r)
  PROVE  IndInv'
BY NothingElse, TurnsTo DEF AllBranchesFailed

LEMMA NoRepositoryPreserves ==
  ASSUME IndInv, NEW r \in Requests, NoRepository(r)
  PROVE  IndInv'
BY AnIncident, TurnsTo DEF NoRepository

LEMMA StatementFailsPreserves ==
  ASSUME IndInv, NEW r \in Requests, StatementFails(r)
  PROVE  IndInv'
BY AnIncident, TurnsTo DEF StatementFails

LEMMA RecordFailurePreserves ==
  ASSUME IndInv, NEW r \in Requests, RecordFailure(r)
  PROVE  IndInv'
<1> DEFINE s == request[r].source
           changed == [row[s] EXCEPT !.last = "failed",
                         !.status = IF At(r, "noRepository") THEN "unavailable" ELSE row[s].status]
<1>1. s \in Sources
  BY DEF RecordFailure, IndInv, TypeOK, Request, Fits
<1>2. changed \in Row /\ changed.config = row[s].config
  <2>1. row[s] \in Row
    BY <1>1 DEF IndInv, TypeOK
  <2> QED
    BY <2>1 DEF Row
<1>3. UpdateCollectSource(s, changed)
  BY DEF RecordFailure, UpdateCollectSourceForExecution
<1>4. RowsTrusted
  BY <1>1, <1>2, <1>3, StatusRows
<1> QED
  BY <1>4, NothingElse, DonePreserves DEF RecordFailure

LEMMA SyncErrorPreserves ==
  ASSUME IndInv, NEW r \in Requests, SyncError(r)
  PROVE  IndInv'
BY SameRows, AnIncident, IdleFacts, IdleFits, LeavesLock DEF SyncError

LEMMA FetchPreserves ==
  ASSUME IndInv, NEW r \in Requests, NEW s \in Sources, FetchLocalSource(r, s)
  PROVE  IndInv'
<1>1. PICK held \in Request : held = [Idle EXCEPT !.op = "fetch", !.source = s]
  BY IdleFacts DEF Request
<1>2. held.op = "fetch" /\ held.source = s /\ held.config = EmptyConfig /\ s # 0
  BY <1>1, NameFacts DEF Idle
<1>3. Trusted(s, EmptyConfig)
  <2>1. \A n \in Names : EmptyConfig.branches[n] = -1 /\ EmptyConfig.cursors[n] = -1
    BY DEF EmptyConfig, NewConfig, NoCursors
  <2> QED
    BY <2>1, SmallIsGood, TrustedIsGood DEF IndInv
<1>4. Fits(held)
  BY <1>2, <1>3 DEF Fits
<1>5. request[r].source = 0
  BY DEF FetchLocalSource, IndInv, Fits
<1> QED
  BY <1>1, <1>2, <1>4, <1>5, SameRows, NothingElse, TakesLock DEF FetchLocalSource, WorksOn

LEMMA FetchDonePreserves ==
  ASSUME IndInv, NEW r \in Requests, FetchDone(r)
  PROVE  IndInv'
BY SameRows, NothingElse, DonePreserves DEF FetchDone

(***************************************************************************)
(* Edits.                                                                  *)
(***************************************************************************)
LEMMA CreatePreserves ==
  ASSUME IndInv, NEW r \in Requests, NEW s \in Sources, NEW type \in {"git-local", "remote"},
         NEW e \in BOOLEAN, NEW enabled \in BOOLEAN, NEW B \in SUBSET Branches,
         Create(r, s, type, e, enabled, B)
  PROVE  IndInv'
<1> DEFINE c == NewConfig(e, B)
           new == [state |-> "live", type |-> type, config |-> c,
                   status |-> SourceStatusFromConfig(e, enabled), last |-> "never"]
<1>1. \A n \in Names : c.branches[n] \in {-1, 0} /\ c.cursors[n] \in {-1, 0}
  BY DEF NewConfig, NoCursors
<1>2. c \in Config
  BY NameFacts DEF NewConfig, NoCursors, Config
<1>3. Trusted(s, c)
  BY <1>1, SmallIsGood, TrustedIsGood DEF IndInv
<1> HIDE DEF c
<1>4. new \in Row /\ new.config = c
  BY <1>2 DEF Row, SourceStatusFromConfig
<1>5. row' = [row EXCEPT ![s] = new] /\ UNCHANGED <<events, lock, request, repository>>
  BY DEF Create, c
<1> HIDE DEF new
<1>6. /\ row' \in [Sources -> Row]
      /\ \A t \in Sources : row'[t] = row[t] \/ (t = s /\ row'[t] = new)
  BY <1>4, <1>5 DEF IndInv, TypeOK
<1>7. RowsTrusted
  BY <1>3, <1>4, <1>6 DEF RowsTrusted, IndInv, CursorsAreTrusted
<1>8. request' = [request EXCEPT ![r] = Idle] \/ request[r] \in Request
  BY DEF IndInv, TypeOK
<1>9. PICK held \in Request : held = request[r]
  BY DEF IndInv, TypeOK
<1>10. Fits(held) /\ request' = [request EXCEPT ![r] = held]
  BY <1>5, <1>9 DEF IndInv, TypeOK
<1> QED
  BY <1>5, <1>7, <1>9, <1>10, NothingElse, KeepsLock

LEMMA ReadRowPreserves ==
  ASSUME IndInv, NEW r \in Requests, NEW s \in Sources, NEW op \in {"put", "patch", "delete"},
         ReadRow(r, s, op)
  PROVE  IndInv'
<1>1. row[s].config \in Config /\ Trusted(s, row[s].config) /\ s # 0
  BY NameFacts DEF IndInv, TypeOK, Row, CursorsAreTrusted
<1>2. PICK held \in Request : held = [Idle EXCEPT !.op = op, !.source = s, !.config = row[s].config]
  BY <1>1, IdleFacts DEF Request
<1>3. held.op = op /\ held.source = s /\ held.config = row[s].config
  BY <1>2 DEF Idle
<1>4. Fits(held)
  BY <1>1, <1>3 DEF Fits
<1>5. request' = [request EXCEPT ![r] = held] /\ UNCHANGED lock
  BY <1>2 DEF ReadRow, GetCollectSource
<1>6. Kept /\ RowsTrusted
  BY SameRows, AnIncident DEF ReadRow
<1>7. \A t \in Sources : ~WorksOn(held, t) /\ ~WorksOn(request[r], t)
  BY <1>3, NameFacts DEF ReadRow, IndInv, Fits, WorksOn
<1> QED
  BY <1>4, <1>5, <1>6, <1>7, KeepsLock

\* What an edit holds is a configuration that was read from the row.
LEMMA EditHolds ==
  ASSUME IndInv, NEW r \in Requests, request[r].op \in {"put", "patch", "delete"}
  PROVE  /\ request[r].source \in Sources /\ request[r].config \in Config
         /\ Trusted(request[r].source, request[r].config)
         /\ row[request[r].source] \in Row
BY DEF IndInv, TypeOK, Request, Fits

LEMMA EditPreserves ==
  ASSUME IndInv, NEW r \in Requests, request[r].op \in {"put", "patch", "delete"}, RowsTrusted,
         request' = [request EXCEPT ![r] = Idle], UNCHANGED <<events, lock, repository>>
  PROVE  IndInv'
BY NothingElse, GoesIdle

LEMMA PutPreserves ==
  ASSUME IndInv, NEW r \in Requests, NEW e \in BOOLEAN, NEW enabled \in BOOLEAN,
         NEW B \in SUBSET Branches, Put(r, e, enabled, B)
  PROVE  IndInv'
<1> DEFINE s == request[r].source
           c == request[r].config
           merged == MergeEditedBranches(c, B)
           new == [emails |-> e, branches |-> merged, cursors |-> c.cursors, paths |-> {}]
           changed == [row[s] EXCEPT !.status = SourceStatusFromConfig(e, enabled), !.config = new]
<1>1. s \in Sources /\ c \in Config /\ Trusted(s, c) /\ row[s] \in Row
  BY EditHolds DEF Put
<1>2. /\ c.branches \in [Names -> {-1} \union Dates] /\ c.cursors \in [Names -> {-1} \union Dates]
  BY <1>1 DEF Config
<1>3. \A n \in Names : merged[n] \in {-1, 0, c.branches[n]}
  BY DEF MergeEditedBranches
<1>4. merged \in [Names -> {-1} \union Dates]
  <2>1. \A n \in Names : merged[n] \in {-1} \union Dates
    BY <1>2, <1>3, NameFacts
  <2> QED
    BY <2>1 DEF MergeEditedBranches
<1>5. \A n \in Names : Good(s, n, merged[n]) /\ Good(s, n, c.cursors[n])
  <2> SUFFICES ASSUME NEW n \in Names PROVE Good(s, n, merged[n]) /\ Good(s, n, c.cursors[n])
    OBVIOUS
  <2>1. /\ Good(s, n, c.branches[n]) /\ Good(s, n, c.cursors[n]) /\ Good(s, n, -1)
        /\ Good(s, n, 0)
    BY <1>1, TrustedIsGood, SmallIsGood DEF IndInv
  <2> HIDE DEF merged
  <2> QED
    BY <1>3, <2>1
<1> HIDE DEF merged
<1>6. new \in Config /\ new.branches = merged /\ new.cursors = c.cursors
  BY <1>2, <1>4 DEF Config
<1>7. Trusted(s, new)
  BY <1>5, <1>6, TrustedIsGood
<1>8. changed \in Row /\ changed.config = new
  <2> HIDE DEF new
  <2> QED
    BY <1>1, <1>6 DEF Row, SourceStatusFromConfig
<1>9. UpdateCollectSource(s, changed)
  BY DEF Put, PreservedBranchCursors, merged
<1>10. RowsTrusted
  BY <1>1, <1>7, <1>8, <1>9, UpdatedRows
<1> QED
  BY <1>10, EditPreserves DEF Put

LEMMA PatchStatusPreserves ==
  ASSUME IndInv, NEW r \in Requests, NEW status \in {"enabled", "disabled", "unavailable"},
         PatchStatus(r, status)
  PROVE  IndInv'
<1> DEFINE s == request[r].source
           changed == [row[s] EXCEPT !.status = status]
<1>1. s \in Sources /\ row[s] \in Row
  BY EditHolds DEF PatchStatus
<1>2. changed \in Row /\ changed.config = row[s].config
  BY <1>1 DEF Row
<1>3. RowsTrusted
  BY <1>1, <1>2, StatusRows DEF PatchStatus, PatchCollectSource
<1> QED
  BY <1>3, EditPreserves DEF PatchStatus

LEMMA RemoveBranchPreserves ==
  ASSUME IndInv, NEW r \in Requests, NEW b \in Branches, RemoveBranch(r, b)
  PROVE  IndInv'
<1> DEFINE s == request[r].source
           c == request[r].config
           left == [c.branches EXCEPT ![b] = -1]
           new == [c EXCEPT !.branches = left]
           changed == [row[s] EXCEPT !.config = new]
<1>1. s \in Sources /\ c \in Config /\ Trusted(s, c) /\ row[s] \in Row
  BY EditHolds DEF RemoveBranch
<1>2. /\ c.branches \in [Names -> {-1} \union Dates] /\ c.cursors \in [Names -> {-1} \union Dates]
  BY <1>1 DEF Config
<1>3. /\ left \in [Names -> {-1} \union Dates]
      /\ \A n \in Names : left[n] \in {-1, c.branches[n]}
  BY <1>2
<1>4. \A n \in Names : Good(s, n, left[n]) /\ Good(s, n, c.cursors[n])
  <2> SUFFICES ASSUME NEW n \in Names PROVE Good(s, n, left[n]) /\ Good(s, n, c.cursors[n])
    OBVIOUS
  <2>1. Good(s, n, c.branches[n]) /\ Good(s, n, c.cursors[n]) /\ Good(s, n, -1)
    BY <1>1, TrustedIsGood, SmallIsGood DEF IndInv
  <2> HIDE DEF left
  <2> QED
    BY <1>3, <2>1
<1> HIDE DEF left
<1>5. new \in Config /\ new.branches = left /\ new.cursors = c.cursors
  BY <1>1, <1>3 DEF Config
<1>6. Trusted(s, new)
  BY <1>4, <1>5, TrustedIsGood
<1>7. changed \in Row /\ changed.config = new
  <2> HIDE DEF new
  <2> QED
    BY <1>1, <1>5 DEF Row
<1>8. UpdateCollectSource(s, changed)
  BY DEF RemoveBranch, PatchCollectSource, left
<1>9. RowsTrusted
  BY <1>1, <1>6, <1>7, <1>8, UpdatedRows
<1> QED
  BY <1>9, EditPreserves DEF RemoveBranch

LEMMA DeletePreserves ==
  ASSUME IndInv, NEW r \in Requests, Delete(r)
  PROVE  IndInv'
<1> DEFINE s == request[r].source
<1>1. s \in Sources /\ row[s] \in Row
  BY EditHolds DEF Delete
<1>2. PICK gone \in Row : gone = [row[s] EXCEPT !.state = "deleted"]
  BY <1>1 DEF Row
<1>3. gone.config = row[s].config
  BY <1>1, <1>2 DEF Row
<1>4. row' = [row EXCEPT ![s] = gone]
  BY <1>2 DEF Delete, DeleteCollectSource
<1>5. /\ row' \in [Sources -> Row]
      /\ \A t \in Sources : row'[t] = row[t] \/ (t = s /\ row'[t] = gone)
  BY <1>4 DEF IndInv, TypeOK
<1>6. RowsTrusted
  BY <1>3, <1>5 DEF RowsTrusted, IndInv, CursorsAreTrusted
<1> QED
  BY <1>6, EditPreserves DEF Delete

LEMMA EditFailsPreserves ==
  ASSUME IndInv, NEW r \in Requests, EditFails(r)
  PROVE  IndInv'
BY SameRows, EditPreserves DEF EditFails

(***************************************************************************)
(* Steps of nobody's request.                                              *)
(***************************************************************************)
LEMMA CrashPreserves ==
  ASSUME IndInv, Crash
  PROVE  IndInv'
<1>1. /\ UNCHANGED <<row, events, clock, branch, late>>
      /\ request' = [r \in Requests |-> Idle] /\ lock' = [s \in Sources |-> {}]
  BY DEF Crash
<1>2. Kept
  BY <1>1, AnIncident DEF Crash
<1>3. Frame
  BY <1>2, KeptIsFrame
<1>4. request' \in [Requests -> Request] /\ \A q \in Requests : Fits(request[q])'
  <2>1. request' \in [Requests -> Request]
    BY <1>1, IdleFacts
  <2>2. ASSUME NEW q \in Requests PROVE Fits(request[q])'
    BY <1>1, IdleFacts DEF Fits
  <2> QED
    BY <2>1, <2>2
<1>5. LocksAreOwned'
  BY <1>1, IdleFacts, NameFacts DEF LocksAreOwned, WorksOn
<1>6. CursorsAreTrusted'
  BY <1>1 DEF IndInv, CursorsAreTrusted, Trusted, IsPast, Covers, Ref, Reachable
<1>7. TypeOK'
  BY <1>1, <1>2, <1>4 DEF IndInv, TypeOK, Kept
<1>8. NoDuplicates' /\ BranchesHaveAPast'
  BY <1>1 DEF IndInv, NoDuplicates, BranchesHaveAPast
<1> QED
  BY <1>4, <1>5, <1>6, <1>7, <1>8 DEF IndInv

\* The repository changes, and nothing else does.
LEMMA RepositoryPreserves ==
  ASSUME IndInv, Frame, UNCHANGED <<row, events, lock, request>>,
         clock' \in 1..MaxClock, late' \subseteq Names \X Commits, incidents' \in 0..MaxIncidents,
         BranchesHaveAPast'
  PROVE  IndInv'
<1>1. \A q \in Requests : Fits(request[q])'
  <2> SUFFICES ASSUME NEW q \in Requests PROVE Fits(request[q])'
    OBVIOUS
  <2>1. PICK h \in Request : h = request[q]
    BY DEF IndInv, TypeOK
  <2>2. Fits(h)
    BY <2>1 DEF IndInv
  <2>3. Fits(h)'
    BY <2>2, FitsStay
  <2> QED
    BY <2>1, <2>3 DEF Fits, Trusted, Fetched, IsPast, Covers, Cursor, ListRawEventMetadataBySourceID
<1>2. CursorsAreTrusted'
  <2> SUFFICES ASSUME NEW t \in Sources PROVE Trusted(t, row[t].config)'
    BY DEF CursorsAreTrusted
  <2>1. PICK config \in Config : config = row[t].config
    BY DEF IndInv, TypeOK, Row
  <2>2. Trusted(t, config)'
    BY <2>1, TrustedStays DEF IndInv, CursorsAreTrusted
  <2> QED
    BY <2>1, <2>2 DEF Trusted, IsPast, Covers
<1>3. TypeOK'
  BY DEF IndInv, TypeOK, Frame, BranchRow
<1>4. NoDuplicates' /\ LocksAreOwned'
  BY DEF IndInv, NoDuplicates, LocksAreOwned
<1> QED
  BY <1>1, <1>2, <1>3, <1>4 DEF IndInv

LEMMA RepositoryFacts ==
  ASSUME IndInv
  PROVE  /\ clock \in Nat /\ clock \in 1..MaxClock /\ clock \in Commits
         /\ branch \in [Branches -> BranchRow]
         /\ late \subseteq Names \X Commits /\ incidents \in 0..MaxIncidents
         /\ branch[Current].state = "live"
         /\ \A b \in Branches : /\ branch[b].state # "live" => branch[b].has = {}
                                /\ \A c \in branch[b].has : c <= clock
BY CollectAssumption DEF IndInv, TypeOK, BranchRow, Commits, BranchesHaveAPast

LEMMA TickPreserves ==
  ASSUME IndInv, Tick
  PROVE  IndInv'
<1>1. UNCHANGED <<row, events, lock, request, branch, late, incidents>> /\ clock' = clock + 1 /\ clock < MaxClock
  BY DEF Tick
<1>2. clock' \in 1..MaxClock /\ clock' \in Nat
  BY <1>1, RepositoryFacts, CollectAssumption
<1>3. Frame
  BY <1>1, <1>2, RepositoryFacts DEF Frame, Ref, Reachable
<1>4. BranchesHaveAPast'
  <2> SUFFICES ASSUME NEW b \in Branches, NEW c \in branch[b].has PROVE c <= clock'
    BY <1>1, RepositoryFacts DEF BranchesHaveAPast
  <2>1. c \in Nat
    BY RepositoryFacts, NameFacts DEF BranchRow
  <2> QED
    BY <1>1, <2>1, RepositoryFacts
<1> QED
  BY <1>1, <1>2, <1>3, <1>4, RepositoryFacts, RepositoryPreserves

\* Commits arrive on one branch.
LEMMA ArrivalPreserves ==
  ASSUME IndInv, UNCHANGED <<row, events, lock, request, clock>>,
         late \subseteq late', late' \subseteq Names \X Commits, incidents' \in 0..MaxIncidents,
         NEW b \in Branches, NEW new \in BranchRow, branch' = [branch EXCEPT ![b] = new],
         b = Current => new.state = "live",
         new.state # "never", new.state # "live" => new.has = {},
         \A c \in new.has : c <= clock,
         \A n \in Names : \A c \in new.has :
           (IF n = 0 THEN Current ELSE n) = b =>
             c \in branch[b].has \/ c >= clock \/ <<n, c>> \in late' \/ branch[b].state = "never"
  PROVE  IndInv'
<1>1. /\ branch' \in [Branches -> BranchRow] /\ branch'[b] = new
      /\ \A d \in Branches : d # b => branch'[d] = branch[d]
  BY RepositoryFacts
<1>2. ASSUME NEW n \in Names
      PROVE  /\ Ref(n).state # "never" => (Ref(n).state # "never")'
             /\ \A c \in Commits : (c \in Reachable(n))' =>
                  c \in Reachable(n) \/ c >= clock \/ <<n, c>> \in late' \/ Ref(n).state = "never"
  <2>1. PICK d \in Branches : d = IF n = 0 THEN Current ELSE n
    BY NameFacts
  <2>2. Ref(n) = branch[d] /\ Reachable(n) = branch[d].has
    BY <2>1 DEF Ref, Reachable
  <2>3. Ref(n)' = branch'[d] /\ Reachable(n)' = branch'[d].has
    BY <2>1 DEF Ref, Reachable
  <2>4. CASE d = b
    BY <1>1, <2>1, <2>2, <2>3, <2>4
  <2>5. CASE d # b
    BY <1>1, <2>2, <2>3, <2>5
  <2> QED
    BY <2>4, <2>5
<1>3. Frame
  BY <1>1, <1>2, RepositoryFacts DEF Frame
<1>4. BranchesHaveAPast'
  BY <1>1, RepositoryFacts, NameFacts DEF BranchesHaveAPast
<1> QED
  BY <1>3, <1>4, RepositoryFacts, RepositoryPreserves

LEMMA PushPreserves ==
  ASSUME IndInv, NEW b \in Branches, Push(b)
  PROVE  IndInv'
<1>1. branch[b] \in BranchRow /\ branch[b].state = "live"
  BY RepositoryFacts DEF Push
<1>2. PICK new \in BranchRow : new = [branch[b] EXCEPT !.has = branch[b].has \union {clock}]
  BY <1>1, RepositoryFacts DEF BranchRow
<1>3. new.state = "live" /\ new.has = branch[b].has \union {clock}
  BY <1>1, <1>2 DEF BranchRow
<1>4. branch' = [branch EXCEPT ![b] = new]
  BY <1>2 DEF Push
<1> QED
  <2>1. UNCHANGED <<row, events, lock, request, clock, late, incidents>>
    BY DEF Push
  <2>2. \A c \in new.has : c <= clock
    BY <1>3, RepositoryFacts
  <2>3. \A n \in Names : \A c \in new.has : c \in branch[b].has \/ c >= clock
    BY <1>3, RepositoryFacts
  <2>4. late \subseteq late' /\ late' \subseteq Names \X Commits /\ incidents' \in 0..MaxIncidents
    BY <2>1, RepositoryFacts
  <2> QED
    BY <1>3, <1>4, <2>1, <2>2, <2>3, <2>4, ArrivalPreserves

LEMMA PushLatePreserves ==
  ASSUME IndInv, NEW b \in Branches, NEW c \in Commits, PushLate(b, c)
  PROVE  IndInv'
<1>1. branch[b] \in BranchRow /\ branch[b].state = "live"
  BY RepositoryFacts DEF PushLate
<1>2. PICK new \in BranchRow : new = [branch[b] EXCEPT !.has = branch[b].has \union {c}]
  BY <1>1 DEF BranchRow
<1>3. new.state = "live" /\ new.has = branch[b].has \union {c}
  BY <1>1, <1>2 DEF BranchRow
<1>4. branch' = [branch EXCEPT ![b] = new] /\ c < clock
  BY <1>2 DEF PushLate
<1>5. c \in Nat /\ incidents' \in 0..MaxIncidents
  BY NameFacts, RepositoryFacts, CollectAssumption DEF PushLate, Incident
<1>6. late \subseteq late' /\ late' \subseteq Names \X Commits
  BY NameFacts, RepositoryFacts DEF PushLate
<1>7. \A n \in Names : (IF n = 0 THEN Current ELSE n) = b => <<n, c>> \in late'
  BY NameFacts DEF PushLate
<1>8. \A d \in new.has : d <= clock
  BY <1>3, <1>4, <1>5, RepositoryFacts
<1>9. \A n \in Names : \A d \in new.has :
        (IF n = 0 THEN Current ELSE n) = b => d \in branch[b].has \/ <<n, d>> \in late'
  BY <1>3, <1>7
<1> QED
  <2>1. UNCHANGED <<row, events, lock, request, clock>>
    BY DEF PushLate
  <2>2. /\ b = Current => new.state = "live"
        /\ new.state # "never" /\ (new.state # "live" => new.has = {})
    BY <1>3
  <2>3. \A n \in Names : \A d \in new.has :
          (IF n = 0 THEN Current ELSE n) = b =>
            d \in branch[b].has \/ d >= clock \/ <<n, d>> \in late' \/ branch[b].state = "never"
    BY <1>9
  <2>4. branch' = [branch EXCEPT ![b] = new] /\ incidents' \in 0..MaxIncidents
    BY <1>4, <1>5
  <2> QED
    BY <1>6, <1>8, <2>1, <2>2, <2>3, <2>4, ArrivalPreserves

LEMMA CreateBranchPreserves ==
  ASSUME IndInv, NEW b \in Branches, NEW from \in Branches, CreateBranch(b, from)
  PROVE  IndInv'
<1>1. branch[b].state # "live" /\ b # Current /\ branch[from] \in BranchRow
  BY RepositoryFacts DEF CreateBranch
<1>2. PICK new \in BranchRow : new = [state |-> "live", has |-> branch[from].has]
  BY <1>1 DEF BranchRow
<1>3. new.state = "live" /\ new.has = branch[from].has /\ branch' = [branch EXCEPT ![b] = new]
  BY <1>2 DEF CreateBranch
<1>4. /\ late \subseteq late' /\ late' \subseteq Names \X Commits
      /\ branch[b].state # "never" => \A c \in new.has : <<b, c>> \in late'
  BY <1>1, <1>3, NameFacts, RepositoryFacts DEF CreateBranch, BranchRow
<1>5. \A n \in Names : (IF n = 0 THEN Current ELSE n) = b => n = b
  BY <1>1
<1>6. \A c \in new.has : c <= clock
  BY <1>3, RepositoryFacts
<1> QED
  BY <1>3, <1>4, <1>5, <1>6, RepositoryFacts, ArrivalPreserves DEF CreateBranch

LEMMA DeleteBranchPreserves ==
  ASSUME IndInv, NEW b \in Branches, DeleteBranch(b)
  PROVE  IndInv'
<1>1. PICK new \in BranchRow : new = [state |-> "gone", has |-> {}]
  BY DEF BranchRow
<1>2. new.state = "gone" /\ new.has = {} /\ branch' = [branch EXCEPT ![b] = new] /\ b # Current
  BY <1>1 DEF DeleteBranch
<1>3. incidents' \in 0..MaxIncidents
  BY RepositoryFacts, CollectAssumption DEF DeleteBranch, Incident
<1> QED
  BY <1>2, <1>3, RepositoryFacts, ArrivalPreserves DEF DeleteBranch

LEMMA InitInv == Init => IndInv
<1> SUFFICES ASSUME Init PROVE IndInv
  OBVIOUS
<1> DEFINE paths == [EmptyConfig EXCEPT !.emails = TRUE, !.paths = {Current}]
<1>1. paths \in Config /\ paths.branches = EmptyConfig.branches /\ paths.cursors = EmptyConfig.cursors
  BY IdleFacts, NameFacts DEF Config
<1> HIDE DEF paths
<1>2. /\ row \in [Sources -> Row]
      /\ \A s \in Sources : row[s].config = paths
  <2>1. row \in [Sources -> {[state |-> st, type |-> "git-local", config |-> paths,
                              status |-> "enabled", last |-> "never"] : st \in {"absent", "live"}}]
    BY DEF Init, paths
  <2>2. ASSUME NEW s \in Sources PROVE row[s] \in Row /\ row[s].config = paths
    <3>1. PICK st \in {"absent", "live"} :
            row[s] = [state |-> st, type |-> "git-local", config |-> paths,
                      status |-> "enabled", last |-> "never"]
      BY <2>1
    <3> QED
      BY <1>1, <3>1 DEF Row
  <2> QED
    BY <2>1, <2>2
<1>3. TypeOK
  <2>1. request \in [Requests -> Request] /\ lock \in [Sources -> SUBSET Requests]
    BY IdleFacts DEF Init
  <2>2. events \in [Sources -> [Commits -> Seq(Names)]]
    BY DEF Init
  <2>3. clock \in 1..MaxClock /\ incidents \in 0..MaxIncidents /\ late \subseteq Names \X Commits
    BY CollectAssumption DEF Init
  <2>4. branch \in [Branches -> [state : {"never", "live", "gone"}, has : SUBSET Commits]]
    BY DEF Init
  <2> QED
    BY <1>2, <2>1, <2>2, <2>3, <2>4 DEF TypeOK
<1>4. CursorsAreTrusted
  <2>1. \A n \in Names : EmptyConfig.branches[n] = -1 /\ EmptyConfig.cursors[n] = -1
    BY DEF EmptyConfig, NewConfig, NoCursors
  <2> QED
    BY <1>1, <1>2, <1>3, <2>1, SmallIsGood, TrustedIsGood DEF CursorsAreTrusted
<1>5. LocksAreOwned
  BY IdleFacts, NameFacts DEF Init, LocksAreOwned, WorksOn
<1>6. NoDuplicates /\ BranchesHaveAPast
  BY NameFacts DEF Init, NoDuplicates, BranchesHaveAPast
<1> QED
  BY <1>3, <1>4, <1>5, <1>6, IdleFits DEF IndInv, Init

LEMMA NextInv == IndInv /\ [Next]_vars => IndInv'
<1> SUFFICES ASSUME IndInv, [Next]_vars PROVE IndInv'
  OBVIOUS
<1>1. CASE UNCHANGED vars
  <2>1. Frame
    BY <1>1, KeptIsFrame, NothingElse DEF vars
  <2>2. BranchesHaveAPast'
    BY <1>1 DEF vars, IndInv, BranchesHaveAPast
  <2> QED
    BY <1>1, <2>1, <2>2, RepositoryFacts, RepositoryPreserves DEF vars
<1>2. CASE Environment
  BY <1>2, TickPreserves, PushPreserves, PushLatePreserves, DeleteBranchPreserves,
     CreateBranchPreserves DEF Environment
<1>3. CASE Crash
  BY <1>3, CrashPreserves
<1>4. ASSUME NEW r \in Requests, SyncStep(r) PROVE IndInv'
  BY <1>4, NextSourcePreserves, NextUnusablePreserves, NextBusyPreserves, CollectPreserves,
     FetchDonePreserves, NoEmailsPreserves, MigratePreserves, NoRepositoryPreserves,
     AllBranchesFailedPreserves, ReadKnownPreserves, InsertPreserves, SaveBranchCursorsPreserves,
     SaveBranchesPreserves, StatementFailsPreserves, RecordFailurePreserves, SyncErrorPreserves
  DEF SyncStep
<1>5. ASSUME NEW r \in Requests, EditStep(r) PROVE IndInv'
  BY <1>5, PutPreserves, PatchStatusPreserves, RemoveBranchPreserves, DeletePreserves,
     EditFailsPreserves DEF EditStep
<1>6. ASSUME NEW r \in Requests, NEW s \in Sources, Begins(r, s) PROVE IndInv'
  BY <1>6, SyncPreserves, FetchPreserves, CreatePreserves, ReadRowPreserves DEF Begins
<1>7. ASSUME NEW r \in Requests, NEW resync \in BOOLEAN, SyncAll(r, resync) PROVE IndInv'
  BY <1>7, SyncAllPreserves
<1> QED
  BY <1>1, <1>2, <1>3, <1>4, <1>5, <1>6, <1>7 DEF Next

\* The invariant of the syncs holds in every reachable state.
THEOREM Invariance == Spec => []IndInv
<1>1. Init => IndInv
  BY InitInv
<1>2. IndInv /\ [Next]_vars => IndInv'
  BY NextInv
<1> QED
  BY <1>1, <1>2, PTL DEF Spec

\* Rows, events, cursors and requests keep to their types.
THEOREM TypeOKHolds == Spec => []TypeOK
<1>1. IndInv => TypeOK
  BY DEF IndInv
<1> QED
  BY <1>1, Invariance, PTL

\* insertNewEvents reads the commits of a source in one statement and inserts
\* in another; with the operation lock that is enough to hold a commit once,
\* though the table has no unique index.
THEOREM NoDuplicatesHolds == Spec => []NoDuplicates
<1>1. IndInv => NoDuplicates
  BY DEF IndInv
<1> QED
  BY <1>1, Invariance, PTL

\* The operation lock of a source has one owner, the request at work on it.
THEOREM LocksHold == Spec => []LocksAreOwned
<1>1. IndInv => LocksAreOwned
  BY DEF IndInv
<1> QED
  BY <1>1, Invariance, PTL

\* A cursor never gets ahead of the events, although it is written in another
\* statement than they, together with a configuration read long before.
THEOREM CursorsCover == Spec => []CursorCovers
<1>1. IndInv => CursorCovers
  BY DEF IndInv, CursorsAreTrusted, Trusted, CursorCovers
<1> QED
  BY <1>1, Invariance, PTL

\* Everything the run checks as one invariant: rows are of their types, locks
\* are owned, and what a handler between two statements holds fits the tables.
THEOREM WellFormedHolds == Spec => []WellFormed
<1>1. IndInv => WellFormed
  BY DEF WellFormed
<1> QED
  BY <1>1, Invariance, PTL
=============================================================================
