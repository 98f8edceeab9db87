----------------------- MODULE ServerDatabase_proofs ------------------------
(***************************************************************************)
(* Proofs about what a server finds in its database: the schema, which     *)
(* LedgerMigration brings to the head of a corpus, and the writing styles, *)
(* which WritingStyles seeds and lets requests write.  The two machines    *)
(* share no variable, so their definitions have names of their own (those  *)
(* of LedgerMigration begin with Ledger) and each has its own invariant.   *)
(***************************************************************************)
EXTENDS LedgerMigration, WritingStyles, TLAPS, FiniteSetTheorems

(***************************************************************************)
(* The migration ledger, for any number of processes, binaries and         *)
(* entries: LedgerInv is inductive, and the properties follow from it.     *)
(***************************************************************************)
Transaction == {"create", "recheck", "apply"}

\* Where a migration may be.
LEMMA MigratorProcess ==
  ASSUME NEW m \in Migrators
  PROVE  m \in Processes /\ m \notin Servers /\ HeadOf[m] \in 1..NEntries /\ NEntries \in Nat
BY LedgerAssumption DEF Processes, Entries

\* A ledger that a binary accepts, and the next entry recorded in it.
LEMMA AppendAccepted ==
  ASSUME NEW h \in Nat, NEW l \in Seq(Rows), VerifyPrefix(h, l), Len(l) + 1 <= h,
         Len(l) + 1 \in Entries
  PROVE  LET k == Append(l, [entry |-> Len(l) + 1, hash |-> "full"])
         IN  /\ k \in Seq(Rows) /\ Len(k) = Len(l) + 1
             /\ VerifyPrefix(h, k)
             /\ \A i \in 1..Len(l) : k[i] = l[i]
<1> DEFINE r == [entry |-> Len(l) + 1, hash |-> "full"]
           k == Append(l, r)
<1>1. r \in Rows
  BY DEF Rows, Hashes
<1>2. k \in Seq(Rows) /\ Len(k) = Len(l) + 1 /\ \A i \in 1..Len(l) : k[i] = l[i]
  BY <1>1
<1>3. k[Len(l) + 1] = r
  BY <1>1
<1>4. \A i \in 1..Len(k) : Accepts(i, k[i])
  <2> SUFFICES ASSUME NEW i \in 1..Len(k) PROVE Accepts(i, k[i])
    OBVIOUS
  <2>1. CASE i \in 1..Len(l)
    BY <2>1, <1>2 DEF VerifyPrefix
  <2>2. CASE i = Len(l) + 1
    BY <2>2, <1>3 DEF Accepts
  <2> QED
    BY <2>1, <2>2, <1>2
<1> QED
  BY <1>2, <1>4 DEF VerifyPrefix

\* One migration at a time is in a transaction.
LEMMA OneWriter ==
  ASSUME LedgerInv, NEW m \in Migrators, NEW n \in Migrators,
         pc[m] \in Transaction, pc[n] \in Transaction
  PROVE  m = n
BY DEF LedgerInv, WriterIsAlone, Transaction

\* The states that a database is found in satisfy the invariant.
LEMMA LedgerInitInv == LedgerInit => LedgerInv
<1> SUFFICES ASSUME LedgerInit PROVE LedgerInv
  OBVIOUS
<1>1. ledger \in Seq(Rows) /\ Len(ledger) <= NEntries /\ NEntries \in Nat
  BY LedgerAssumption DEF LedgerInit
<1>2. SchemaOf(Len(ledger)) \in [Entries -> Nat]
  BY LedgerAssumption DEF SchemaOf
<1>3. LedgerTypeOK
  BY <1>1, <1>2 DEF LedgerInit, LedgerTypeOK, Nobody
<1>4. WriterIsAlone
  BY DEF LedgerInit, WriterIsAlone, Nobody, Processes
<1> QED
  BY <1>1, <1>3, <1>4
  DEF LedgerInit, LedgerInv, SchemaMatchesLedger, ServersDoNotMigrate, TransactionExtends, Processes

\* Steps that leave the database, the writer and its copy alone, and move a
\* process in or out of no transaction.
LEMMA QuietStep ==
  ASSUME LedgerInv, NEW p \in Processes,
         NEW q \in {"idle", "checked", "begin", "done", "serving", "refused", "failed"},
         pc' = [pc EXCEPT ![p] = q], pc[p] \notin Transaction,
         p \in Servers => q \in {"idle", "checked", "serving", "refused"},
         UNCHANGED <<database, writer, tx, next>>,
         existed' \in [Processes -> BOOLEAN],
         \A r \in Processes : r # p => existed'[r] = existed[r],
         existed'[p] /\ q \in {"checked", "begin"} => exists,
         p \in Servers /\ q = "serving" => Len(ledger) >= HeadOf[p]
  PROVE  LedgerInv'
<1>1. LedgerTypeOK'
  BY DEF LedgerInv, LedgerTypeOK, database
<1>2. WriterIsAlone'
  BY MigratorProcess DEF LedgerInv, LedgerTypeOK, WriterIsAlone, Transaction
<1>3. ServersDoNotMigrate'
  BY DEF LedgerInv, LedgerTypeOK, ServersDoNotMigrate, Processes
<1>4. TransactionExtends'
  <2> SUFFICES ASSUME NEW m \in Migrators, pc'[m] \in Transaction PROVE pc'[m] = pc[m]
    BY DEF LedgerInv, TransactionExtends, database, Transaction, VerifyPrefix, Accepts, Applied
  <2> QED
    BY MigratorProcess DEF LedgerInv, LedgerTypeOK, Transaction
<1>5. \A r \in Processes : existed'[r] /\ pc'[r] \in {"checked", "begin", "create", "recheck"} => exists'
  BY DEF LedgerInv, LedgerTypeOK, database
<1>6. \A s \in Servers : pc'[s] = "serving" => Len(ledger') >= HeadOf[s]
  BY DEF LedgerInv, LedgerTypeOK, database, Processes
<1> QED
  BY <1>1, <1>2, <1>3, <1>4, <1>5, <1>6 DEF LedgerInv, SchemaMatchesLedger, database

\* A step of the writer on its own copy, and on the loop.
LEMMA WriterStep ==
  ASSUME LedgerInv, NEW m \in Migrators, NEW q \in Transaction,
         pc[m] \in Transaction, pc' = [pc EXCEPT ![m] = q],
         UNCHANGED <<database, writer, existed>>,
         tx' \in [exists : BOOLEAN, ledger : Seq(Rows), schema : [Entries -> Nat]],
         next' \in [entry : Nat \ {0}, done : Nat],
         q = "create" => pc[m] = "create", q = "recheck" => pc[m] \in {"create", "recheck"},
         q \in {"create", "recheck"} => tx'.ledger = ledger /\ tx'.schema = schema,
         q = "create" => tx'.exists = exists,
         q \in {"recheck", "apply"} => tx'.exists,
         q = "apply" =>
           /\ VerifyPrefix(HeadOf[m], ledger) /\ VerifyPrefix(HeadOf[m], tx'.ledger)
           /\ Len(ledger) <= Len(tx'.ledger)
           /\ \A i \in 1..Len(ledger) : tx'.ledger[i] = ledger[i]
           /\ next'.entry = Len(tx'.ledger) + 1
           /\ next'.entry <= HeadOf[m] => next'.done <= StatementsOf[next'.entry]
           /\ next'.entry > HeadOf[m] => next'.done = 0
           /\ tx'.schema = Applied(Len(tx'.ledger), next'.done)
  PROVE  LedgerInv'
<1>0. m \in Processes /\ m \notin Servers
  BY MigratorProcess
<1>1. LedgerTypeOK'
  BY <1>0 DEF LedgerInv, LedgerTypeOK, database, Transaction
<1>2. WriterIsAlone'
  BY <1>0, MigratorProcess DEF LedgerInv, LedgerTypeOK, WriterIsAlone, Transaction
<1>3. ServersDoNotMigrate'
  BY <1>0 DEF LedgerInv, LedgerTypeOK, ServersDoNotMigrate, Processes
<1>4. TransactionExtends'
  <2> SUFFICES ASSUME NEW n \in Migrators, pc'[n] \in Transaction
               PROVE  n = m /\ pc'[m] = q
    BY DEF TransactionExtends, database, Transaction, VerifyPrefix, Accepts, Applied
  <2>1. pc[n] \in Transaction
    BY <1>0, MigratorProcess DEF LedgerInv, LedgerTypeOK
  <2> QED
    BY <2>1, <1>0, OneWriter DEF LedgerInv, LedgerTypeOK
<1>5. \A r \in Processes : existed'[r] /\ pc'[r] \in {"checked", "begin", "create", "recheck"} => exists'
  BY <1>0 DEF LedgerInv, LedgerTypeOK, database, Transaction
<1>6. \A s \in Servers : pc'[s] = "serving" => Len(ledger') >= HeadOf[s]
  BY <1>0 DEF LedgerInv, LedgerTypeOK, database, Processes
<1> QED
  BY <1>1, <1>2, <1>3, <1>4, <1>5, <1>6 DEF LedgerInv, SchemaMatchesLedger, database

\* A transaction that ends without effect, and a process that starts again.
LEMMA ReleaseStep ==
  ASSUME LedgerInv, NEW p \in Processes, NEW q \in {"idle", "refused", "failed"},
         pc' = [pc EXCEPT ![p] = q], p \in Servers => q = "idle",
         writer' = writer \ {p}, UNCHANGED <<database, tx, existed, next>>
  PROVE  LedgerInv'
<1>0. writer' \in {Nobody} \union {{m} : m \in Migrators}
  BY DEF LedgerInv, LedgerTypeOK, Nobody
<1>1. LedgerTypeOK'
  BY <1>0 DEF LedgerInv, LedgerTypeOK, database
<1>2. WriterIsAlone'
  <2> SUFFICES ASSUME NEW m \in Migrators PROVE pc'[m] \in Transaction <=> writer' = {m}
    BY DEF WriterIsAlone, Transaction
  <2>1. CASE m = p
    BY <2>1 DEF LedgerInv, LedgerTypeOK, Transaction
  <2>2. CASE m # p
    BY <2>2, <1>0, MigratorProcess DEF LedgerInv, LedgerTypeOK, WriterIsAlone, Transaction, Nobody
  <2> QED
    BY <2>1, <2>2
<1>3. ServersDoNotMigrate'
  BY DEF LedgerInv, LedgerTypeOK, ServersDoNotMigrate, Processes
<1>4. TransactionExtends'
  <2> SUFFICES ASSUME NEW m \in Migrators, pc'[m] \in Transaction PROVE pc'[m] = pc[m]
    BY DEF LedgerInv, TransactionExtends, database, Transaction, VerifyPrefix, Accepts, Applied
  <2> QED
    BY MigratorProcess DEF LedgerInv, LedgerTypeOK, Transaction
<1>5. \A r \in Processes : existed'[r] /\ pc'[r] \in {"checked", "begin", "create", "recheck"} => exists'
  BY DEF LedgerInv, LedgerTypeOK, database
<1>6. \A s \in Servers : pc'[s] = "serving" => Len(ledger') >= HeadOf[s]
  BY DEF LedgerInv, LedgerTypeOK, database, Processes
<1> QED
  BY <1>1, <1>2, <1>3, <1>4, <1>5, <1>6 DEF LedgerInv, SchemaMatchesLedger, database

\* What the writer's loop has done, once it is through.
LEMMA LoopIsThrough ==
  ASSUME LedgerInv, NEW m \in Migrators, pc[m] = "apply", next.entry > HeadOf[m]
  PROVE  /\ AtHead(HeadOf[m], tx.ledger)
         /\ tx.schema = SchemaOf(Len(tx.ledger))
<1>1. /\ next.entry = Len(tx.ledger) + 1 /\ next.done = 0
      /\ VerifyPrefix(HeadOf[m], tx.ledger)
      /\ tx.schema = Applied(Len(tx.ledger), next.done)
  BY DEF LedgerInv, TransactionExtends
<1>2. Len(tx.ledger) \in Nat
  BY DEF LedgerInv, LedgerTypeOK
<1>3. Len(tx.ledger) = HeadOf[m]
  BY <1>1, <1>2, MigratorProcess DEF VerifyPrefix
<1>4. Applied(Len(tx.ledger), 0) = SchemaOf(Len(tx.ledger))
  BY <1>2 DEF Applied, SchemaOf
<1> QED
  BY <1>1, <1>3, <1>4 DEF AtHead

LEMMA ReadingKeepsInv ==
  ASSUME LedgerInv, NEW p \in Processes, ReadExists(p)
  PROVE  LedgerInv'
<1>1. pc[p] \notin Transaction /\ existed' \in [Processes -> BOOLEAN]
  BY DEF ReadExists, Transaction, LedgerInv, LedgerTypeOK
<1>2. existed'[p] => exists
  BY DEF ReadExists, LedgerInv, LedgerTypeOK
<1> QED
  BY <1>1, <1>2, QuietStep DEF ReadExists

LEMMA VerifyingKeepsInv ==
  ASSUME LedgerInv,
         \/ \E m \in Migrators : VerifyBeforeMigration(m) \/ Busy(m)
         \/ \E s \in Servers : VerifyLedger(s)
  PROVE  LedgerInv'
<1>1. ASSUME NEW m \in Migrators, VerifyBeforeMigration(m) PROVE LedgerInv'
  <2>1. existed' = existed /\ (existed[m] => exists)
    BY <1>1, MigratorProcess DEF VerifyBeforeMigration, LedgerInv
  <2>2. PICK q \in {"begin", "done", "refused"} : pc' = [pc EXCEPT ![m] = q]
    BY <1>1 DEF VerifyBeforeMigration
  <2> QED
    BY ZenonT(40), <1>1, <2>1, <2>2, QuietStep, MigratorProcess
    DEF VerifyBeforeMigration, Transaction, LedgerInv, LedgerTypeOK
<1>2. ASSUME NEW m \in Migrators, Busy(m) PROVE LedgerInv'
  BY <1>2, QuietStep, MigratorProcess DEF Busy, Transaction, LedgerInv, LedgerTypeOK
<1>3. ASSUME NEW s \in Servers, VerifyLedger(s) PROVE LedgerInv'
  <2>1. s \in Processes /\ s \notin Migrators
    BY LedgerAssumption DEF Processes
  <2>2. CASE existed[s] /\ AtHead(HeadOf[s], RowsRead(s))
    <3>1. Len(ledger) >= HeadOf[s]
      BY <2>1, <2>2, LedgerAssumption DEF AtHead, RowsRead, LedgerInv, LedgerTypeOK, Entries
    <3> QED
      BY <1>3, <2>1, <2>2, <3>1, QuietStep DEF VerifyLedger, Transaction, LedgerInv, LedgerTypeOK
  <2>3. CASE ~(existed[s] /\ AtHead(HeadOf[s], RowsRead(s)))
    BY <1>3, <2>1, <2>3, QuietStep DEF VerifyLedger, Transaction, LedgerInv, LedgerTypeOK
  <2> QED
    BY <2>2, <2>3
<1> QED
  BY <1>1, <1>2, <1>3

LEMMA BeginKeepsInv ==
  ASSUME LedgerInv, NEW m \in Migrators, BeginImmediate(m)
  PROVE  LedgerInv'
<1>0. m \in Processes /\ m \notin Servers
  BY MigratorProcess
<1>1. LedgerTypeOK'
  BY <1>0 DEF BeginImmediate, LedgerInv, LedgerTypeOK, database
<1>2. WriterIsAlone'
  BY <1>0, MigratorProcess DEF BeginImmediate, LedgerInv, LedgerTypeOK, WriterIsAlone, Nobody
<1>3. ServersDoNotMigrate'
  BY <1>0 DEF BeginImmediate, LedgerInv, LedgerTypeOK, ServersDoNotMigrate, Processes
<1>4. TransactionExtends'
  <2> SUFFICES ASSUME NEW n \in Migrators, pc'[n] \in Transaction
               PROVE  n = m /\ pc'[m] = "create"
    BY DEF BeginImmediate, TransactionExtends, database, Transaction
  <2>1. pc'[m] = "create"
    BY <1>0 DEF BeginImmediate, LedgerInv, LedgerTypeOK
  <2>2. CASE n # m
    <3>1. pc[n] \in Transaction
      BY <2>2, MigratorProcess DEF BeginImmediate, LedgerInv, LedgerTypeOK
    <3> QED
      BY <3>1 DEF BeginImmediate, LedgerInv, WriterIsAlone, Transaction, Nobody
  <2> QED
    BY <2>1, <2>2
<1>5. \A r \in Processes : existed'[r] /\ pc'[r] \in {"checked", "begin", "create", "recheck"} => exists'
  BY <1>0 DEF BeginImmediate, LedgerInv, LedgerTypeOK, database
<1>6. \A s \in Servers : pc'[s] = "serving" => Len(ledger') >= HeadOf[s]
  BY <1>0 DEF BeginImmediate, LedgerInv, LedgerTypeOK, database, Processes
<1> QED
  BY <1>1, <1>2, <1>3, <1>4, <1>5, <1>6 DEF BeginImmediate, LedgerInv, SchemaMatchesLedger, database

LEMMA CreateKeepsInv ==
  ASSUME LedgerInv, NEW m \in Migrators, CreateLedger(m)
  PROVE  LedgerInv'
<1>1. /\ tx' \in [exists : BOOLEAN, ledger : Seq(Rows), schema : [Entries -> Nat]]
      /\ tx'.ledger = tx.ledger /\ tx'.schema = tx.schema /\ tx'.exists = (tx.exists \/ ~existed[m])
  BY DEF CreateLedger, LedgerInv, LedgerTypeOK
<1>2. tx.exists = exists /\ tx.ledger = ledger /\ tx.schema = schema
  BY DEF CreateLedger, LedgerInv, TransactionExtends
<1>3. existed[m] => exists
  BY MigratorProcess DEF CreateLedger, LedgerInv
<1>4. tx'.exists
  BY <1>1, <1>2, <1>3 DEF LedgerInv, LedgerTypeOK
<1>5. next' \in [entry : Nat \ {0}, done : Nat]
  BY DEF CreateLedger, LedgerInv, LedgerTypeOK
<1> QED
  BY <1>1, <1>2, <1>4, <1>5, WriterStep DEF CreateLedger, Transaction, database

LEMMA RecheckKeepsInv ==
  ASSUME LedgerInv, NEW m \in Migrators, Recheck(m)
  PROVE  LedgerInv'
<1>1. tx.exists /\ tx.ledger = ledger /\ tx.schema = schema /\ VerifyPrefix(HeadOf[m], ledger)
  BY DEF Recheck, LedgerInv, TransactionExtends
<1>2. Len(ledger) \in Nat /\ next' = [entry |-> Len(ledger) + 1, done |-> 0]
  BY <1>1 DEF Recheck, LedgerInv, LedgerTypeOK
<1>3. schema = Applied(Len(ledger), 0)
  BY <1>2 DEF LedgerInv, SchemaMatchesLedger, SchemaOf, Applied
<1>4. next'.entry <= HeadOf[m] => next'.done <= StatementsOf[next'.entry]
  <2> SUFFICES ASSUME Len(ledger) + 1 <= HeadOf[m] PROVE 0 <= StatementsOf[Len(ledger) + 1]
    BY <1>2
  <2>1. Len(ledger) + 1 \in Entries
    BY <1>2, MigratorProcess DEF Entries
  <2> QED
    BY <2>1, LedgerAssumption
<1>5. tx' \in [exists : BOOLEAN, ledger : Seq(Rows), schema : [Entries -> Nat]] /\ tx' = tx
  BY DEF Recheck, LedgerInv, LedgerTypeOK
<1>6. /\ VerifyPrefix(HeadOf[m], tx'.ledger) /\ Len(ledger) <= Len(tx'.ledger)
      /\ \A i \in 1..Len(ledger) : tx'.ledger[i] = ledger[i]
      /\ next'.entry = Len(tx'.ledger) + 1 /\ next'.done = 0
      /\ tx'.schema = Applied(Len(tx'.ledger), next'.done)
  BY <1>1, <1>2, <1>3, <1>5
<1>7. next' \in [entry : Nat \ {0}, done : Nat] /\ tx'.exists
  BY <1>1, <1>2, <1>5
<1>8. pc[m] = "recheck" /\ pc' = [pc EXCEPT ![m] = "apply"] /\ UNCHANGED <<database, writer, existed>>
  BY DEF Recheck, database
<1> QED
  BY <1>1, <1>4, <1>5, <1>6, <1>7, <1>8, WriterStep DEF Transaction

\* What the invariant says while the loop runs.
LEMMA InLoop ==
  ASSUME LedgerInv, NEW m \in Migrators, pc[m] = "apply", next.entry <= HeadOf[m]
  PROVE  /\ tx.exists
         /\ VerifyPrefix(HeadOf[m], ledger) /\ VerifyPrefix(HeadOf[m], tx.ledger)
         /\ Len(ledger) \in Nat /\ Len(tx.ledger) \in Nat
         /\ Len(ledger) <= Len(tx.ledger)
         /\ \A i \in 1..Len(ledger) : tx.ledger[i] = ledger[i]
         /\ next.entry = Len(tx.ledger) + 1 /\ next.entry \in Entries
         /\ next.done \in Nat /\ next.done <= StatementsOf[next.entry]
         /\ StatementsOf[next.entry] \in Nat
         /\ tx.schema = Applied(Len(tx.ledger), next.done)
<1>1. next.entry \in Entries
  BY MigratorProcess DEF LedgerInv, LedgerTypeOK, Entries
<1> QED
  BY <1>1, LedgerAssumption DEF LedgerInv, LedgerTypeOK, TransactionExtends

\* One more statement of the entry after n.
LEMMA OneMoreStatement ==
  ASSUME NEW n \in Nat, NEW d \in Nat, n + 1 \in Entries
  PROVE  [Applied(n, d) EXCEPT ![n + 1] = @ + 1] = Applied(n, d + 1)
<1> DEFINE f == [Applied(n, d) EXCEPT ![n + 1] = @ + 1]
           g == Applied(n, d + 1)
<1>1. DOMAIN f = Entries /\ DOMAIN g = Entries /\ Entries \subseteq Nat
  BY LedgerAssumption DEF Applied, Entries
<1>2. ASSUME NEW x \in Entries PROVE f[x] = g[x]
  <2>0. x \in Nat
    BY <1>1
  <2>1. Applied(n, d)[n + 1] = d /\ g[n + 1] = d + 1
    BY DEF Applied
  <2>2. x # n + 1 => f[x] = Applied(n, d)[x] /\ Applied(n, d)[x] = g[x]
    BY <1>2 DEF Applied
  <2>3. f[n + 1] = d + 1
    BY <2>1 DEF Applied
  <2> QED
    BY <2>1, <2>2, <2>3
<1>3. f = [x \in Entries |-> f[x]] /\ g = [x \in Entries |-> g[x]]
  BY <1>1 DEF Applied
<1> QED
  BY <1>2, <1>3

LEMMA ExecuteKeepsInv ==
  ASSUME LedgerInv, NEW m \in Migrators, Execute(m)
  PROVE  LedgerInv'
<1>1. pc[m] = "apply" /\ next.entry <= HeadOf[m] /\ next.done < StatementsOf[next.entry]
  BY DEF Execute
<1> DEFINE e == next.entry
           d == next.done
<1>2. /\ next' = [entry |-> e, done |-> d + 1]
      /\ next' \in [entry : Nat \ {0}, done : Nat]
  <2>1. next \in [entry : Nat \ {0}, done : Nat] /\ next' = [next EXCEPT !.done = @ + 1]
    BY DEF Execute, LedgerInv, LedgerTypeOK
  <2> QED
    BY <2>1
<1>3. /\ tx'.exists = tx.exists /\ tx'.ledger = tx.ledger
      /\ tx'.schema = [tx.schema EXCEPT ![e] = @ + 1]
      /\ tx' \in [exists : BOOLEAN, ledger : Seq(Rows), schema : [Entries -> Nat]]
  <2>1. e \in Entries
    BY <1>1, InLoop
  <2>2. /\ tx \in [exists : BOOLEAN, ledger : Seq(Rows), schema : [Entries -> Nat]]
        /\ tx' = [tx EXCEPT !.schema = [tx.schema EXCEPT ![e] = @ + 1]]
    BY DEF Execute, LedgerInv, LedgerTypeOK
  <2>3. [tx.schema EXCEPT ![e] = @ + 1] \in [Entries -> Nat]
    BY <2>1, <2>2
  <2> QED
    BY <2>2, <2>3
<1>4. tx'.schema = Applied(Len(tx.ledger), d + 1)
  <2>1. /\ tx.schema = Applied(Len(tx.ledger), d) /\ Len(tx.ledger) \in Nat
        /\ e = Len(tx.ledger) + 1 /\ e \in Entries /\ d \in Nat
    BY <1>1, InLoop
  <2>2. [Applied(Len(tx.ledger), d) EXCEPT ![e] = @ + 1] = Applied(Len(tx.ledger), d + 1)
    BY <2>1, OneMoreStatement
  <2> QED
    BY <1>3, <2>1, <2>2
<1>5. d + 1 <= StatementsOf[e]
  BY <1>1, InLoop
<1>6. ~(e > HeadOf[m])
  BY <1>1, InLoop, MigratorProcess DEF Entries
<1>7. /\ VerifyPrefix(HeadOf[m], ledger) /\ VerifyPrefix(HeadOf[m], tx'.ledger) /\ tx'.exists
      /\ Len(ledger) <= Len(tx'.ledger)
      /\ \A i \in 1..Len(ledger) : tx'.ledger[i] = ledger[i]
      /\ next'.entry = Len(tx'.ledger) + 1
  BY <1>1, <1>2, <1>3, InLoop
<1>8. /\ next'.entry <= HeadOf[m] => next'.done <= StatementsOf[next'.entry]
      /\ next'.entry > HeadOf[m] => next'.done = 0
      /\ tx'.schema = Applied(Len(tx'.ledger), next'.done)
  BY <1>2, <1>3, <1>4, <1>5, <1>6
<1>9. pc' = [pc EXCEPT ![m] = "apply"] /\ UNCHANGED <<database, writer, existed>>
  BY <1>1 DEF Execute, database, LedgerInv, LedgerTypeOK
<1> QED
  BY <1>1, <1>2, <1>3, <1>7, <1>8, <1>9, WriterStep DEF Transaction

LEMMA RecordKeepsInv ==
  ASSUME LedgerInv, NEW m \in Migrators, RecordEntry(m)
  PROVE  LedgerInv'
<1> DEFINE n == Len(tx.ledger)
           row == [entry |-> n + 1, hash |-> "full"]
<1>1. pc[m] = "apply" /\ next.entry <= HeadOf[m] /\ next.done = StatementsOf[next.entry]
  BY DEF RecordEntry
<1>2. next.entry = n + 1 /\ n + 1 \in Entries /\ n \in Nat /\ n + 1 <= HeadOf[m]
  BY <1>1, InLoop
<1>3. tx.ledger \in Seq(Rows) /\ HeadOf[m] \in Nat /\ VerifyPrefix(HeadOf[m], tx.ledger)
  BY <1>1, InLoop, MigratorProcess DEF LedgerInv, LedgerTypeOK
<1>4. /\ Append(tx.ledger, row) \in Seq(Rows) /\ Len(Append(tx.ledger, row)) = n + 1
      /\ VerifyPrefix(HeadOf[m], Append(tx.ledger, row))
      /\ \A i \in 1..n : Append(tx.ledger, row)[i] = tx.ledger[i]
  BY <1>2, <1>3, AppendAccepted
<1>5. /\ tx'.exists = tx.exists /\ tx'.schema = tx.schema /\ tx'.ledger = Append(tx.ledger, row)
      /\ tx' \in [exists : BOOLEAN, ledger : Seq(Rows), schema : [Entries -> Nat]]
  BY <1>2, <1>4 DEF RecordEntry, LedgerInv, LedgerTypeOK
<1>6. next' = [entry |-> n + 2, done |-> 0] /\ next' \in [entry : Nat \ {0}, done : Nat]
  BY <1>2 DEF RecordEntry
<1>7. Applied(n, StatementsOf[n + 1]) = Applied(n + 1, 0)
  BY <1>2 DEF Applied, Entries
<1>8. tx'.schema = Applied(n + 1, 0)
  BY <1>1, <1>2, <1>5, <1>7, InLoop
<1>9. n + 2 <= HeadOf[m] => 0 <= StatementsOf[n + 2]
  <2> SUFFICES ASSUME n + 2 <= HeadOf[m] PROVE 0 <= StatementsOf[n + 2]
    OBVIOUS
  <2>1. n + 2 \in Entries
    BY <1>2, MigratorProcess DEF Entries
  <2> QED
    BY <2>1, LedgerAssumption
<1>10. Len(ledger) <= n + 1 /\ \A i \in 1..Len(ledger) : tx'.ledger[i] = ledger[i]
  BY <1>1, <1>4, <1>5, InLoop
<1>11. VerifyPrefix(HeadOf[m], ledger) /\ tx'.exists
  BY <1>1, <1>5, InLoop
<1>12. /\ next'.entry = Len(tx'.ledger) + 1 /\ next'.done = 0
       /\ tx'.schema = Applied(Len(tx'.ledger), next'.done)
       /\ next'.entry <= HeadOf[m] => next'.done <= StatementsOf[next'.entry]
  BY <1>2, <1>4, <1>5, <1>6, <1>8, <1>9
<1>13. VerifyPrefix(HeadOf[m], tx'.ledger) /\ Len(ledger) <= Len(tx'.ledger)
  BY <1>4, <1>5, <1>10
<1>14. pc' = [pc EXCEPT ![m] = "apply"] /\ UNCHANGED <<database, writer, existed>>
  BY <1>1 DEF RecordEntry, database, LedgerInv, LedgerTypeOK
<1> QED
  BY <1>1, <1>5, <1>6, <1>10, <1>11, <1>12, <1>13, <1>14, WriterStep DEF Transaction

LEMMA CommitKeepsInv ==
  ASSUME LedgerInv, NEW m \in Migrators, Commit(m)
  PROVE  LedgerInv'
<1>0. m \in Processes /\ m \notin Servers /\ HeadOf[m] \in 1..NEntries /\ NEntries \in Nat
  BY MigratorProcess
<1>1. /\ tx.exists /\ Len(ledger) <= Len(tx.ledger)
      /\ Len(tx.ledger) = HeadOf[m] /\ tx.schema = SchemaOf(Len(tx.ledger))
  BY LoopIsThrough DEF Commit, AtHead, LedgerInv, TransactionExtends
<1>2. LedgerTypeOK'
  BY <1>0 DEF Commit, LedgerInv, LedgerTypeOK
<1>3. WriterIsAlone'
  BY <1>0, MigratorProcess, OneWriter
  DEF Commit, LedgerInv, LedgerTypeOK, WriterIsAlone, Transaction, Nobody
<1>4. ServersDoNotMigrate'
  BY <1>0 DEF Commit, LedgerInv, LedgerTypeOK, ServersDoNotMigrate, Processes
<1>5. TransactionExtends'
  BY <1>3 DEF Commit, WriterIsAlone, TransactionExtends, Nobody
<1>6. SchemaMatchesLedger'
  BY <1>1 DEF Commit, SchemaMatchesLedger, SchemaOf
<1>7. \A s \in Servers : pc'[s] = "serving" => Len(ledger') >= HeadOf[s]
  <2> SUFFICES ASSUME NEW s \in Servers, pc'[s] = "serving" PROVE Len(tx.ledger) >= HeadOf[s]
    BY DEF Commit
  <2>1. s \in Processes /\ HeadOf[s] \in Nat
    BY LedgerAssumption DEF Processes, Entries
  <2>2. pc[s] = "serving"
    BY <1>0, <2>1 DEF Commit, LedgerInv, LedgerTypeOK
  <2> QED
    BY <1>1, <2>1, <2>2 DEF LedgerInv, LedgerTypeOK
<1> QED
  BY <1>0, <1>1, <1>2, <1>3, <1>4, <1>5, <1>6, <1>7 DEF Commit, LedgerInv

LEMMA RollbackKeepsInv ==
  ASSUME LedgerInv, NEW m \in Migrators, Rollback(m)
  PROVE  LedgerInv'
<1>1. writer' = writer \ {m}
  BY DEF Rollback, LedgerInv, WriterIsAlone, Nobody
<1>2. PICK q \in {"refused", "failed"} : pc' = [pc EXCEPT ![m] = q]
  BY DEF Rollback
<1> QED
  BY <1>1, <1>2, MigratorProcess, ReleaseStep DEF Rollback

LEMMA LedgerStutterKeepsInv == LedgerInv /\ UNCHANGED ledgerVars => LedgerInv'
BY DEF ledgerVars, database, LedgerInv, LedgerTypeOK, SchemaMatchesLedger, SchemaOf, WriterIsAlone,
       ServersDoNotMigrate, TransactionExtends, VerifyPrefix, Accepts, Applied

LEMMA LedgerNextKeepsInv == LedgerInv /\ [LedgerNext]_ledgerVars => LedgerInv'
<1> SUFFICES ASSUME LedgerInv, [LedgerNext]_ledgerVars PROVE LedgerInv'
  OBVIOUS
<1>1. ASSUME NEW p \in Processes, ReadExists(p) PROVE LedgerInv'
  BY <1>1, ReadingKeepsInv
<1>2. ASSUME NEW p \in Processes, RestartProcess(p) PROVE LedgerInv'
  BY <1>2, ReleaseStep DEF RestartProcess
<1>3. ASSUME NEW m \in Migrators, Migrate(m) PROVE LedgerInv'
  BY <1>3, VerifyingKeepsInv, BeginKeepsInv, CreateKeepsInv, RecheckKeepsInv,
     ExecuteKeepsInv, RecordKeepsInv, CommitKeepsInv, RollbackKeepsInv DEF Migrate
<1>4. ASSUME NEW s \in Servers, VerifyLedger(s) PROVE LedgerInv'
  BY <1>4, VerifyingKeepsInv
<1> QED
  BY <1>1, <1>2, <1>3, <1>4, LedgerStutterKeepsInv DEF LedgerNext

\* The invariant of the migration machine: the writer's copy extends the
\* database it began with (Migrate's transaction).
THEOREM LedgerInvariance == LedgerSpec => []LedgerInv
BY LedgerInitInv, LedgerNextKeepsInv, PTL DEF LedgerSpec

\* Every entry of the ledger has been executed in full and once (Migrate runs
\* statements and records the entry in one transaction, and checks the ledger
\* again under the write lock).
THEOREM SchemaMatches == LedgerSpec => []SchemaMatchesLedger
<1>1. LedgerInv => SchemaMatchesLedger
  BY DEF LedgerInv
<1> QED
  BY <1>1, LedgerInvariance, PTL

\* A running server's database has all of its corpus (VerifyLedger before
\* listening, and migrations that only append).
THEOREM ServersSafe == LedgerSpec => []ServersHaveTheirSchema
<1>1. LedgerInv => ServersHaveTheirSchema
  <2> SUFFICES ASSUME LedgerInv, NEW s \in Servers, pc[s] = "serving"
               PROVE  Len(ledger) >= HeadOf[s] /\ \A e \in 1..HeadOf[s] : schema[e] = StatementsOf[e]
    BY DEF ServersHaveTheirSchema
  <2>1. Len(ledger) >= HeadOf[s] /\ Len(ledger) \in Nat /\ Len(ledger) <= NEntries
    BY DEF LedgerInv, LedgerTypeOK
  <2>2. HeadOf[s] \in 1..NEntries /\ NEntries \in Nat
    BY LedgerAssumption DEF Processes, Entries
  <2> QED
    BY <2>1, <2>2 DEF LedgerInv, SchemaMatchesLedger, SchemaOf, Entries
<1> QED
  BY <1>1, LedgerInvariance, PTL

\* The ledger only moves from what a binary accepts to that binary's head
\* (Migrate commits all pending entries or none).
THEOREM MovesToAHead == LedgerSpec => LedgerMovesToAHead
<1> DEFINE Move == \E m \in Migrators :
                     /\ VerifyPrefix(HeadOf[m], ledger) /\ AtHead(HeadOf[m], ledger')
                     /\ \A i \in 1..Len(ledger) : ledger'[i] = ledger[i]
<1>1. LedgerInv /\ [LedgerNext]_ledgerVars => [Move]_ledger
  <2> SUFFICES ASSUME LedgerInv, [LedgerNext]_ledgerVars, ledger' # ledger PROVE Move
    OBVIOUS
  <2>1. PICK m \in Migrators : Commit(m)
    BY DEF LedgerNext, ledgerVars, database, ReadExists, RestartProcess, VerifyLedger, Migrate,
           VerifyBeforeMigration, BeginImmediate, Busy, CreateLedger, Recheck, Execute,
           RecordEntry, Rollback
  <2>2. AtHead(HeadOf[m], tx.ledger) /\ ledger' = tx.ledger
    BY <2>1, LoopIsThrough DEF Commit
  <2>3. VerifyPrefix(HeadOf[m], ledger) /\ \A i \in 1..Len(ledger) : tx.ledger[i] = ledger[i]
    BY <2>1 DEF Commit, LedgerInv, TransactionExtends
  <2>4. AtHead(HeadOf[m], ledger')
    BY <2>2
  <2> QED
    BY <2>2, <2>3, <2>4
<1> QED
  BY <1>1, LedgerInvariance, PTL DEF LedgerSpec, LedgerMovesToAHead

(***************************************************************************)
(* The writing styles, for any number of styles, templates, built-in keys  *)
(* and requests: IndInv is inductive, and the properties follow from it.   *)
(***************************************************************************)
\* The built-in keys are keys, each once.
LEMMA BuiltinKeys ==
  /\ Len(Builtin) \in Nat /\ 1 \in 1..Len(Builtin) /\ Formal \in Keys
  /\ \A i \in 1..Len(Builtin) : Builtin[i] \in Keys
  /\ \A i, j \in 1..Len(Builtin) : Builtin[i] = Builtin[j] => i = j
  /\ NoKey \notin Keys /\ NStyles \in Nat /\ Len(Builtin) <= NStyles
BY StylesAssumption DEF Formal

\* A number of styles is a number.
LEMMA CountIsNat == CountAIStyles \in Nat
<1>1. IsFiniteSet(1..NStyles)
  BY StylesAssumption, FS_Interval
<1>2. LiveStyles \subseteq 1..NStyles
  BY DEF LiveStyles, Styles
<1> QED
  BY <1>1, <1>2, FS_Subset, FS_CardinalityType DEF CountAIStyles

\* Where a style of a key is.
LEMMA PresentMeans ==
  ASSUME NEW i \in 1..Len(Builtin)
  PROVE  i \in Present <=> \E s \in LiveStyles : style[s].key = Builtin[i]
BY DEF Present, GetAIStyleByKey

(***************************************************************************)
(* Steps that leave a part of the invariant as it is.                      *)
(***************************************************************************)
LEMMA ReleaseFrame ==
  ASSUME ReleasedSoFar, override' = override, template' = template,
         \A q \in Requests : request'[q].op \in {"resetTemplates", "deleteStyle"} =>
                               request'[q] = request[q]
  PROVE  ReleasedSoFar'
BY DEF ReleasedSoFar, At, Held, LiveTemplates

LEMMA SeedFrame ==
  ASSUME SeededSoFar, untouched' => untouched, style' = style,
         untouched' => \A q \in Requests : Seeding(q) =>
           request'[q].op = request[q].op /\ request'[q].row = request[q].row,
         \A q \in Requests :
           \/ request'[q].op = request[q].op /\ request'[q].row = request[q].row
           \/ request'[q].op \in {"seed", "seedForAI"} =>
                request'[q].row = 1 \/ ~(request'[q].row <= Len(Builtin))
  PROVE  SeededSoFar'
<1> SUFFICES ASSUME untouched' PROVE SeededSoFar'
  BY DEF SeededSoFar
<1>0. untouched
  OBVIOUS
<1>1. Present' = Present /\ LiveStyles' = LiveStyles
  BY DEF Present, GetAIStyleByKey, LiveStyles
<1>2. ASSUME NEW q \in Requests, Completes(q) PROVE Completes(q)'
  BY <1>1, <1>2 DEF Completes, Seeding, At, Held
<1>3. ASSUME NEW q \in Requests, Seeding(q)', NEW j \in 1..Len(Builtin), j < request'[q].row
      PROVE  j \in Present
  <2>1. CASE Seeding(q)
    BY <2>1, <1>0, <1>3 DEF SeededSoFar, Held
  <2>2. CASE ~Seeding(q)
    BY <2>2, <1>3 DEF Seeding, At, Held
  <2> QED
    BY <2>1, <2>2
<1> QED
  BY <1>0, <1>1, <1>2, <1>3 DEF SeededSoFar, Held

\* A request moves on without a write to the tables that the invariant is about.
LEMMA RequestMoves ==
  ASSUME IndInv, NEW r \in Requests, NEW h \in Request, Goto(r, h),
         style' = style, template' = template, override' = override,
         systemPrompts' \subseteq {"check", "generate"}, seeded' \in BOOLEAN, untouched' \in BOOLEAN,
         untouched' => untouched /\ ~Seeding(r), calls' \in 0..MaxCalls,
         h.op = "seed" => h.row \in 1..Len(Builtin) + Len(builtinSystemPrompts)
                          /\ \A q \in Requests \ {r} : ~At(q, "seed"),
         h.op = "seedForAI" => h.row \in 1..Len(Builtin),
         h.op \in {"seed", "seedForAI"} => h.row = 1 \/ ~(h.row <= Len(Builtin)),
         h.op = "saveTemplate" => h.id \in Templates,
         h.op \in Deleting => h.key \in Keys,
         h.op \notin {"setDefault", "resetTemplates", "deleteStyle"}
  PROVE  IndInv'
<1>1. request' \in [Requests -> Request] /\ request' = [request EXCEPT ![r] = h]
  BY DEF IndInv, TypeOK, Goto
<1>2. request'[r] = h /\ \A q \in Requests \ {r} : request'[q] = request[q]
  BY <1>1 DEF IndInv, TypeOK
<1>3. TypeOK'
  BY <1>1 DEF IndInv, TypeOK, LiveStyles
<1>4. (\A s \in LiveStyles : style[s].key \in Keys)'
  BY DEF IndInv, LiveStyles
<1>5. HeldValuesAreSound'
  <2>1. HeldValuesAreSound
    BY DEF IndInv
  <2> QED
    BY <1>2, <2>1 DEF HeldValuesAreSound, At, Held
<1>6. OneSeeder'
  <2>1. OneSeeder
    BY DEF IndInv
  <2> QED
    BY <1>2, <2>1 DEF OneSeeder, At
<1>7. ReleasedSoFar'
  <2>1. ReleasedSoFar
    BY DEF IndInv
  <2> QED
    BY <1>2, <2>1, ReleaseFrame
<1>8. SeededSoFar'
  <2>1. SeededSoFar
    BY DEF IndInv
  <2> QED
    BY <1>2, <2>1, SeedFrame
<1> QED
  BY <1>3, <1>4, <1>5, <1>6, <1>7, <1>8 DEF IndInv

\* A request writes styles otherwise than by seeding.
LEMMA StyleWrites ==
  ASSUME IndInv, ~untouched', untouched' \in BOOLEAN, calls' \in 0..MaxCalls,
         template' = template, override' = override,
         systemPrompts' = systemPrompts, seeded' = seeded,
         style' \in [Styles -> Style],
         \A s, u \in LiveStyles' : style'[s].key = style'[u].key => s = u,
         \A s \in LiveStyles' : style'[s].key \in Keys,
         request' \in [Requests -> Request],
         \A q \in Requests : request'[q] = request[q] \/ request'[q].op \in {"idle", "setDefault"}
  PROVE  IndInv'
<1>1. TypeOK'
  BY DEF IndInv, TypeOK
<1>2. HeldValuesAreSound'
  <2>1. HeldValuesAreSound
    BY DEF IndInv
  <2> QED
    BY <2>1 DEF HeldValuesAreSound, At, Held, Deleting
<1>3. OneSeeder'
  <2>1. OneSeeder
    BY DEF IndInv
  <2> QED
    BY <2>1 DEF OneSeeder, At
<1>4. ReleasedSoFar'
  <2>1. ReleasedSoFar
    BY DEF IndInv
  <2> QED
    BY <2>1, ReleaseFrame
<1>5. SeededSoFar'
  BY DEF SeededSoFar
<1> QED
  BY <1>1, <1>2, <1>3, <1>4, <1>5 DEF IndInv

\* A template is saved, and every deletion that is under way is told.
LEMMA TemplateSaved ==
  ASSUME IndInv, NEW r \in Requests, ~Seeding(r), NEW t \in Templates, request' = SavedBy(r, t),
         template' \in [Templates -> Template],
         \A u \in Templates \ {t} : template'[u] = template[u],
         style' = style, override' = override, systemPrompts' = systemPrompts,
         seeded' = seeded, untouched' = untouched, calls' \in 0..MaxCalls
  PROVE  IndInv'
<1>1. \A q \in Requests :
        \/ request'[q] = Idle /\ (q = r \/ request[q].op = "idle")
        \/ q # r /\ request'[q] = [request[q] EXCEPT !.late = @ \union {t}]
  BY DEF SavedBy, At
<1>2. request' \in [Requests -> Request]
  <2>1. request \in [Requests -> Request]
    BY DEF IndInv, TypeOK
  <2>2. Idle \in Request
    BY DEF Idle, Request, Marks
  <2>3. \A h \in Request : [h EXCEPT !.late = @ \union {t}] \in Request
    BY DEF Request
  <2> QED
    BY <2>1, <2>2, <2>3 DEF SavedBy
<1>3. \A q \in Requests :
        \/ request'[q].op = "idle" /\ (q = r \/ request[q].op = "idle")
        \/ /\ request'[q].op = request[q].op /\ request'[q].id = request[q].id
           /\ request'[q].key = request[q].key /\ request'[q].row = request[q].row
           /\ request'[q].late = request[q].late \union {t}
  <2>1. request \in [Requests -> Request]
    BY DEF IndInv, TypeOK
  <2>2. \A h \in Request :
          LET k == [h EXCEPT !.late = @ \union {t}]
          IN  k.op = h.op /\ k.id = h.id /\ k.key = h.key /\ k.row = h.row
              /\ k.late = h.late \union {t}
    BY DEF Request
  <2>3. Idle.op = "idle"
    BY DEF Idle
  <2> QED
    BY <1>1, <2>1, <2>2, <2>3
<1>4. TypeOK'
  BY <1>2 DEF IndInv, TypeOK, LiveStyles
<1>5. (\A s \in LiveStyles : style[s].key \in Keys)'
  BY DEF IndInv, LiveStyles
<1>6. HeldValuesAreSound'
  <2>1. HeldValuesAreSound
    BY DEF IndInv
  <2> QED
    BY <1>3, <2>1 DEF HeldValuesAreSound, At, Held, Deleting
<1>7. OneSeeder'
  <2>1. OneSeeder
    BY DEF IndInv
  <2> QED
    BY <1>3, <2>1 DEF OneSeeder, At
<1>8. ReleasedSoFar'
  <2>1. ReleasedSoFar
    BY DEF IndInv
  <2> QED
    BY <1>3, <2>1 DEF ReleasedSoFar, At, Held, LiveTemplates
<1>9. SeededSoFar'
  <2>1. SeededSoFar
    BY DEF IndInv
  <2>2. \A q \in Requests : Seeding(q) =>
          request'[q].op = request[q].op /\ request'[q].row = request[q].row
    BY <1>3 DEF Seeding, At
  <2>3. \A q \in Requests :
          \/ request'[q].op = request[q].op /\ request'[q].row = request[q].row
          \/ request'[q].op \notin {"seed", "seedForAI"}
    BY <1>3
  <2> QED
    BY <2>1, <2>2, <2>3, SeedFrame
<1> QED
  BY <1>4, <1>5, <1>6, <1>7, <1>8, <1>9 DEF IndInv

(***************************************************************************)
(* Writes of one style.                                                    *)
(***************************************************************************)
LEMMA IdleIsRequest == Idle \in Request /\ Idle.op = "idle"
BY DEF Idle, Request, Marks

\* An inserted style has a key of its own.
LEMMA InsertIsSound ==
  ASSUME IndInv, NEW key \in Keys, NEW isDefault \in BOOLEAN, InsertAIStyle(key, isDefault)
  PROVE  /\ style' \in [Styles -> Style]
         /\ \A s, u \in LiveStyles' : style'[s].key = style'[u].key => s = u
         /\ \A s \in LiveStyles' : style'[s].key \in Keys
<1>0. /\ style \in [Styles -> Style]
      /\ \A s, u \in LiveStyles : style[s].key = style[u].key => s = u
      /\ \A s \in LiveStyles : style[s].key \in Keys
  BY DEF IndInv, TypeOK
<1>1. CASE GetAIStyleByKey(key) # {}
  BY <1>0, <1>1 DEF InsertAIStyle, LiveStyles
<1>2. CASE GetAIStyleByKey(key) = {}
  <2> DEFINE new == [state |-> "live", key |-> key, isDefault |-> isDefault]
  <2>1. PICK x \in Fresh(Styles, style) : style' = [style EXCEPT ![x] = new]
    BY <1>2 DEF InsertAIStyle
  <2>2. new \in Style /\ x \in Styles
    BY DEF Style, Fresh
  <2>3. style' \in [Styles -> Style] /\ style'[x] = new
        /\ \A u \in Styles \ {x} : style'[u] = style[u]
    BY <1>0, <2>1, <2>2
  <2>4. LiveStyles' = LiveStyles \union {x} /\ x \notin LiveStyles
    BY <2>2, <2>3 DEF LiveStyles, Fresh
  <2>5. \A u \in LiveStyles : style[u].key # key
    BY <1>2 DEF GetAIStyleByKey
  <2>6. \A u \in LiveStyles : style'[u] = style[u]
    BY <2>3, <2>4 DEF LiveStyles
  <2> QED
    BY <1>0, <2>3, <2>4, <2>5, <2>6
<1> QED
  BY <1>1, <1>2

\* An updated style has a key that no other has.
LEMMA UpdateIsSound ==
  ASSUME IndInv, NEW x \in Nat, NEW key \in Keys \union {NoKey}, NEW mark \in Marks,
         UpdateAIStyle(x, key, mark)
  PROVE  /\ style' \in [Styles -> Style]
         /\ \A s, u \in LiveStyles' : style'[s].key = style'[u].key => s = u
         /\ \A s \in LiveStyles' : style'[s].key \in Keys
<1>0. /\ style \in [Styles -> Style]
      /\ \A s, u \in LiveStyles : style[s].key = style[u].key => s = u
      /\ \A s \in LiveStyles : style[s].key \in Keys
  BY DEF IndInv, TypeOK
<1>1. CASE style' = style
  BY <1>0, <1>1 DEF LiveStyles
<1>2. CASE style' # style
  <2>1. /\ x \in LiveStyles /\ (key = NoKey \/ GetAIStyleByKey(key) \ {x} = {})
        /\ style' = [style EXCEPT ![x].key = IF key = NoKey THEN @ ELSE key,
                                  ![x].isDefault = IF mark = "keep" THEN @ ELSE mark = "yes"]
    BY <1>2 DEF UpdateAIStyle
  <2>2. x \in Styles /\ style[x] \in Style /\ style[x].state = "live"
    BY <1>0, <2>1 DEF LiveStyles
  <2> DEFINE k == IF key = NoKey THEN style[x].key ELSE key
             d == IF mark = "keep" THEN style[x].isDefault ELSE mark = "yes"
             row == [state |-> "live", key |-> k, isDefault |-> d]
  <2>3. k \in Keys /\ d \in BOOLEAN
    BY <1>0, <2>1, <2>2 DEF Style
  <2>4. row \in Style
    BY <2>3 DEF Style
  <2>5. style'[x] = row /\ (\A u \in Styles \ {x} : style'[u] = style[u])
        /\ style' \in [Styles -> Style]
    BY <1>0, <2>1, <2>2, <2>4 DEF Style
  <2>6. LiveStyles' = LiveStyles /\ \A u \in LiveStyles \ {x} : style'[u] = style[u]
    BY <2>1, <2>2, <2>5 DEF LiveStyles
  <2>7. \A u \in LiveStyles \ {x} : style[u].key # k
    BY <1>0, <2>1 DEF GetAIStyleByKey
  <2>8. style'[x].key = k
    BY <2>5
  <2> QED
    BY <1>0, <2>3, <2>5, <2>6, <2>7, <2>8
<1> QED
  BY <1>1, <1>2

\* Writes that change the mark of styles or take some of them away.
LEMMA OtherWriteIsSound ==
  ASSUME IndInv, style' \in [Styles -> Style],
         \A s \in Styles : style'[s].state = "live" =>
           style[s].state = "live" /\ style'[s].key = style[s].key
  PROVE  /\ \A s, u \in LiveStyles' : style'[s].key = style'[u].key => s = u
         /\ \A s \in LiveStyles' : style'[s].key \in Keys
BY DEF IndInv, TypeOK, LiveStyles

(***************************************************************************)
(* The steps.                                                              *)
(***************************************************************************)
LEMMA CreateStyleKeepsInv ==
  ASSUME IndInv, NEW key \in Keys, NEW isDefault \in BOOLEAN, CreateStyle(key, isDefault),
         calls' \in 0..MaxCalls
  PROVE  IndInv'
<1>1. request' \in [Requests -> Request]
  BY DEF CreateStyle, IndInv, TypeOK
<1> QED
  BY <1>1, InsertIsSound, StyleWrites DEF CreateStyle

\* What a step of a request leaves of the others.
LEMMA Moved ==
  ASSUME IndInv, NEW r \in Requests, NEW h \in Request, Goto(r, h)
  PROVE  /\ request' \in [Requests -> Request] /\ request'[r] = h
         /\ \A q \in Requests \ {r} : request'[q] = request[q]
BY DEF IndInv, TypeOK, Goto

LEMMA UpdateStyleKeepsInv ==
  ASSUME IndInv, NEW r \in Requests, UpdateStyle(r), calls' \in 0..MaxCalls
  PROVE  IndInv'
<1>1. Goto(r, Idle)
  BY DEF UpdateStyle, Finish
<1>2. Held(r).id \in Nat /\ Held(r).key \in Keys \union {NoKey} /\ Held(r).mark \in Marks
  BY DEF IndInv, TypeOK, Request, Held
<1>3. UpdateAIStyle(Held(r).id, Held(r).key, Held(r).mark)
  BY DEF UpdateStyle
<1> QED
  BY <1>1, <1>2, <1>3, IdleIsRequest, Moved, UpdateIsSound, StyleWrites DEF UpdateStyle

LEMMA ClearDefaultsKeepsInv ==
  ASSUME IndInv, NEW r \in Requests, ClearDefaults(r), calls' \in 0..MaxCalls
  PROVE  IndInv'
<1> DEFINE h == [Held(r) EXCEPT !.op = "setDefault"]
<1>1. h \in Request /\ h.op = "setDefault"
  BY DEF IndInv, TypeOK, Request, Held
<1>2. Goto(r, h)
  BY DEF ClearDefaults
<1>3. style \in [Styles -> Style] /\ style' = [s \in Styles |-> [style[s] EXCEPT !.isDefault = FALSE]]
  BY DEF ClearDefaults, ClearAIStyleDefaults, IndInv, TypeOK
<1>4. style' \in [Styles -> Style]
  BY <1>3 DEF Style
<1>5. \A s \in Styles : style'[s].state = style[s].state /\ style'[s].key = style[s].key
  BY <1>3 DEF Style
<1> HIDE DEF h
<1>6. /\ request' \in [Requests -> Request]
      /\ \A q \in Requests : request'[q] = request[q] \/ request'[q].op \in {"idle", "setDefault"}
  BY <1>1, <1>2, Moved
<1>7. /\ \A s, u \in LiveStyles' : style'[s].key = style'[u].key => s = u
      /\ \A s \in LiveStyles' : style'[s].key \in Keys
  BY <1>4, <1>5, OtherWriteIsSound
<1> QED
  BY <1>4, <1>6, <1>7, StyleWrites DEF ClearDefaults

LEMMA SetDefaultKeepsInv ==
  ASSUME IndInv, NEW r \in Requests, SetDefault(r), calls' \in 0..MaxCalls
  PROVE  IndInv'
<1>1. Goto(r, Idle)
  BY DEF SetDefault, Finish
<1>2. ~untouched /\ untouched' = untouched /\ untouched' \in BOOLEAN
  BY DEF SetDefault, IndInv, HeldValuesAreSound, TypeOK
<1>3. style \in [Styles -> Style] /\ style' = SetAIStyleDefault(Held(r).id)
  BY DEF SetDefault, IndInv, TypeOK
<1>4. style' \in [Styles -> Style]
  BY <1>3 DEF SetAIStyleDefault, Style
<1>5. \A s \in Styles : style'[s].state = style[s].state /\ style'[s].key = style[s].key
  BY <1>3 DEF SetAIStyleDefault, Style
<1>6. /\ request' \in [Requests -> Request]
      /\ \A q \in Requests : request'[q] = request[q] \/ request'[q].op \in {"idle", "setDefault"}
  BY <1>1, IdleIsRequest, Moved
<1>7. /\ \A s, u \in LiveStyles' : style'[s].key = style'[u].key => s = u
      /\ \A s \in LiveStyles' : style'[s].key \in Keys
  BY <1>4, <1>5, OtherWriteIsSound
<1> QED
  BY <1>2, <1>4, <1>6, <1>7, StyleWrites DEF SetDefault

LEMMA DeleteStyleKeepsInv ==
  ASSUME IndInv, NEW r \in Requests, DeleteStyle(r), calls' \in 0..MaxCalls
  PROVE  IndInv'
<1>1. Goto(r, Idle)
  BY DEF DeleteStyle, Finish
<1>3. style \in [Styles -> Style] /\ style' = DeleteAIStyle(Held(r).id)
  BY DEF DeleteStyle, IndInv, TypeOK
<1>4. style' \in [Styles -> Style]
  BY <1>3 DEF DeleteAIStyle, Style
<1>5. \A s \in Styles : style'[s].key = style[s].key /\ style'[s].state \in {style[s].state, "deleted"}
  BY <1>3 DEF DeleteAIStyle, Style
<1>6. /\ request' \in [Requests -> Request]
      /\ \A q \in Requests : request'[q] = request[q] \/ request'[q].op \in {"idle", "setDefault"}
  BY <1>1, IdleIsRequest, Moved
<1>7. /\ \A s, u \in LiveStyles' : style'[s].key = style'[u].key => s = u
      /\ \A s \in LiveStyles' : style'[s].key \in Keys
  BY <1>4, <1>5, OtherWriteIsSound
<1> QED
  BY <1>4, <1>6, <1>7, StyleWrites DEF DeleteStyle

LEMMA EnsureSeedsKeepsInv ==
  ASSUME IndInv, NEW r \in Requests, EnsureSeeds(r), calls' \in 0..MaxCalls
  PROVE  IndInv'
<1> DEFINE first == IF CountAIStyles = 0 THEN 1 ELSE Len(Builtin) + 1
           h == [Idle EXCEPT !.op = "seed", !.row = first]
<1>0. first \in {1, Len(Builtin) + 1} /\ first \in Nat
  BY BuiltinKeys
<1> HIDE DEF first
<1>1. h.row \in {1, Len(Builtin) + 1} /\ h.op = "seed" /\ h \in Request
  BY <1>0 DEF Idle, Request, Marks
<1>2. Len(builtinSystemPrompts) = 2
  BY DEF builtinSystemPrompts
<1>3. Goto(r, h) /\ ~Seeding(r) /\ UNCHANGED <<tables, seeded, untouched>>
      /\ \A q \in Requests : ~At(q, "seed")
  BY DEF EnsureSeeds, Begin, Seeding, At, first
<1> HIDE DEF h
<1>4. h.row \in 1..Len(Builtin) + Len(builtinSystemPrompts) /\ (h.row = 1 \/ ~(h.row <= Len(Builtin)))
  BY <1>1, <1>2, BuiltinKeys
<1>5. systemPrompts \subseteq {"check", "generate"} /\ seeded \in BOOLEAN /\ untouched \in BOOLEAN
  BY DEF IndInv, TypeOK
<1> QED
  BY <1>1, <1>3, <1>4, <1>5, RequestMoves DEF tables, Deleting

\* A call begins, and holds neither a row to seed nor a style to release.
LEMMA CallBeginKeepsInv ==
  ASSUME IndInv, NEW r \in Requests, NEW h \in Request, Begin(r, h),
         UNCHANGED <<tables, seeded, untouched>>, calls' \in 0..MaxCalls,
         h.op = "seedForAI" => h.row = 1,
         h.op = "saveTemplate" => h.id \in Templates,
         h.op \in Deleting => h.key \in Keys,
         h.op \notin {"seed", "setDefault", "resetTemplates", "deleteStyle"}
  PROVE  IndInv'
<1>1. ~Seeding(r) /\ Goto(r, h)
  BY DEF Begin, Seeding, At
<1>2. systemPrompts \subseteq {"check", "generate"} /\ seeded \in BOOLEAN /\ untouched \in BOOLEAN
  BY DEF IndInv, TypeOK
<1> QED
  BY <1>1, <1>2, BuiltinKeys, RequestMoves DEF tables

LEMMA BeginningsKeepInv ==
  ASSUME IndInv, NEW r \in Requests, calls' \in 0..MaxCalls,
         \/ EnsureSeedsForAI(r)
         \/ \E s \in Styles :
              \/ \E key \in Keys : UpdateStyleBegins(r, s, key, "keep")
              \/ \E mark \in {"yes", "no"} : UpdateStyleBegins(r, s, NoKey, mark)
              \/ SetDefaultBegins(r, s) \/ DeleteStyleBegins(r, s)
         \/ \E key \in Keys : CloneBegins(r, key)
         \/ \E t \in Templates :
              \/ \E key \in Keys \union {NoKey} : UpdateTemplateBegins(r, t, key)
              \/ DeleteTemplateBegins(r, t)
  PROVE  IndInv'
<1>0. \A i \in Styles \union Templates : i \in Nat
  BY StylesAssumption DEF Styles, Templates
<1>1. CASE EnsureSeedsForAI(r)
  <2> DEFINE h == [Idle EXCEPT !.op = "seedForAI", !.row = 1]
  <2>1. h \in Request /\ h.op = "seedForAI" /\ h.row = 1
    BY DEF Idle, Request, Marks
  <2>2. Begin(r, h) /\ UNCHANGED <<tables, seeded, untouched>>
    BY <1>1 DEF EnsureSeedsForAI
  <2> HIDE DEF h
  <2> QED
    BY <2>1, <2>2, CallBeginKeepsInv DEF Deleting
<1>2. ASSUME NEW s \in Styles, NEW key \in Keys \union {NoKey}, NEW mark \in Marks,
             UpdateStyleBegins(r, s, key, mark)
      PROVE  IndInv'
  <2> DEFINE h == [Idle EXCEPT !.op = "update", !.id = s, !.key = key, !.mark = mark]
  <2>1. h \in Request /\ h.op = "update"
    BY <1>0 DEF Idle, Request
  <2>2. Begin(r, h) /\ UNCHANGED <<tables, seeded, untouched>>
    BY <1>2 DEF UpdateStyleBegins
  <2> HIDE DEF h
  <2> QED
    BY <2>1, <2>2, CallBeginKeepsInv DEF Deleting
<1>3. ASSUME NEW s \in Styles, SetDefaultBegins(r, s) PROVE IndInv'
  <2> DEFINE h == [Idle EXCEPT !.op = "clearDefaults", !.id = s]
  <2>1. h \in Request /\ h.op = "clearDefaults"
    BY <1>0 DEF Idle, Request, Marks
  <2>2. Begin(r, h) /\ UNCHANGED <<tables, seeded, untouched>>
    BY <1>3 DEF SetDefaultBegins
  <2> HIDE DEF h
  <2> QED
    BY <2>1, <2>2, CallBeginKeepsInv DEF Deleting
<1>4. ASSUME NEW s \in Styles, DeleteStyleBegins(r, s) PROVE IndInv'
  <2> DEFINE h == [Idle EXCEPT !.op = "count", !.id = s, !.key = style[s].key,
                               !.mark = IF style[s].isDefault THEN "yes" ELSE "no"]
  <2>1. style[s].key \in Keys
    BY <1>4 DEF DeleteStyleBegins, IndInv
  <2>2. h \in Request /\ h.op = "count" /\ h.key \in Keys
    BY <1>0, <2>1 DEF Idle, Request, Marks
  <2>3. Begin(r, h) /\ UNCHANGED <<tables, seeded, untouched>>
    BY <1>4 DEF DeleteStyleBegins
  <2> HIDE DEF h
  <2> QED
    BY <2>2, <2>3, CallBeginKeepsInv DEF Deleting
<1>5. ASSUME NEW key \in Keys, CloneBegins(r, key) PROVE IndInv'
  <2> DEFINE h == [Idle EXCEPT !.op = "cloneTemplate", !.key = key]
  <2>1. h \in Request /\ h.op = "cloneTemplate"
    BY DEF Idle, Request, Marks
  <2>2. Begin(r, h) /\ UNCHANGED <<tables, seeded, untouched>>
    BY <1>5 DEF CloneBegins
  <2> HIDE DEF h
  <2> QED
    BY <2>1, <2>2, CallBeginKeepsInv DEF Deleting
<1>6. ASSUME NEW t \in Templates, NEW key \in Keys \union {NoKey}, UpdateTemplateBegins(r, t, key)
      PROVE  IndInv'
  <2> DEFINE k == IF key = NoKey THEN template[t].aiStyle ELSE key
             h == [Idle EXCEPT !.op = "saveTemplate", !.id = t, !.key = k]
  <2>1. k \in Keys \union {NoKey}
    BY DEF IndInv, TypeOK, Template
  <2> HIDE DEF k
  <2>2. h \in Request /\ h.op = "saveTemplate" /\ h.id = t
    BY <1>0, <2>1 DEF Idle, Request, Marks
  <2>3. Begin(r, h) /\ UNCHANGED <<tables, seeded, untouched>>
    BY <1>6 DEF UpdateTemplateBegins, k
  <2> HIDE DEF h
  <2> QED
    BY <2>2, <2>3, CallBeginKeepsInv DEF Deleting
<1>7. ASSUME NEW t \in Templates, DeleteTemplateBegins(r, t) PROVE IndInv'
  <2> DEFINE h == [Idle EXCEPT !.op = "deleteTemplate", !.id = t]
  <2>1. h \in Request /\ h.op = "deleteTemplate"
    BY <1>0 DEF Idle, Request, Marks
  <2>2. Begin(r, h) /\ UNCHANGED <<tables, seeded, untouched>>
    BY <1>7 DEF DeleteTemplateBegins
  <2> HIDE DEF h
  <2> QED
    BY <2>1, <2>2, CallBeginKeepsInv DEF Deleting
<1>8. {"keep", "yes", "no"} = Marks
  BY DEF Marks
<1> QED
  BY <1>1, <1>2, <1>3, <1>4, <1>5, <1>6, <1>7, <1>8

LEMMA SeedSystemPromptKeepsInv ==
  ASSUME IndInv, NEW r \in Requests, SeedSystemPrompt(r), calls' \in 0..MaxCalls
  PROVE  IndInv'
<1> DEFINE i == Held(r).row - Len(Builtin)
           moved == [Held(r) EXCEPT !.row = @ + 1]
<1>1. /\ request[r] \in Request /\ request[r].op = "seed" /\ request[r].row \in Nat
      /\ i \in 1..2 /\ request[r].row - Len(Builtin) \in 1..2
  BY DEF SeedSystemPrompt, IndInv, TypeOK, At, Held, Request, builtinSystemPrompts
<1>2. ~Seeding(r)
  BY <1>1, BuiltinKeys DEF Seeding, Held
<1>3. moved \in Request /\ moved.op = "seed" /\ moved.row = request[r].row + 1
  BY <1>1 DEF Request, Held
<1>4. \A q \in Requests \ {r} : ~At(q, "seed")
  BY <1>1 DEF IndInv, OneSeeder, At
<1>5. /\ systemPrompts' \subseteq {"check", "generate"} /\ seeded' \in BOOLEAN
      /\ untouched' = untouched /\ untouched \in BOOLEAN
  BY <1>1 DEF SeedSystemPrompt, InsertSystemPrompt, builtinSystemPrompts, IndInv, TypeOK
<1>6. style' = style /\ template' = template /\ override' = override
  BY DEF SeedSystemPrompt
<1>7. Goto(r, Idle) \/ (i # 2 /\ Goto(r, moved))
  BY DEF SeedSystemPrompt, Finish, builtinSystemPrompts
<1> HIDE DEF moved
<1>8. CASE Goto(r, Idle)
  BY <1>2, <1>5, <1>6, <1>8, IdleIsRequest, RequestMoves DEF Deleting
<1>9. CASE i # 2 /\ Goto(r, moved)
  <2>1. moved.row \in 1..Len(Builtin) + 2 /\ ~(moved.row <= Len(Builtin))
    BY <1>1, <1>3, <1>9, BuiltinKeys DEF Held
  <2>2. Len(builtinSystemPrompts) = 2
    BY DEF builtinSystemPrompts
  <2> QED
    BY <1>2, <1>3, <1>4, <1>5, <1>6, <1>9, <2>1, <2>2, RequestMoves DEF Deleting
<1> QED
  BY <1>7, <1>8, <1>9

LEMMA RefuseOrDeleteKeepsInv ==
  ASSUME IndInv, NEW r \in Requests, RefuseOrDelete(r), calls' \in 0..MaxCalls
  PROVE  IndInv'
<1> DEFINE h == [Held(r) EXCEPT !.op = "clearReports", !.row = CountAIStyles]
<1>1. request[r] \in Request /\ request[r].op = "count" /\ request[r].key \in Keys
  BY DEF RefuseOrDelete, IndInv, TypeOK, HeldValuesAreSound, At, Held, Deleting
<1>2. h \in Request /\ h.op = "clearReports" /\ h.key \in Keys
  BY <1>1, CountIsNat DEF Request, Held
<1>3. Goto(r, Idle) \/ Goto(r, h)
  BY DEF RefuseOrDelete, Finish
<1> HIDE DEF h
<1>4. /\ style' = style /\ template' = template /\ override' = override
      /\ systemPrompts' \subseteq {"check", "generate"} /\ seeded' \in BOOLEAN
      /\ untouched' = untouched /\ untouched \in BOOLEAN /\ ~Seeding(r)
  BY <1>1 DEF RefuseOrDelete, tables, IndInv, TypeOK, Seeding, At
<1> QED
  BY <1>2, <1>3, <1>4, IdleIsRequest, RequestMoves DEF Deleting

LEMMA AbandonKeepsInv ==
  ASSUME IndInv, NEW r \in Requests, Abandon(r), calls' \in 0..MaxCalls
  PROVE  IndInv'
<1>1. /\ style' = style /\ template' = template /\ override' = override
      /\ systemPrompts' \subseteq {"check", "generate"} /\ seeded' \in BOOLEAN
      /\ untouched' \in BOOLEAN /\ (untouched' => untouched /\ ~Seeding(r)) /\ Goto(r, Idle)
  BY DEF Abandon, tables, IndInv, TypeOK, Seeding, At, Finish
<1> QED
  BY <1>1, IdleIsRequest, RequestMoves DEF Deleting

LEMMA RestartKeepsInv ==
  ASSUME IndInv, Restart, calls' \in 0..MaxCalls
  PROVE  IndInv'
<1>1. request' \in [Requests -> Request] /\ \A q \in Requests : request'[q].op = "idle"
  BY IdleIsRequest DEF Restart
<1>2. /\ style' = style /\ template' = template /\ override' = override
      /\ systemPrompts' = systemPrompts /\ seeded' = FALSE /\ untouched' \in BOOLEAN
      /\ (untouched' => untouched /\ \A q \in Requests : ~Seeding(q))
  BY DEF Restart, tables
<1>3. TypeOK'
  BY <1>1, <1>2 DEF IndInv, TypeOK, LiveStyles
<1>4. (\A s \in LiveStyles : style[s].key \in Keys)'
  BY <1>2 DEF IndInv, LiveStyles
<1>5. HeldValuesAreSound' /\ OneSeeder' /\ ReleasedSoFar'
  BY <1>1 DEF HeldValuesAreSound, OneSeeder, ReleasedSoFar, At, Held, Deleting
<1>6. SeededSoFar'
  <2>1. SeededSoFar
    BY DEF IndInv
  <2>2. \A q \in Requests : request'[q].op \notin {"seed", "seedForAI"}
    BY <1>1
  <2> QED
    BY <1>2, <2>1, <2>2, SeedFrame
<1> QED
  BY <1>3, <1>4, <1>5, <1>6 DEF IndInv

(***************************************************************************)
(* A deletion's statements, and the templates'.                            *)
(***************************************************************************)
\* A statement of a request that seeds nothing, before and after it.
LEMMA NotSeedingStep ==
  ASSUME IndInv, NEW r \in Requests, NEW h \in Request, Goto(r, h), ~Seeding(r),
         h.op \in {"idle", "resetTemplates", "deleteStyle"},
         h.op # "idle" => h.key \in Keys,
         style' = style, systemPrompts' = systemPrompts, seeded' = seeded, untouched' = untouched,
         template' \in [Templates -> Template], override' \in Keys \union {NoKey},
         calls' \in 0..MaxCalls, ReleasedSoFar'
  PROVE  IndInv'
<1>1. /\ request' \in [Requests -> Request] /\ request'[r] = h
      /\ \A q \in Requests \ {r} : request'[q] = request[q]
  BY Moved
<1>2. TypeOK'
  BY <1>1 DEF IndInv, TypeOK, LiveStyles
<1>3. (\A s \in LiveStyles : style[s].key \in Keys)'
  BY DEF IndInv, LiveStyles
<1>4. HeldValuesAreSound'
  <2>1. HeldValuesAreSound
    BY DEF IndInv
  <2> QED
    BY <1>1, <2>1 DEF HeldValuesAreSound, At, Held, Deleting
<1>5. OneSeeder'
  <2>1. OneSeeder
    BY DEF IndInv
  <2> QED
    BY <1>1, <2>1 DEF OneSeeder, At
<1>6. SeededSoFar'
  <2>1. SeededSoFar
    BY DEF IndInv
  <2> QED
    BY <1>1, <2>1, SeedFrame
<1> QED
  BY <1>2, <1>3, <1>4, <1>5, <1>6 DEF IndInv

LEMMA ClearReportsKeepsInv ==
  ASSUME IndInv, NEW r \in Requests, ClearReports(r), calls' \in 0..MaxCalls
  PROVE  IndInv'
<1> DEFINE h == [Held(r) EXCEPT !.op = "resetTemplates"]
<1>1. request[r] \in Request /\ request[r].op = "clearReports" /\ request[r].key \in Keys
  BY DEF ClearReports, IndInv, TypeOK, HeldValuesAreSound, At, Held, Deleting
<1>2. h \in Request /\ h.op = "resetTemplates" /\ h.key = request[r].key
  BY <1>1 DEF Request, Held
<1>3. Goto(r, h) /\ ~Seeding(r)
  BY <1>1 DEF ClearReports, Seeding, At
<1> HIDE DEF h
<1>4. override' = IF override = request[r].key THEN NoKey ELSE override
  BY DEF ClearReports, ClearReportStyleOverride, Held
<1>5. override \in Keys \union {NoKey} /\ ReleasedSoFar /\ template \in [Templates -> Template]
  BY DEF IndInv, TypeOK
<1>6. /\ request'[r] = h
      /\ \A q \in Requests \ {r} : request'[q] = request[q]
  BY <1>2, <1>3, Moved
<1>7. UNCHANGED <<style, template, systemPrompts, seeded, untouched>>
  BY DEF ClearReports
<1>8. \A q \in Requests : request[q].op \in Deleting => request[q].key # NoKey
  BY BuiltinKeys DEF IndInv, HeldValuesAreSound, Held
<1>9. override' # request[r].key /\ (override' = override \/ override' = NoKey)
  BY <1>1, <1>4, BuiltinKeys
<1>10. ReleasedSoFar'
  <2>1. \A q \in Requests : request'[q].op \in {"resetTemplates", "deleteStyle"} =>
          override' # request'[q].key
    BY <1>2, <1>5, <1>6, <1>8, <1>9 DEF ReleasedSoFar, At, Held, Deleting
  <2>2. \A q \in Requests : request'[q].op = "deleteStyle" => request'[q] = request[q]
    BY <1>2, <1>6
  <2> QED
    BY <1>5, <1>7, <2>1, <2>2 DEF ReleasedSoFar, At, Held, LiveTemplates
<1> QED
  BY <1>1, <1>2, <1>3, <1>4, <1>5, <1>7, <1>10, NotSeedingStep

LEMMA ResetTemplatesKeepsInv ==
  ASSUME IndInv, NEW r \in Requests, ResetTemplates(r), calls' \in 0..MaxCalls
  PROVE  IndInv'
<1> DEFINE h == [Held(r) EXCEPT !.op = "deleteStyle", !.late = {}]
           key == Held(r).key
<1>1. request[r] \in Request /\ request[r].op = "resetTemplates" /\ request[r].key \in Keys
  BY DEF ResetTemplates, IndInv, TypeOK, HeldValuesAreSound, At, Held, Deleting
<1>2. h \in Request /\ h.op = "deleteStyle" /\ h.key = request[r].key
  BY <1>1 DEF Request, Held
<1>3. Goto(r, h) /\ ~Seeding(r)
  BY <1>1 DEF ResetTemplates, Seeding, At
<1> HIDE DEF h
<1>4. override \in Keys \union {NoKey} /\ ReleasedSoFar /\ template \in [Templates -> Template]
  BY DEF IndInv, TypeOK
<1>5. /\ request'[r] = h
      /\ \A q \in Requests \ {r} : request'[q] = request[q]
  BY <1>2, <1>3, Moved
<1>6. UNCHANGED <<style, override, systemPrompts, seeded, untouched>>
  BY DEF ResetTemplates
<1>7. template' \in [Templates -> Template]
  BY <1>4, BuiltinKeys DEF ResetTemplates, ResetTemplateStyle, Template
<1>8. \A t \in Templates :
        /\ template'[t].state = template[t].state
        /\ template'[t].aiStyle # template[t].aiStyle => template'[t].aiStyle = Formal
        /\ template'[t].state = "live" /\ template'[t].aiStyle = key => key = Formal
  BY <1>4 DEF ResetTemplates, ResetTemplateStyle, Template, LiveTemplates
<1>9. LiveTemplates' = LiveTemplates /\ LiveTemplates \subseteq Templates
  BY <1>8 DEF LiveTemplates
<1>10. ReleasedSoFar'
  <2>1. \A q \in Requests : request'[q].op \in {"resetTemplates", "deleteStyle"} =>
          override' # request'[q].key
    BY <1>1, <1>2, <1>4, <1>5, <1>6 DEF ReleasedSoFar, At, Held
  <2>2. ASSUME NEW t \in LiveTemplates', template'[t].aiStyle = request'[r].key
        PROVE  request'[r].key = Formal
    BY <1>2, <1>5, <1>8, <2>2 DEF LiveTemplates, Held
  <2>3. ASSUME NEW q \in Requests \ {r}, request'[q].op = "deleteStyle", NEW t \in LiveTemplates',
               template'[t].aiStyle = request'[q].key
        PROVE  t \in request'[q].late \/ request'[q].key = Formal
    BY <1>4, <1>5, <1>8, <1>9, <2>3 DEF ReleasedSoFar, At, Held
  <2> QED
    BY <2>1, <2>2, <2>3 DEF ReleasedSoFar, At, Held
<1> QED
  BY <1>1, <1>2, <1>3, <1>4, <1>6, <1>7, <1>10, NotSeedingStep

LEMMA DeleteTemplateKeepsInv ==
  ASSUME IndInv, NEW r \in Requests, DeleteTemplate(r), calls' \in 0..MaxCalls
  PROVE  IndInv'
<1>1. Goto(r, Idle) /\ ~Seeding(r) /\ UNCHANGED <<style, override, systemPrompts, seeded, untouched>>
  BY DEF DeleteTemplate, Finish, Seeding, At
<1>2. /\ override \in Keys \union {NoKey} /\ ReleasedSoFar /\ template \in [Templates -> Template]
      /\ template' = [template EXCEPT ![Held(r).id].state = "deleted"]
  BY DEF DeleteTemplate, IndInv, TypeOK
<1>3. template' \in [Templates -> Template]
  BY <1>2 DEF Template
<1>4. \A t \in Templates : /\ template'[t].aiStyle = template[t].aiStyle
                           /\ template'[t].state \in {template[t].state, "deleted"}
  BY <1>2 DEF Template
<1>5. LiveTemplates' \subseteq LiveTemplates /\ LiveTemplates \subseteq Templates
  BY <1>4 DEF LiveTemplates
<1>6. request'[r].op = "idle" /\ \A q \in Requests \ {r} : request'[q] = request[q]
  BY <1>1, IdleIsRequest, Moved
<1>7. ReleasedSoFar'
  BY <1>1, <1>2, <1>4, <1>5, <1>6 DEF ReleasedSoFar, At, Held
<1> QED
  BY <1>1, <1>2, <1>3, <1>7, IdleIsRequest, NotSeedingStep

LEMMA InsertTemplateKeepsInv ==
  ASSUME IndInv, NEW r \in Requests, ~Seeding(r), NEW key \in Keys \union {NoKey},
         InsertTemplate(r, key), calls' \in 0..MaxCalls
  PROVE  IndInv'
<1> DEFINE new == [state |-> "live", aiStyle |-> key]
<1>1. PICK t \in Templates : template' = [template EXCEPT ![t] = new] /\ request' = SavedBy(r, t)
                            /\ UNCHANGED <<style, override, systemPrompts, seeded, untouched>>
  BY DEF InsertTemplate, Fresh
<1>2. new \in Template
  BY DEF Template
<1> HIDE DEF new
<1>3. template' \in [Templates -> Template] /\ \A u \in Templates \ {t} : template'[u] = template[u]
  BY <1>1, <1>2 DEF IndInv, TypeOK
<1> QED
  BY <1>1, <1>3, TemplateSaved

LEMMA TemplateWritesKeepInv ==
  ASSUME IndInv, NEW r \in Requests, calls' \in 0..MaxCalls,
         SaveTemplate(r) \/ CloneTemplate(r) \/ \E key \in Keys : CreateTemplate(r, key)
  PROVE  IndInv'
<1>1. request[r].key \in Keys \union {NoKey}
  BY DEF IndInv, TypeOK, Request
<1>2. CASE SaveTemplate(r)
  <2> DEFINE t == Held(r).id
  <2>1. t \in Templates /\ ~Seeding(r) /\ request' = SavedBy(r, t)
        /\ UNCHANGED <<style, override, systemPrompts, seeded, untouched>>
    BY <1>2 DEF SaveTemplate, IndInv, HeldValuesAreSound, At, Held, Seeding
  <2>2. template \in [Templates -> Template]
    BY DEF IndInv, TypeOK
  <2>3. \A k \in Keys \union {NoKey} : [template[t] EXCEPT !.aiStyle = k] \in Template
    BY <2>1, <2>2 DEF Template
  <2>4. template' = template \/ template' = [template EXCEPT ![t] = [template[t] EXCEPT !.aiStyle = request[r].key]]
    BY <1>2 DEF SaveTemplate, Held
  <2> HIDE DEF t
  <2>5. /\ template' \in [Templates -> Template]
        /\ \A u \in Templates \ {t} : template'[u] = template[u]
    BY <1>1, <2>1, <2>2, <2>3, <2>4
  <2> QED
    BY <2>1, <2>5, TemplateSaved
<1>3. CASE CloneTemplate(r)
  BY <1>1, <1>3, InsertTemplateKeepsInv DEF CloneTemplate, Seeding, At, Held
<1>4. CASE \E key \in Keys : CreateTemplate(r, key)
  BY <1>4, InsertTemplateKeepsInv DEF CreateTemplate, Seeding, At
<1> QED
  BY <1>2, <1>3, <1>4

(***************************************************************************)
(* Seeding.                                                                *)
(***************************************************************************)
\* That the styles are built-in rows as they were inserted.
AreBuiltin == \A s \in LiveStyles : \E i \in 1..Len(Builtin) :
                style[s].key = Builtin[i] /\ (style[s].isDefault <=> i = 1)

\* One more built-in row, or the one that was there.
LEMMA InsertBuiltin ==
  ASSUME IndInv, NEW k \in 1..Len(Builtin), InsertAIStyle(Builtin[k], k = 1)
  PROVE  Present' = Present \union {k} /\ (AreBuiltin => AreBuiltin')
<1>1. CASE GetAIStyleByKey(Builtin[k]) # {}
  <2>1. style' = style /\ k \in Present
    BY <1>1 DEF InsertAIStyle, Present
  <2>2. Present' = Present /\ LiveStyles' = LiveStyles
    BY <2>1 DEF Present, GetAIStyleByKey, LiveStyles
  <2> QED
    BY <2>1, <2>2 DEF AreBuiltin
<1>2. CASE GetAIStyleByKey(Builtin[k]) = {}
  <2> DEFINE new == [state |-> "live", key |-> Builtin[k], isDefault |-> k = 1]
  <2>1. PICK x \in Fresh(Styles, style) : style' = [style EXCEPT ![x] = new]
    BY <1>2 DEF InsertAIStyle
  <2>2. x \in Styles /\ style \in [Styles -> Style]
    BY DEF Fresh, IndInv, TypeOK
  <2>3. style'[x] = new /\ \A u \in Styles \ {x} : style'[u] = style[u]
    BY <2>1, <2>2
  <2>4. LiveStyles' = LiveStyles \union {x} /\ x \notin LiveStyles
    BY <2>2, <2>3 DEF LiveStyles, Fresh
  <2>5. \A u \in LiveStyles : style'[u] = style[u]
    BY <2>3, <2>4 DEF LiveStyles
  <2>6. style'[x].key = Builtin[k] /\ (style'[x].isDefault <=> k = 1)
    <3>1. new.key = Builtin[k] /\ new.isDefault = (k = 1)
      OBVIOUS
    <3> HIDE DEF new
    <3> QED
      BY <2>3, <3>1, Zenon
  <2>7. ASSUME NEW i \in 1..Len(Builtin) PROVE i \in Present' <=> i \in Present \/ i = k
    <3>1. i \in Present' <=> \E s \in LiveStyles' : style'[s].key = Builtin[i]
      BY DEF Present, GetAIStyleByKey
    <3>2. Builtin[i] = Builtin[k] <=> i = k
      BY BuiltinKeys
    <3> QED
      BY <2>4, <2>5, <2>6, <3>1, <3>2, PresentMeans
  <2>8. Present' = Present \union {k}
    BY <2>7 DEF Present
  <2>9. AreBuiltin => AreBuiltin'
    BY <2>4, <2>5, <2>6 DEF AreBuiltin
  <2> QED
    BY <2>8, <2>9
<1> QED
  BY <1>1, <1>2

\* Where a seeding is after the row k: at the next one, past the last one, or
\* at its end.
LEMMA SeedingMoves ==
  ASSUME IndInv, NEW r \in Requests, SeedStyle(r)
  PROVE  \E h \in Request :
           /\ Goto(r, h)
           /\ \/ /\ h.op = "seed" /\ request[r].op = "seed"
                 /\ h.row \in {request[r].row + 1, Len(Builtin) + 1}
                 /\ request[r].row \notin Present => h.row = request[r].row + 1
              \/ /\ h.op = "seedForAI" /\ request[r].op = "seedForAI"
                 /\ h.row = request[r].row + 1 /\ request[r].row < Len(Builtin)
              \/ h = Idle /\ request[r].op = "seedForAI" /\ request[r].row = Len(Builtin)
<1> DEFINE k == request[r].row
           On(n) == [Held(r) EXCEPT !.row = n]
<1>1. request[r] \in Request /\ k \in 1..Len(Builtin) /\ request[r].op \in {"seed", "seedForAI"}
  BY DEF SeedStyle, IndInv, TypeOK, HeldValuesAreSound, At, Held
<1>2. \A n \in Nat : On(n) \in Request /\ On(n).op = request[r].op /\ On(n).row = n
  BY <1>1 DEF Request, Held
<1>3. k + 1 \in Nat /\ Len(Builtin) + 1 \in Nat
  BY <1>1, BuiltinKeys
<1>4. k \notin Present => GetAIStyleByKey(Builtin[k]) = {}
  BY <1>1 DEF Present
<1>5. CASE request[r].op = "seedForAI"
  <2>1. (k = Len(Builtin) /\ Goto(r, Idle)) \/ (k # Len(Builtin) /\ Goto(r, On(k + 1)))
    BY <1>5 DEF SeedStyle, At, Held, Finish
  <2> HIDE DEF On
  <2>2. CASE k = Len(Builtin) /\ Goto(r, Idle)
    BY <1>5, <2>2, IdleIsRequest
  <2>3. CASE k # Len(Builtin) /\ Goto(r, On(k + 1))
    <3>1. k < Len(Builtin)
      BY <1>1, <2>3, BuiltinKeys
    <3> QED
      BY <1>2, <1>3, <1>5, <2>3, <3>1
  <2> QED
    BY <2>1, <2>2, <2>3
<1>6. CASE request[r].op = "seed"
  <2> DEFINE n == IF GetAIStyleByKey(Builtin[k]) # {} \/ k >= LastBuiltin
                  THEN Len(Builtin) + 1 ELSE k + 1
  <2>1. Goto(r, On(n))
    BY <1>6 DEF SeedStyle, At, Held
  <2>2. n \in {k + 1, Len(Builtin) + 1} /\ (k \notin Present => n = k + 1)
    BY <1>1, <1>4, BuiltinKeys DEF LastBuiltin
  <2> HIDE DEF On, n
  <2>3. n \in Nat
    BY <1>3, <2>2
  <2> QED
    BY <1>2, <1>6, <2>1, <2>2, <2>3
<1> QED
  BY <1>1, <1>5, <1>6

LEMMA SeedStyleKeepsInv ==
  ASSUME IndInv, NEW r \in Requests, SeedStyle(r), calls' \in 0..MaxCalls
  PROVE  IndInv'
<1> DEFINE k == request[r].row
<1>1. PICK h \in Request :
        /\ Goto(r, h)
        /\ \/ /\ h.op = "seed" /\ request[r].op = "seed"
              /\ h.row \in {k + 1, Len(Builtin) + 1}
              /\ k \notin Present => h.row = k + 1
           \/ /\ h.op = "seedForAI" /\ request[r].op = "seedForAI"
              /\ h.row = k + 1 /\ k < Len(Builtin)
           \/ h = Idle /\ request[r].op = "seedForAI" /\ k = Len(Builtin)
  BY SeedingMoves
<1>2. k \in 1..Len(Builtin) /\ k \in Nat /\ Len(Builtin) \in Nat /\ Seeding(r)
  BY BuiltinKeys DEF SeedStyle, IndInv, HeldValuesAreSound, At, Held, Seeding
<1>3. InsertAIStyle(Builtin[k], k = 1)
  BY DEF SeedStyle, Held
<1>4. UNCHANGED <<template, override, systemPrompts, seeded, untouched>>
  BY DEF SeedStyle
<1>5. /\ request' \in [Requests -> Request] /\ request'[r] = h
      /\ \A q \in Requests \ {r} : request'[q] = request[q]
  BY <1>1, Moved
<1>6. /\ style' \in [Styles -> Style]
      /\ \A s, u \in LiveStyles' : style'[s].key = style'[u].key => s = u
      /\ \A s \in LiveStyles' : style'[s].key \in Keys
  BY <1>2, <1>3, BuiltinKeys, InsertIsSound
<1>7. TypeOK'
  BY <1>4, <1>5, <1>6 DEF IndInv, TypeOK
<1>8. h.op \in {"idle", "seed", "seedForAI"}
  BY <1>1, IdleIsRequest
<1>9. HeldValuesAreSound'
  <2>1. HeldValuesAreSound
    BY DEF IndInv
  <2>2. h.op = "seed" => h.row \in 1..Len(Builtin) + 2
    BY <1>1, <1>2, IdleIsRequest
  <2>3. h.op = "seedForAI" => h.row \in 1..Len(Builtin)
    BY <1>1, <1>2, IdleIsRequest
  <2>4. Len(builtinSystemPrompts) = 2
    BY DEF builtinSystemPrompts
  <2> QED
    BY <1>4, <1>5, <1>8, <2>1, <2>2, <2>3, <2>4 DEF HeldValuesAreSound, At, Held, Deleting
<1>10. OneSeeder'
  <2>1. OneSeeder
    BY DEF IndInv
  <2>2. h.op = "seed" => request[r].op = "seed"
    BY <1>1, IdleIsRequest
  <2> QED
    BY <1>5, <2>1, <2>2 DEF OneSeeder, At
<1>11. ReleasedSoFar'
  <2>1. ReleasedSoFar
    BY DEF IndInv
  <2> QED
    BY <1>4, <1>5, <1>8, <2>1, ReleaseFrame
<1>12. SeededSoFar'
  <2> SUFFICES ASSUME untouched' PROVE SeededSoFar'
    BY DEF SeededSoFar
  <2>1. untouched
    BY <1>4
  <2>2. /\ AreBuiltin
        /\ \A i \in Present, j \in 1..Len(Builtin) : j < i => j \in Present
        /\ \A q \in Requests : Seeding(q) =>
             \A j \in 1..Len(Builtin) : j < request[q].row => j \in Present
        /\ Present = {} \/ Present = 1..Len(Builtin) \/ \E q \in Requests : Completes(q)
    BY <2>1 DEF IndInv, SeededSoFar, AreBuiltin, Held
  <2>3. Present' = Present \union {k} /\ AreBuiltin'
    BY <1>2, <1>3, <2>2, InsertBuiltin
  <2>4. \A j \in 1..Len(Builtin) : j < k => j \in Present
    BY <1>2, <2>2
  <2>5. Present \subseteq 1..Len(Builtin)
    BY DEF Present
  <2>6. \A i \in Present', j \in 1..Len(Builtin) : j < i => j \in Present'
    BY <2>2, <2>3, <2>4
  <2>7. ASSUME NEW q \in Requests, Seeding(q)', NEW j \in 1..Len(Builtin), j < request'[q].row
        PROVE  j \in Present'
    <3>1. CASE q # r
      BY <1>5, <2>2, <2>3, <2>7, <3>1 DEF Seeding, At, Held
    <3>2. CASE q = r
      <4>1. h.row <= Len(Builtin) /\ j < h.row
        BY <1>5, <2>7, <3>2 DEF Seeding, Held
      <4>2. h.op # "idle"
        BY <1>5, <2>7, <3>2 DEF Seeding, At
      <4>3. h.row = k + 1
        BY <1>1, <1>2, <4>1, <4>2, IdleIsRequest
      <4> QED
        BY <1>2, <2>3, <2>4, <4>1, <4>3
    <3> QED
      BY <3>1, <3>2
  <2>8. Present' = 1..Len(Builtin) \/ \E q \in Requests : Completes(q)'
    <3>1. CASE h = Idle
      <4>1. k = Len(Builtin)
        BY <1>1, <3>1, IdleIsRequest
      <4>2. \A j \in 1..Len(Builtin) : j \in Present'
        BY <1>2, <2>3, <2>4, <4>1
      <4> QED
        BY <1>2, <2>3, <2>5, <4>2
    <3>2. CASE h.op = "seedForAI"
      <4>1. Completes(r)'
        BY <1>1, <1>2, <1>5, <3>2, IdleIsRequest DEF Completes, Seeding, At, Held
      <4> QED
        BY <4>1
    <3>3. CASE h.op = "seed" /\ k \notin Present
      <4>1. h.row = k + 1
        BY <1>1, <3>3, IdleIsRequest
      <4>2. CASE k = Len(Builtin)
        <5>1. \A j \in 1..Len(Builtin) : j \in Present'
          BY <1>2, <2>3, <2>4, <4>2
        <5> QED
          BY <1>2, <2>3, <2>5, <5>1
      <4>3. CASE k < Len(Builtin)
        <5>1. k + 1 \in 1..Len(Builtin) /\ k + 1 \notin Present'
          BY <1>2, <2>2, <2>3, <3>3, <4>3
        <5>2. Completes(r)'
          BY <1>5, <3>3, <4>1, <4>3, <5>1 DEF Completes, Seeding, At, Held
        <5> QED
          BY <5>2
      <4> QED
        BY <1>2, <4>2, <4>3
    <3>4. CASE h.op = "seed" /\ k \in Present
      <4>1. Present' = Present /\ Present # {}
        BY <2>3, <3>4
      <4>2. CASE Present = 1..Len(Builtin)
        BY <4>1, <4>2
      <4>3. CASE \E q \in Requests : Completes(q)
        <5>1. PICK q \in Requests : Completes(q)
          BY <4>3
        <5>2. request[r].op = "seed"
          BY <1>1, <3>4, IdleIsRequest
        <5>3. q # r
          BY <3>4, <5>1, <5>2 DEF Completes, At, Held
        <5>4. Completes(q)'
          BY <1>5, <4>1, <5>1, <5>3 DEF Completes, Seeding, At, Held
        <5> QED
          BY <5>4
      <4> QED
        BY <2>2, <4>1, <4>2, <4>3
    <3> QED
      BY <1>8, <1>1, <3>1, <3>2, <3>3, <3>4, IdleIsRequest
  <2> QED
    BY <2>3, <2>6, <2>7, <2>8 DEF SeededSoFar, AreBuiltin, Held
<1> QED
  BY <1>6, <1>7, <1>9, <1>10, <1>11, <1>12 DEF IndInv

(***************************************************************************)
(* The invariant.                                                          *)
(***************************************************************************)
\* A database without styles, or with the built-in ones.
LEMMA StylesInitInv == Init => IndInv
<1> SUFFICES ASSUME Init PROVE IndInv
  OBVIOUS
<1>1. \A r \in Requests : request[r] = Idle
  BY DEF Init
<1>2. \A r \in Requests : request[r].op = "idle"
  BY <1>1, IdleIsRequest
<1>3. HeldValuesAreSound /\ OneSeeder /\ ReleasedSoFar /\ \A r \in Requests : ~Seeding(r)
  BY <1>2 DEF HeldValuesAreSound, OneSeeder, ReleasedSoFar, Seeding, At, Held, Deleting
<1>4. \A i \in 1..Len(Builtin) : /\ BuiltinStyle(i) \in Style /\ BuiltinStyle(i).state = "live"
                                /\ BuiltinStyle(i).key = Builtin[i]
                                /\ BuiltinStyle(i).isDefault = (i = 1)
  BY BuiltinKeys DEF BuiltinStyle, Style
<1>5. NoStyle \in Style /\ NoStyle.state = "absent"
  BY DEF NoStyle, Style
<1>6. /\ style \in [Styles -> Style]
      /\ \/ LiveStyles = {}
         \/ LiveStyles = 1..Len(Builtin) /\ \A s \in 1..Len(Builtin) : style[s] = BuiltinStyle(s)
  <2>1. CASE style = [s \in Styles |-> NoStyle]
    BY <1>5, <2>1 DEF LiveStyles
  <2>2. CASE style = [s \in Styles |-> IF s <= Len(Builtin) THEN BuiltinStyle(s) ELSE NoStyle]
    <3>1. \A s \in Styles : s <= Len(Builtin) <=> s \in 1..Len(Builtin)
      BY BuiltinKeys DEF Styles
    <3>2. 1..Len(Builtin) \subseteq Styles
      BY BuiltinKeys DEF Styles
    <3>3. \A s \in Styles : IF s \in 1..Len(Builtin) THEN style[s] = BuiltinStyle(s) ELSE style[s] = NoStyle
      BY <2>2, <3>1
    <3>4. DOMAIN style = Styles /\ style = [s \in Styles |-> style[s]]
      BY <2>2
    <3>5. \A s \in Styles : style[s] \in Style /\ (style[s].state = "live" <=> s \in 1..Len(Builtin))
      BY <1>4, <1>5, <3>3
    <3>6. LiveStyles = 1..Len(Builtin)
      BY <3>2, <3>5 DEF LiveStyles
    <3>7. style \in [Styles -> Style]
      BY <3>4, <3>5
    <3> QED
      BY <3>2, <3>3, <3>6, <3>7
  <2> QED
    BY <2>1, <2>2 DEF Init
<1>7. \A s \in LiveStyles : /\ style[s].key \in Keys
                            /\ \A u \in LiveStyles : style[s].key = style[u].key => s = u
                            /\ s \in 1..Len(Builtin) /\ style[s].key = Builtin[s]
                            /\ style[s].isDefault = (s = 1)
  BY <1>4, <1>6, BuiltinKeys
<1>8. TypeOK
  <2>1. template \in [Templates -> Template]
    BY DEF Init, Template
  <2>2. override \in Keys \union {NoKey}
    BY BuiltinKeys DEF Init
  <2>3. request \in [Requests -> Request]
    BY IdleIsRequest DEF Init
  <2>4. calls \in 0..MaxCalls
    BY StylesAssumption DEF Init
  <2> QED
    BY <1>6, <1>7, <2>1, <2>2, <2>3, <2>4 DEF Init, TypeOK
<1>9. Present = {} \/ Present = 1..Len(Builtin)
  <2>1. CASE LiveStyles = {}
    BY <2>1 DEF Present, GetAIStyleByKey
  <2>2. CASE LiveStyles = 1..Len(Builtin)
    <3>1. \A i \in 1..Len(Builtin) : i \in Present
      BY <1>7, <2>2, PresentMeans
    <3> QED
      BY <3>1 DEF Present
  <2> QED
    BY <1>6, <2>1, <2>2
<1>10. \A s \in LiveStyles : style[s].key = Builtin[s] /\ (style[s].isDefault <=> s = 1)
  BY <1>7, Zenon
<1>11. SeededSoFar
  BY <1>3, <1>7, <1>9, <1>10 DEF SeededSoFar
<1> QED
  BY <1>3, <1>7, <1>8, <1>11 DEF IndInv

LEMMA CallsKeepInv == IndInv /\ calls' \in 0..MaxCalls /\ Calls => IndInv'
<1> SUFFICES ASSUME IndInv, calls' \in 0..MaxCalls, Calls PROVE IndInv'
  OBVIOUS
<1>1. ASSUME NEW key \in Keys, NEW isDefault \in BOOLEAN, CreateStyle(key, isDefault) PROVE IndInv'
  BY <1>1, CreateStyleKeepsInv
<1>2. ASSUME NEW r \in Requests, EnsureSeeds(r) PROVE IndInv'
  BY <1>2, EnsureSeedsKeepsInv
<1>3. ASSUME NEW r \in Requests, NEW key \in Keys, CreateTemplate(r, key) PROVE IndInv'
  BY <1>3, TemplateWritesKeepInv
<1>4. CASE Restart
  BY <1>4, RestartKeepsInv
<1> QED
  BY <1>1, <1>2, <1>3, <1>4, BeginningsKeepInv DEF Calls

LEMMA StatementsKeepInv ==
  ASSUME IndInv, calls' \in 0..MaxCalls, NEW r \in Requests, Statements(r)
  PROVE  IndInv'
BY SeedStyleKeepsInv, SeedSystemPromptKeepsInv, UpdateStyleKeepsInv, ClearDefaultsKeepsInv,
   SetDefaultKeepsInv, RefuseOrDeleteKeepsInv, ClearReportsKeepsInv, ResetTemplatesKeepsInv,
   DeleteStyleKeepsInv, DeleteTemplateKeepsInv, TemplateWritesKeepInv, AbandonKeepsInv
DEF Statements

LEMMA StylesNextKeepsInv == IndInv /\ [Next]_vars => IndInv'
<1> SUFFICES ASSUME IndInv, [Next]_vars PROVE IndInv'
  OBVIOUS
<1>1. calls \in 0..MaxCalls /\ MaxCalls \in Nat
  BY StylesAssumption DEF IndInv, TypeOK
<1>2. CASE calls < MaxCalls /\ calls' = calls + 1 /\ Calls
  BY <1>1, <1>2, CallsKeepInv
<1>3. ASSUME UNCHANGED calls, NEW r \in Requests, Statements(r) PROVE IndInv'
  BY <1>1, <1>3, StatementsKeepInv
<1>4. CASE UNCHANGED vars
  BY <1>4 DEF vars, tables, IndInv, TypeOK, LiveStyles, HeldValuesAreSound, OneSeeder,
     ReleasedSoFar, SeededSoFar, LiveTemplates, Present, GetAIStyleByKey, Completes, Seeding, At, Held
<1> QED
  BY <1>2, <1>3, <1>4 DEF Next

\* What requests between two statements rely on (the handlers of
\* src/internal/api/prompts and the seeders have no transaction).
THEOREM StylesInvariance == Spec => []IndInv
BY StylesInitInv, StylesNextKeepsInv, PTL DEF Spec

\* A seeding that is over is complete: the witness of an unfinished table is a
\* seeding under way.
LEMMA SeedingCompletes == IndInv => SeedingIsComplete
<1> SUFFICES ASSUME IndInv, untouched, \A r \in Requests : ~Seeding(r), LiveStyles # {}
             PROVE  /\ \A i \in 1..Len(Builtin) : GetAIStyleByKey(Builtin[i]) # {}
                    /\ ResolveStyle(NoKey) = GetAIStyleByKey(Formal) /\ Cardinality(Defaults) = 1
  BY DEF SeedingIsComplete
<1>1. /\ \A s \in LiveStyles : \E i \in 1..Len(Builtin) :
           style[s].key = Builtin[i] /\ (style[s].isDefault <=> i = 1)
      /\ Present = {} \/ Present = 1..Len(Builtin)
  BY DEF IndInv, SeededSoFar, Completes
<1>2. Present = 1..Len(Builtin)
  <2>1. PICK s \in LiveStyles : TRUE
    OBVIOUS
  <2>2. PICK i \in 1..Len(Builtin) : style[s].key = Builtin[i]
    BY <1>1
  <2>3. i \in Present
    BY <2>2, PresentMeans
  <2> QED
    BY <1>1, <2>3
<1>3. \A i \in 1..Len(Builtin) : GetAIStyleByKey(Builtin[i]) # {}
  BY <1>2 DEF Present
<1>4. PICK x \in LiveStyles : style[x].key = Formal
  BY <1>3, BuiltinKeys DEF GetAIStyleByKey, Formal
<1>5. \A s, u \in LiveStyles : style[s].key = style[u].key => s = u
  BY DEF IndInv, TypeOK
<1>6. GetAIStyleByKey(Formal) = {x}
  BY <1>4, <1>5 DEF GetAIStyleByKey
<1>7. ASSUME NEW s \in LiveStyles PROVE style[s].isDefault <=> s = x
  <2>1. PICK i \in 1..Len(Builtin) : style[s].key = Builtin[i] /\ (style[s].isDefault <=> i = 1)
    BY <1>1
  <2>2. i = 1 <=> style[s].key = Formal
    BY <2>1, BuiltinKeys DEF Formal
  <2>3. style[s].key = Formal <=> s = x
    BY <1>4, <1>5
  <2> QED
    BY <2>1, <2>2, <2>3
<1>8. Defaults = {x}
  BY <1>4, <1>7 DEF Defaults
<1>9. x \in Nat
  BY BuiltinKeys DEF LiveStyles, Styles
<1>10. GetDefaultAIStyle = {x}
  BY <1>8, <1>9 DEF GetDefaultAIStyle
<1>11. GetAIStyleByKey(NoKey) = {}
  BY <1>1, BuiltinKeys DEF GetAIStyleByKey
<1> QED
  BY <1>3, <1>6, <1>8, <1>10, <1>11, FS_Singleton DEF ResolveStyle

\* The tables of styles and templates are of their types, keys are unique, and
\* a seeding that nobody disturbed is complete (EnsureSeeds and
\* EnsureSeedsForAI, however they overlap).
THEOREM StylesWellFormed == Spec => []WellFormed
<1>1. IndInv => WellFormed
  BY SeedingCompletes DEF WellFormed
<1> QED
  BY <1>1, StylesInvariance, PTL

\* A style is deleted only when no report and no template names it but those
\* that were saved since (DeleteStyle's statements, ADR-0005).
THEOREM DeletionReleases == Spec => DeletedStyleIsReleased
<1> DEFINE Released ==
      \A r \in Requests : At(r, "deleteStyle") /\ style' # style =>
        /\ override # Held(r).key
        /\ \A t \in LiveTemplates :
             template[t].aiStyle = Held(r).key => t \in Held(r).late \/ Held(r).key = Formal
<1>1. IndInv /\ [Next]_vars => [Released]_vars
  BY DEF IndInv, ReleasedSoFar
<1> QED
  BY <1>1, StylesInvariance, PTL DEF Spec, DeletedStyleIsReleased
=============================================================================
