--------------------------- MODULE LedgerMigration ---------------------------
(***************************************************************************)
(* The migration ledger: `wr db migrate` brings a database to the head of  *)
(* the corpus that its binary embeds, `wr serve` starts only on a database *)
(* that is at its head.  Migrations and starting servers, of older and of  *)
(* newer binaries, run as processes of their own on one SQLite file: a     *)
(* reader sees what is committed, BEGIN IMMEDIATE takes the only write     *)
(* lock, and a process may be killed between any two statements.           *)
(*                                                                         *)
(* The corpora of the binaries are prefixes of one journal (entries are    *)
(* only ever added to it).  A ledger row is the entry it records and the   *)
(* form of its hash; the schema is how many statements of each entry have  *)
(* been executed on the database.                                          *)
(***************************************************************************)
EXTENDS Naturals, Sequences

CONSTANTS
  Migrators,      \* runs of wr db migrate
  Servers,        \* runs of wr serve
  NEntries,       \* entries of the journal
  HeadOf,         \* how many of them the binary of a process embeds
  StatementsOf,     \* how many statements the file of an entry has
  LegacyLast,     \* the last entry that may be recorded by a 16-digit hash
  Rewritten,      \* the entries whose file was rewritten after they were applied
  InitialLedgers  \* bound: ledgers that databases begin with

Processes == Migrators \union Servers
Entries == 1..NEntries
Hashes == {"full", "short", "rewritten"}
Rows == [entry : Entries, hash : Hashes]

ASSUME LedgerAssumption ==
  /\ NEntries \in Nat
  /\ HeadOf \in [Processes -> Entries]
  /\ StatementsOf \in [Entries -> Nat]
  /\ InitialLedgers \subseteq Seq(Rows)
  /\ \A l \in InitialLedgers : Len(l) <= NEntries
  /\ Migrators \intersect Servers = {}

VARIABLES
  exists,         \* whether the table __drizzle_migrations exists
  ledger,         \* its rows in the order of rowid
  schema,         \* statements executed, of each entry
  writer,         \* who is in a write transaction
  tx,             \* the database as the writer has it
  pc,             \* where each process is
  existed,        \* readLedgerState's exists, as each process read it
  next            \* the writer's loop: the entry, and its statements executed

database == <<exists, ledger, schema>>
ledgerVars == <<database, writer, tx, pc, existed, next>>

Nobody == {}                               \* writer is a set of at most one migrator

LedgerTypeOK ==
  /\ exists \in BOOLEAN
  /\ ledger \in Seq(Rows)
  /\ schema \in [Entries -> Nat]
  /\ writer \in {Nobody} \union {{m} : m \in Migrators}
  /\ tx \in [exists : BOOLEAN, ledger : Seq(Rows), schema : [Entries -> Nat]]
  /\ pc \in [Processes -> {"idle", "checked", "begin", "create", "recheck", "apply",
                           "done", "serving", "refused", "failed"}]
  /\ existed \in [Processes -> BOOLEAN]
  /\ next \in [entry : Nat \ {0}, done : Nat]

\* The schema of a database whose ledger has n rows.
SchemaOf(n) == [e \in Entries |-> IF e <= n THEN StatementsOf[e] ELSE 0]

LedgerInit ==
  /\ ledger \in InitialLedgers
  /\ exists = (ledger # <<>>)
  /\ schema = SchemaOf(Len(ledger))
  /\ writer = Nobody
  /\ tx = [exists |-> exists, ledger |-> ledger, schema |-> schema]
  /\ pc = [p \in Processes |-> "idle"]
  /\ existed = [p \in Processes |-> FALSE]
  /\ next = [entry |-> 1, done |-> 0]

(***************************************************************************)
(* The ledger against the corpus of a binary.                              *)
(***************************************************************************)
Accepts(i, row) ==
  /\ row.entry = i
  /\ \/ row.hash = "full"
     \/ row.hash = "short" /\ i <= LegacyLast
     \/ row.hash = "rewritten" /\ i \in Rewritten

VerifyPrefix(head, rows) == Len(rows) <= head /\ \A i \in 1..Len(rows) : Accepts(i, rows[i])

AtHead(head, rows) == Len(rows) = head /\ VerifyPrefix(head, rows)

(***************************************************************************)
(* Both commands first read the ledger: whether there is one, then it.     *)
(***************************************************************************)
ReadExists(p) ==
  /\ pc[p] = "idle"
  /\ existed' = [existed EXCEPT ![p] = exists]
  /\ pc' = [pc EXCEPT ![p] = "checked"]
  /\ UNCHANGED <<database, writer, tx, next>>

RowsRead(p) == IF existed[p] THEN ledger ELSE <<>>

\* A migration refuses what is no prefix of its corpus, and has nothing to do
\* when it is all of it.
VerifyBeforeMigration(m) ==
  /\ pc[m] = "checked"
  /\ pc' = [pc EXCEPT ![m] = IF ~VerifyPrefix(HeadOf[m], RowsRead(m)) THEN "refused"
                             ELSE IF Len(RowsRead(m)) = HeadOf[m] THEN "done" ELSE "begin"]
  /\ UNCHANGED <<database, writer, tx, existed, next>>

\* Mutation of VerifyLedger: a beginning of the corpus is enough for a server.
VerifyLedgerIsPrefix(s) ==
  /\ pc[s] = "checked"
  /\ pc' = [pc EXCEPT ![s] = IF existed[s] /\ VerifyPrefix(HeadOf[s], RowsRead(s))
                             THEN "serving" ELSE "refused"]
  /\ UNCHANGED <<database, writer, tx, existed, next>>

\* A server starts on a ledger that is all of its corpus.
VerifyLedger(s) ==
  /\ pc[s] = "checked"
  /\ pc' = [pc EXCEPT ![s] = IF existed[s] /\ AtHead(HeadOf[s], RowsRead(s))
                             THEN "serving" ELSE "refused"]
  /\ UNCHANGED <<database, writer, tx, existed, next>>

(***************************************************************************)
(* The migration's transaction.                                            *)
(***************************************************************************)
BeginImmediate(m) ==
  /\ pc[m] = "begin"
  /\ writer = Nobody
  /\ writer' = {m}
  /\ tx' = [exists |-> exists, ledger |-> ledger, schema |-> schema]
  /\ pc' = [pc EXCEPT ![m] = "create"]
  /\ UNCHANGED <<database, existed, next>>

\* The lock is held for longer than busy_timeout.
Busy(m) ==
  /\ pc[m] = "begin"
  /\ writer # Nobody
  /\ pc' = [pc EXCEPT ![m] = "failed"]
  /\ UNCHANGED <<database, writer, tx, existed, next>>

CreateLedger(m) ==
  /\ pc[m] = "create"
  /\ tx' = [tx EXCEPT !.exists = @ \/ ~existed[m]]
  /\ pc' = [pc EXCEPT ![m] = "recheck"]
  /\ UNCHANGED <<database, writer, existed, next>>

\* Mutation of Recheck: what there is to do stays as the first read had it.
RecheckLate(m) ==
  /\ pc[m] = "recheck"
  /\ next' = [entry |-> IF existed[m] THEN Len(tx.ledger) + 1 ELSE 1, done |-> 0]
  /\ pc' = [pc EXCEPT ![m] = "apply"]
  /\ UNCHANGED <<database, writer, tx, existed>>

\* Once more, now that nobody else can write.
Recheck(m) ==
  /\ pc[m] = "recheck"
  /\ VerifyPrefix(HeadOf[m], tx.ledger)
  /\ next' = [entry |-> Len(tx.ledger) + 1, done |-> 0]
  /\ pc' = [pc EXCEPT ![m] = "apply"]
  /\ UNCHANGED <<database, writer, tx, existed>>

\* Mutation of Execute: a statement takes effect outside of the transaction.
ExecuteAtOnce(m) ==
  /\ pc[m] = "apply"
  /\ next.entry <= HeadOf[m] /\ next.done < StatementsOf[next.entry]
  /\ tx' = [tx EXCEPT !.schema[next.entry] = @ + 1]
  /\ schema' = [schema EXCEPT ![next.entry] = @ + 1]
  /\ next' = [next EXCEPT !.done = @ + 1]
  /\ UNCHANGED <<exists, ledger, writer, pc, existed>>

Execute(m) ==
  /\ pc[m] = "apply"
  /\ next.entry <= HeadOf[m] /\ next.done < StatementsOf[next.entry]
  /\ tx' = [tx EXCEPT !.schema[next.entry] = @ + 1]
  /\ next' = [next EXCEPT !.done = @ + 1]
  /\ UNCHANGED <<database, writer, pc, existed>>

RecordEntry(m) ==
  /\ pc[m] = "apply"
  /\ next.entry <= HeadOf[m] /\ next.done = StatementsOf[next.entry]
  /\ tx' = [tx EXCEPT !.ledger = Append(@, [entry |-> next.entry, hash |-> "full"])]
  /\ next' = [entry |-> next.entry + 1, done |-> 0]
  /\ UNCHANGED <<database, writer, pc, existed>>

Commit(m) ==
  /\ pc[m] = "apply"
  /\ next.entry > HeadOf[m]
  /\ exists' = tx.exists /\ ledger' = tx.ledger /\ schema' = tx.schema
  /\ writer' = Nobody
  /\ pc' = [pc EXCEPT ![m] = "done"]
  /\ UNCHANGED <<tx, existed, next>>

\* The second check or a statement fails, and the transaction is rolled back.
Rollback(m) ==
  /\ pc[m] \in {"create", "recheck", "apply"}
  /\ writer' = Nobody
  /\ pc' = [pc EXCEPT ![m] = IF pc[m] = "recheck" /\ ~VerifyPrefix(HeadOf[m], tx.ledger)
                             THEN "refused" ELSE "failed"]
  /\ UNCHANGED <<database, tx, existed, next>>

(***************************************************************************)
(* A process is killed, or has ended, and is started again.                *)
(***************************************************************************)
RestartProcess(p) ==
  /\ pc[p] # "idle"
  /\ pc' = [pc EXCEPT ![p] = "idle"]
  /\ writer' = writer \ {p}
  /\ UNCHANGED <<database, tx, existed, next>>

Migrate(m) ==
  \/ VerifyBeforeMigration(m) \/ BeginImmediate(m) \/ Busy(m) \/ CreateLedger(m)
  \/ Recheck(m) \/ Execute(m) \/ RecordEntry(m) \/ Commit(m) \/ Rollback(m)

LedgerNext ==
  \/ \E p \in Processes : ReadExists(p) \/ RestartProcess(p)
  \/ \E m \in Migrators : Migrate(m)
  \/ \E s \in Servers : VerifyLedger(s)

LedgerSpec == LedgerInit /\ [][LedgerNext]_ledgerVars

(***************************************************************************)
(* Properties.                                                             *)
(***************************************************************************)
\* Every entry of the ledger has been executed in full and once, and nothing
\* of the others, whatever was killed and whoever migrated at the same time.
SchemaMatchesLedger ==
  /\ schema = SchemaOf(Len(ledger))
  /\ ledger # <<>> => exists

\* A running server's database has all of its corpus, also when a newer binary
\* migrates it meanwhile.
ServersHaveTheirSchema ==
  \A s \in Servers : pc[s] = "serving" =>
    /\ Len(ledger) >= HeadOf[s]
    /\ \A e \in 1..HeadOf[s] : schema[e] = StatementsOf[e]

\* The ledger changes in one way only: from what a migrating binary accepts, in
\* one step, to that binary's head, leaving the rows there were as they are.
LedgerMovesToAHead ==
  [][\E m \in Migrators :
       /\ VerifyPrefix(HeadOf[m], ledger) /\ AtHead(HeadOf[m], ledger')
       /\ \A i \in 1..Len(ledger) : ledger'[i] = ledger[i]]_ledger

(***************************************************************************)
(* The inductive invariant: the writer's copy is the database with the     *)
(* entries up to the loop's applied, and the database is still the one the *)
(* transaction began with.                                                 *)
(***************************************************************************)
WriterIsAlone ==
  \A m \in Migrators : pc[m] \in {"create", "recheck", "apply"} <=> writer = {m}

ServersDoNotMigrate == \A s \in Servers : pc[s] \in {"idle", "checked", "serving", "refused"}

\* What of the schema is executed when the ledger has n rows and the loop has
\* executed d statements of the entry after it.
Applied(n, d) == [e \in Entries |-> IF e <= n THEN StatementsOf[e] ELSE IF e = n + 1 THEN d ELSE 0]

TransactionExtends ==
  \A m \in Migrators :
    /\ pc[m] \in {"create", "recheck"} =>
         tx.ledger = ledger /\ tx.schema = schema
    /\ pc[m] = "create" => tx.exists = exists
    /\ pc[m] = "recheck" => tx.exists
    /\ pc[m] = "apply" =>
         /\ tx.exists
         /\ VerifyPrefix(HeadOf[m], ledger) /\ VerifyPrefix(HeadOf[m], tx.ledger)
         /\ Len(ledger) <= Len(tx.ledger)
         /\ \A i \in 1..Len(ledger) : tx.ledger[i] = ledger[i]
         /\ next.entry = Len(tx.ledger) + 1
         /\ next.entry <= HeadOf[m] => next.done <= StatementsOf[next.entry]
         /\ next.entry > HeadOf[m] => next.done = 0
         /\ tx.schema = Applied(Len(tx.ledger), next.done)

LedgerInv ==
  /\ LedgerTypeOK
  /\ Len(ledger) <= NEntries
  /\ SchemaMatchesLedger
  /\ \A p \in Processes : existed[p] /\ pc[p] \in {"checked", "begin", "create", "recheck"} => exists
  /\ \A s \in Servers : pc[s] = "serving" => Len(ledger) >= HeadOf[s]
  /\ WriterIsAlone
  /\ ServersDoNotMigrate
  /\ TransactionExtends
=============================================================================
