\* Two migrations of different binaries, a server and kills at any point.
SPECIFICATION LedgerSpec
CONSTANTS
  older = older
  newer = newer
  server = server
  Migrators = {older, newer}
  Servers = {server}
  NEntries = 3
  HeadOf <- Binaries
  StatementsOf <- Files
  LegacyLast = 1
  Rewritten = {1}
  InitialLedgers <- Ledgers
INVARIANTS
  SchemaMatchesLedger
  ServersHaveTheirSchema
PROPERTIES
  LedgerMovesToAHead
