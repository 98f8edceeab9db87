\* Liveness: one stream, a stop and an archive request and a regeneration; one
\* failed statement or crash; no symmetry.
SPECIFICATION FairSpec
CONSTANTS
  Sessions = {s1}
  Requests = {r1}
  Stoppers = {k1}
  Archivers = {a1}
  MaxTurn = 2
  MaxProposal = 1
  MaxRevision = 2
  MaxSteps = 1
  MaxCalls = 1
  MaxFaults = 1
CHECK_DEADLOCK FALSE
PROPERTIES
  CancelledStreamReturns
  StopEndsTurn
