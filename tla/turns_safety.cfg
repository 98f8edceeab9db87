\* Two turns requests and a stop request on one session; one failed statement or crash.
SPECIFICATION Spec
CONSTANTS
  Sessions = {s1}
  Requests = {r1, r2}
  Stoppers = {k1}
  Archivers = {}
  MaxTurn = 2
  MaxProposal = 2
  MaxRevision = 1
  MaxSteps = 2
  MaxCalls = 1
  MaxFaults = 1
SYMMETRY Symmetry
CHECK_DEADLOCK FALSE
INVARIANTS
  IndInv
  OneWorkingTurn
  NoHangingTurn
PROPERTIES
  EndedTurnIsOver
  Implements
