\* A regeneration between the check and the write of a final.
SPECIFICATION Spec
CONSTANTS
  Requests = {r1, r2}
  MaxFacts = 1
  MaxRevision = 2
  MaxSession = 1
  MaxProposal = 1
SYMMETRY Symmetry
CHECK_DEADLOCK FALSE
INVARIANTS
  CheckedFinalIsCurrent
