SPECIFICATION Spec
CONSTANTS
  Sources = {1}
  Requests = {r1, r2}
  NBranches = 2
  Current = 1
  PageSize = 1
  MaxClock = 2
  MaxIncidents = 1
SYMMETRY Symmetry
CHECK_DEADLOCK FALSE
INVARIANTS
  WellFormed
  NoDuplicates
  CursorCovers
