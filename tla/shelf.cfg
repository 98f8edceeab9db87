SPECIFICATION Spec
CONSTANTS
  NReports = 2
  NWeeks = 2
  Limit = 1
  MaxHistory = 2
  MaxContent = 1
  NLines = 4
  MaxRevision = 2
  MaxOperations = 3
  Permissions <- NoneOrBoth
CHECK_DEADLOCK FALSE
INVARIANTS
  WellFormed
  LeadershipReadsItsOwn
  PagesListSteadyReports
PROPERTIES
  ShownTextWasTrue
