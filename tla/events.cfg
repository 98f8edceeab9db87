SPECIFICATION Spec
CONSTANTS
  NEvents = 3
  Tags = {a, b}
  Requests = {r1, r2}
  MaxTime = 3
  DayLength = 2
  MaxCalls = 3
SYMMETRY Symmetry
CHECK_DEADLOCK FALSE
INVARIANTS
  WellFormed
  TagsMirrorContentUnlessSelfRenamed
  ReferencesMirrorContent
  PagesListEventsOfDistinctTimesOnce
PROPERTIES
  DeletionClearsReferrers
