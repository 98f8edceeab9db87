SPECIFICATION Spec
CONSTANTS
  NWeeks = 3
  NMonths = 2
  MonthOf <- Calendar
  NItems = 3
  NComments = 1
  Events = {e1}
  Requests = {r1, r2}
  MaxCalls = 4
SYMMETRY Symmetry
CHECK_DEADLOCK FALSE
INVARIANTS
  WellFormed
  WeekItemsAreReviewed
  ReviewCountsEventsOnce
  BadgesMatchLists
