\* One turn of a session with a stop request, a reader of the page, and a refreshed
\* query, a direct edit, a failed statement, a crash or the deletion of the report.
SPECIFICATION Spec
CONSTANTS
  MaxTurn = 1
  MaxEvents = 3
  MaxSteps = 2
  MaxIncidents = 1
CHECK_DEADLOCK FALSE
INVARIANTS
  WellFormed
  ReturnedTurnsKeepWhatTheyHeard
  ProposalsCiteWhatWasRead
  PageIsBacked
PROPERTIES
  TranscriptOnlyGrows
