\* Two overlapping requests on a report, new or older than audience variants.
SPECIFICATION Spec
CONSTANTS
  Requests = {r1, r2}
  MaxFacts = 1
  MaxRevision = 2
  MaxSession = 1
  MaxProposal = 2
SYMMETRY Symmetry
CHECK_DEADLOCK FALSE
INVARIANTS
  IndInv
  ContentMirrorsPersonal
  DraftsMatchSnapshots
  AudienceIsolation
  AcceptedFinalIsGrounded
  AuditRecordHolds
PROPERTIES
  Implements
