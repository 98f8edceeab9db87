SPECIFICATION Spec
CONSTANTS
  formal = formal
  technical = technical
  NStyles = 3
  NTemplates = 2
  Keys = {formal, technical, own}
  Builtin <- BuiltinStyles
  NoKey = NoKey
  Requests = {r1, r2}
  MaxCalls = 4
SYMMETRY Symmetry
CHECK_DEADLOCK FALSE
INVARIANTS
  WellFormed
PROPERTIES
  DeletedStyleIsReleased
