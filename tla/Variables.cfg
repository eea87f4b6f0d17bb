SPECIFICATION Spec
CONSTANTS
  Number = {1}
  Locals = 1
  MaxFrames = 2
  MaxVariables = 2
  MaxClosures = 2
  MaxCaptured = 2
  MaxOperands = 2
  Rebinding = FALSE
  Dangling = FALSE
INVARIANTS
  TypeOK
  LocalsHoldTheirVariable
  ClosuresHoldTheirVariables
  ReferencesReachTheirVariable
  HeadersKept
