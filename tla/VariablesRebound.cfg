SPECIFICATION Spec
CONSTANTS
  Number = {1}
  Locals = 1
  MaxFrames = 2
  MaxVariables = 2
  MaxClosures = 2
  MaxCaptured = 1
  MaxOperands = 2
  Rebinding = TRUE
  Dangling = FALSE
INVARIANTS
  ClosuresHoldTheirVariables
