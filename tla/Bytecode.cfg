SPECIFICATION Spec
CHECK_DEADLOCK FALSE
CONSTANTS
  Base = 8
  LONG = 2
  VLONG = 3
  VVLONG = 4
  OP = 5
  JMP = 6
  Args <- Boundaries
  Label = {l1, l2}
  MaxInstructions = 3
INVARIANTS
  TypeOK
  InStep
  RunsToTheEnd
