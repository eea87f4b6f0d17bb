SPECIFICATION Spec
CONSTANTS
  Texts = {"a", "b"}
  MaxLists = 2
  MaxLength = 2
  MaxFrames = 5
  MaxTemps = 1
INVARIANTS
  TypeOK
  OperandsExact
  CallbackGetsElement
  NoInternalFailure
PROPERTY
  ResultsAsPromised
CHECK_DEADLOCK FALSE
