SPECIFICATION Spec
CONSTANTS
  MaxIter = 3
  MaxDeltas = 2
  MaxCalls = 1
  Cap = 2
  MayRefuse = FALSE
INVARIANTS
  ErrorTold
CHECK_DEADLOCK FALSE
