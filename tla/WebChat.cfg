SPECIFICATION Spec
CONSTANTS
  Requests = {"r1", "r2"}
  KindsOf <- AnyBesideAStream
  Prompts = {"a", "b"}
  Old = "old"
  MaxLen = 2
  MaxIter = 2
  MaxText <- TwoThenOne
  MaxRounds = 1
  MaxFaults = 1
INVARIANTS SavedIsSaid RowIsTrue
PROPERTIES RetryReplaces RequestsEnd
CHECK_DEADLOCK FALSE
