SPECIFICATION Spec
CONSTANTS
  Providers = {"openai", "anthropic"}
  Cap <- SmallCap
  MaxPieces <- SmallPieces
  MaxCalls <- SmallCalls
  MaxFragments <- SmallFragments
  MayLeave = TRUE
INVARIANTS CallsWhole AnswerIsText NothingUnread
CHECK_DEADLOCK FALSE
