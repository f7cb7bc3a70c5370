SPECIFICATION Spec
CONSTANTS
  MaxIter = 3
  MaxDeltas = 2
  MaxCalls = 2
  Cap = 2
  MayRefuse = TRUE
INVARIANTS
  TypeOK
  ToolsFollowCalls
  NoProducerLeft
  AnswerWhole
PROPERTIES
  Handled
  ImplementsReplyLife
CHECK_DEADLOCK FALSE
