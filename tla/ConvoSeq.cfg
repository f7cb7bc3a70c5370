SPECIFICATION Spec
CONSTANTS
  k1 = k1
  a = a
  b = b
  NoKey = NoKey
  Keys <- OneKey
  Prompts <- TwoPrompts
  MaxLen = 2
  MaxMessages = 5
  MaxActive = 1
  MaxFaults = 0
  MaxExpiries = 1
  Web = FALSE
PROPERTIES
  ImplementsLog
CHECK_DEADLOCK FALSE
