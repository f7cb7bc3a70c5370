SPECIFICATION Spec
CONSTANTS
  k1 = k1
  a = a
  b = b
  NoKey = NoKey
  Keys <- OneKey
  Prompts <- TwoPrompts
  MaxLen = 1
  MaxMessages = 3
  MaxActive = 3
  MaxFaults = 1
  MaxExpiries = 1
  Web = TRUE
INVARIANTS
  TypeOK
  LengthBound
  ExpiryArmed
  SplitOnlyByRace
  ResetIsolates
SYMMETRY KeysAndPrompts
CHECK_DEADLOCK FALSE
