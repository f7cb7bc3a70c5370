SPECIFICATION Spec
CONSTANTS
  Messages = {"m1"}
  Transports = {"callback", "connection", "feishu"}
  MaxSends <- ThreeTimes
  MaxFaults = 1
  MaxExpiries = 1
  MaxRestarts = 1
INVARIANTS HandledOnce NotLost
CHECK_DEADLOCK FALSE
PROPERTIES AttemptsEnd
