SPECIFICATION Spec
CONSTANTS
  Conns = {c1, c2}
  Senders = {s1}
  Chunks = 2
  Repliers = {w1}
  Stoppable = FALSE
  NoConn = NoConn
  Nobody = Nobody
INVARIANTS TypeOK ReaderFree NoAckLeft AnswerIsOwn
SYMMETRY Alike
CHECK_DEADLOCK FALSE
