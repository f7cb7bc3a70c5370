SPECIFICATION Spec
CONSTANTS
  Conns = {c1}
  Senders = {s1}
  Chunks = 1
  Repliers = {w1}
  Stoppable = TRUE
  NoConn = NoConn
  Nobody = Nobody
PROPERTIES LostRedials StopEnds CallersReleased
CHECK_DEADLOCK FALSE
