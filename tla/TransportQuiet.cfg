SPECIFICATION Spec
CONSTANTS
  WriteWait = 1
  PongWait = 6
  PingPeriod = 5
  Window = 1
  Matches = {m1}
INVARIANT ServedUntilDropped
CHECK_DEADLOCK FALSE
