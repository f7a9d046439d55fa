SPECIFICATION Spec
CONSTANTS
  WriteWait = 1
  PongWait = 6
  PingPeriod = 5
  Window = 1
  Matches = {m1}
INVARIANTS
  TypeOK
  OneAnswerEach
  DroppedForCause
PROPERTIES
  EveryMatchStarts
  SilentIsDropped
CHECK_DEADLOCK FALSE
