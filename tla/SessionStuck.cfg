SPECIFICATION FairSpec
CONSTANTS
  Conns = {c1}
  Games = {g}
  MaxSessions = 2
  MaxInputs = 3
  MaxTurns = 2
PROPERTY
  HandlerReturns
CHECK_DEADLOCK FALSE
