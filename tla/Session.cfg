SPECIFICATION FairSpec
CONSTANTS
  Conns = {c1, c2}
  Games = {g}
  MaxSessions = 2
  MaxInputs = 2
  MaxTurns = 2
INVARIANTS
  TypeOK
  OneDrivePerSession
  InputsInOrder
  InputsFollowSession
PROPERTIES
  DrivesImplementLifecycle
  DeliveredIsPlayed
CHECK_DEADLOCK FALSE
