SPECIFICATION Spec
CONSTANTS
  Conns = {c1, c2}
  Accounts = {1, 1001}
  Limits = {2}
  MaxRooms = 2
INVARIANTS
  TypeOK
  IdsDiffer
  MemberIsSeated
  KeptWhileSeated
  SeatsWithinLimit
CONSTRAINTS
  Unspoiled
  OneJoin
CHECK_DEADLOCK FALSE
