SPECIFICATION FairSpec
CONSTANTS
  NumSuits = 1
  Ranks = 4
  NumHonors = 2
  Sets = 1
  Walls <- MCWalls
  InitialScore = 25000
  Values <- MCValues
  Humans = {0}
  SelfOps = {"riichi", "tsumo"}
  Claims = TRUE
INVARIANTS
  TypeOK
  PointsConserved
  TilesConserved
  SeatIsCurrent
  HandAccount
  RiichiStaysClosed
  DaburiPrecedesCalls
  TableTold
  StepsOrdered
  ArchiveMatchesLastPush
PROPERTIES
  FrozenAfterEnd
  RoundEnds
  ImplementsLifecycle
CHECK_DEADLOCK FALSE
