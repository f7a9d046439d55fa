SPECIFICATION Spec
CONSTANTS
  NumSuits = 1
  Ranks = 4
  NumHonors = 2
  Sets = 1
  Walls <- MCWalls
  InitialScore = 25000
  Values <- MCValues
  Humans = {0}
  SelfOps = {"riichi", "tsumo"}
  Claims = TRUE
INVARIANT
  ClaimsFreshDiscard
CHECK_DEADLOCK FALSE
