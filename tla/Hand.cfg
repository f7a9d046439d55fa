SPECIFICATION Spec
CONSTANTS
  NumSuits = 3
  Ranks = 9
  NumHonors = 7
  Sets = 4
  Hands <- MCHands
  Indicators <- MCIndicators
INVARIANTS
  ReadingIsTheHand
  EndsAreRead
  DrawIsWorthRon
  PaymentsAgree
CHECK_DEADLOCK FALSE
