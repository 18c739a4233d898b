CONSTANTS
  MAX = 127
  SCALE_DIGITS = 2
  MAX_WHOLE = 1
  Refused = Refused
  None = None
  Qtys = {3, 40, 127}
  Prices = {0, 33, 100, 125}
  MaxFills = 5
  Marks = {0, 40, 50, 60, 127}
  Dists = {0, 5, 15}
  MaxMarks = 3
  Trades <- SampleTrades
  Alphabet = {"-", "+", ".", "0", "1", "2", "8", "x"}
  MaxText = 5
  BASE = 16
  NotUtf8 = 15
  Samples <- SampleRecords
  Damages = {0, 2, 15}
  Bad = Bad
  Nothing = Nothing
SPECIFICATION Spec
INVARIANTS
  TextIsExact
  MoneyConserved
  BasisFollowsSize
  RoundingIsBounded
  ProjectionAgrees
  LossIsBudgeted
  RangeCoversGaps
  StopIsTightestDue
  RoundTrips
  WrongLengthIsRefused
  ReadersAgree
CHECK_DEADLOCK FALSE
