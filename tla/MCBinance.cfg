CONSTANTS
  Orders = {o1}
  SymbolOf <- OnSecond
  Intent <- OneLimit
  Rules <- TwoRules
  Configs <- BothOrOne
  RECV_WINDOW = 2
  AHEAD = 1
  REQUEST_TIMEOUT = 2
  SAMPLES = 2
  Skews = {0, 4}
  MaxNow = 4
  MaxCalls = 2
  MaxFaults = 1
  None = None
SPECIFICATION Spec
INVARIANTS
  PlacedOnce
  OutcomesAreTrue
  AbsentIsFinal
  ClockWithinTrip
CHECK_DEADLOCK FALSE
