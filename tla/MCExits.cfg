CONSTANTS
  e1 = e1
  e2 = e2
  x1 = x1
  x2 = x2
  Adopted = Adopted
  Orders <- TwoExits
  Intent <- TwoExitsIntent
  Faults <- GaplessFaults
  Inherited = 2
  SweepEvery = 1
  MaxNow = 1
  StaleAfter = 1
  MaxQueue = 9
  MaxFaults = 2
  MaxCrashes = 0
  MaxReplays = 2
  MaxPosition = 3
  TickWriteAfter = 1
  Backoff = 1
  BackoffCap = 2
SPECIFICATION Spec
INVARIANTS
  TypeOK
  NothingDropped
  AdoptedOnce
  NeverOverExit
CHECK_DEADLOCK FALSE
