CONSTANTS
  e1 = e1
  Adopted = Adopted
  Orders <- OneEntry
  Intent <- SmallEntry
  Faults <- SilentFaults
  Inherited = 0
  SweepEvery = 1
  MaxNow = 4
  StaleAfter = 1
  MaxQueue = 2
  MaxFaults = 1
  MaxCrashes = 0
  MaxReplays = 1
  MaxPosition = 3
  TickWriteAfter = 2
  Backoff = 1
  BackoffCap = 2
SPECIFICATION LiveSpec
PROPERTIES
  UnprovenIsResolved
  EndIsLearned
CHECK_DEADLOCK FALSE
