CONSTANTS
  e1 = e1
  e2 = e2
  x1 = x1
  x2 = x2
  Adopted = Adopted
  Orders <- OneEntry
  Intent <- OneEntryIntent
  Faults <- LostAck
  Inherited = 0
  SweepEvery = 1
  MaxNow = 1
  StaleAfter = 1
  MaxQueue = 9
  MaxFaults = 1
  MaxCrashes = 0
  MaxReplays = 0
  MaxPosition = 3
  TickWriteAfter = 1
  Backoff = 1
  BackoffCap = 2
SPECIFICATION Spec
INVARIANT NothingDoubled
CHECK_DEADLOCK FALSE
