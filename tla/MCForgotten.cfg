CONSTANTS
  e1 = e1
  Adopted = Adopted
  Orders <- OneEntry
  Intent <- SmallEntry
  Faults <- LostAck
  Inherited = 0
  SweepEvery = 1
  MaxNow = 2
  StaleAfter = 0
  MaxQueue = 1
  MaxFaults = 0
  MaxCrashes = 1
  MaxReplays = 0
  MaxPosition = 3
  TickWriteAfter = 1
  Backoff = 1
  BackoffCap = 2
SPECIFICATION FairSpec
PROPERTY UnprovenIsResolved
CHECK_DEADLOCK FALSE
