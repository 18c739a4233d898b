CONSTANTS
  e1 = e1
  e2 = e2
  x1 = x1
  x2 = x2
  Adopted = Adopted
  Orders <- TwoEntries
  Intent <- TwoEntriesIntent
  Faults <- AllFaults
  Inherited = 0
  SweepEvery = 1
  MaxNow = 2
  StaleAfter = 1
  MaxQueue = 9
  MaxFaults = 1
  MaxCrashes = 1
  MaxReplays = 1
  MaxPosition = 3
  TickWriteAfter = 1
  Backoff = 1
  BackoffCap = 2
SPECIFICATION Spec
CONSTRAINT EntryOrReplay
INVARIANTS
  IntentBeforeVenue
  SubmittedOnce
  OneQuestionPerOrder
  FillsAccounted
  OneEntryAtVenue
PROPERTIES
  HaltOutlivesProcess
  ReconcilingUntilAnswered
  ImplementsSubmission
CHECK_DEADLOCK FALSE
