CONSTANTS
  SegmentTarget = 2
  MaxSeq = 4
  MaxClaims = 2
  MaxFailures = 1
  MaxLosses = 1
  BatchSize = 2
  MaxStarts = 2
  MaxRefusals = 1
SPECIFICATION Spec
INVARIANTS TypeOK LogIsGapFree DurableSurvives EpochsAreExclusive ProjectionIsPrefix
CHECK_DEADLOCK FALSE
