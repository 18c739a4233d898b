CONSTANTS
  Quantities <- MCQuantities
  FillSizes  <- MCFillSizes
  MaxGross   = 9
SPECIFICATION Spec
INVARIANTS
  TypeOK
  RecordedIsClampedGross
  FilledMeansCovered
PROPERTY
  OnlyReconciliationRevises
