SPECIFICATION Spec
CONSTANTS
  OutputMeasure = "ApproxDP"
  Infinite = Infinite
  DeltaOne = 3
  MaxDepth = 3
  MaxFan = 2
  MaxDist = 2
  None = None
  Types <- MCTypes
  Transformations <- AccountingTransformations
  Measurements <- AccountingMeasurements
  RootCompositions <- AccountingRoots
  DistHints <- AccountingDistHints
  LossHints <- AccountingLossHints
INVARIANTS
  TypeOK
  NoInterleaving
  SensitivityCovered
  ChargeCovers
  LedgerBalanced
  LossWithinBudget
PROPERTY
  ImplementsAccess
