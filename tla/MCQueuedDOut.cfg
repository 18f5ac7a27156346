SPECIFICATION AccountantSpec
CONSTANTS
  OutputMeasure = "PureDP"
  Infinite = Infinite
  DeltaOne = 1
  MaxDepth = 3
  MaxFan = 2
  MaxDist = 2
  MaxPending = 2
  None = None
  Types <- MCTypes
  Transformations <- QueuedTransformations
  Measurements <- QueuedMeasurements
  RootCompositions <- QueuedRoots
  DistHints <- QueuedDistHints
  LossHints <- QueuedLossHints
  Splits <- QueuedSplits
  SplitBudgets <- MCSplitBudgets
INVARIANT
  QueuedDistanceSufficient
