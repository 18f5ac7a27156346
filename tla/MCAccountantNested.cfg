SPECIFICATION AccountantSpec
CONSTANTS
  OutputMeasure = "PureDP"
  Infinite = Infinite
  DeltaOne = 1
  MaxDepth = 4
  MaxFan = 2
  MaxDist = 2
  MaxPending = 1
  None = None
  Types <- MCTypes
  Transformations <- NestedTransformations
  Measurements <- NestedMeasurements
  RootCompositions <- NestedRoots
  DistHints <- OnlyNone
  LossHints <- NoLossHints
  Splits <- NestedSplits
  SplitBudgets <- MCSplitBudgets
INVARIANTS
  AccountantTypeOK
  ActiveIsUsable
  ChildrenInOrder
  OneActive
  AgreesWithQueryable
  
