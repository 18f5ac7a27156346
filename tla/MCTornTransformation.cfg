SPECIFICATION Spec
CONSTANTS
  OutputMeasure = "PureDP"
  Infinite = Infinite
  DeltaOne = 2
  MaxDepth = 1
  MaxFan = 2
  MaxDist = 2
  None = None
  Types <- MCTypes
  Transformations <- TornTransformations
  Measurements <- TornMeasurements
  RootCompositions <- TornRoots
  DistHints <- OnlyNone
  LossHints <- OnlyNone
INVARIANT
  RootLossWithinBudget
