SPECIFICATION MeasureSpec
CONSTANTS
  Num <- MCNum
  Bounds <- MCBounds
  Budgets <- MCBudgets
  Scales <- MCScales
  Quantiles <- MCQuantiles
  QuantileOver <- PureOver
  Ranks <- MCRanks
  Fractions <- MCFractions
  Growth = 2
  PartitionDeltas <- MCDeltas
  SelectThresholds = {0, 1, 2, 3}
  MaxParts = 2
  Inputs <- MCInputs
  Cells <- Bits
  NewColumns = {}
  RowTransformers = {}
  RowsOf <- NoRowsOf
  GroupTransformers = {}
  RowsOfGroup <- NoRowsOf
  PublicTables = {}
  Thresholds = {}
  PartitionColumns = {}
  UnwrapEach = {{}}
  MaxRows = 2
  MaxSteps = 1
  MaxOrdered = 3
INVARIANTS
  MeasureTypeOK
  LossWithinClaim
  ClaimAsAsked
CHECK_DEADLOCK FALSE
