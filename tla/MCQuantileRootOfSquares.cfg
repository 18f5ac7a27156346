SPECIFICATION MeasureSpec
CONSTANTS
  Num <- MCNum
  Bounds <- WideBounds
  Budgets <- OneBudget
  Scales <- MCScales
  Quantiles <- Median
  QuantileOver <- PureOverAll
  Ranks <- MCRanks
  Fractions <- MCFractions
  Growth = 2
  PartitionDeltas <- MCDeltas
  SelectThresholds = {0, 1, 2, 3}
  MaxParts = 1
  Inputs <- RootOfSquares
  Cells <- Bits
  NewColumns = {}
  RowTransformers = {}
  RowsOf <- NoRowsOf
  GroupTransformers = {}
  RowsOfGroup <- NoRowsOf
  PublicTables = {}
  Thresholds = {}
  PartitionColumns = {}
  UnwrapEach = {{}}
  MaxRows = 4
  MaxSteps = 1
  MaxOrdered = 3
INVARIANT
  LossWithinClaim
CHECK_DEADLOCK FALSE
