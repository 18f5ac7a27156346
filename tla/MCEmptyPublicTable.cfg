SPECIFICATION Spec
CONSTANTS
  Inputs <- OneInput
  Cells <- Bits
  NewColumns = {"n"}
  RowTransformers <- MCRowTransformers
  RowsOf <- MCRowsOf
  GroupTransformers <- MCGroupTransformers
  RowsOfGroup <- MCRowsOfGroup
  PublicTables <- NoRows
  Thresholds = {0, 1, 2}
  PartitionColumns = {"g", "k"}
  UnwrapEach = {{}}
  MaxRows = 2
  MaxSteps = 1
  MaxOrdered = 3
INVARIANT
  Stable
CHECK_DEADLOCK FALSE
