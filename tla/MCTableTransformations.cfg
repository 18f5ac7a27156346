SPECIFICATION Spec
CONSTANTS
  Inputs <- MCInputs
  Cells <- Bits
  NewColumns = {"n"}
  RowTransformers <- MCRowTransformers
  RowsOf <- MCRowsOf
  GroupTransformers <- MCGroupTransformers
  RowsOfGroup <- MCRowsOfGroup
  PublicTables <- MCPublicTables
  Thresholds = {0, 1, 2}
  PartitionColumns = {"g", "k"}
  UnwrapEach = {{}}
  MaxRows = 2
  MaxSteps = 2
  MaxOrdered = 3
INVARIANTS
  TypeOK
  Stable
  DomainClosed
PROPERTY
  GroupsStayApart
CHECK_DEADLOCK FALSE
