SPECIFICATION DictSpec
CONSTANTS
  Inputs <- MCInputs
  DictInputs <- MCDictInputs
  DictKeys = {"a", "b", "c"}
  NoKey = "none"
  Strategies <- MCStrategies
  MaxChain = 2
  Cells <- Bits
  NewColumns = {"n"}
  RowTransformers <- MCRowTransformers
  RowsOf <- MCRowsOf
  GroupTransformers <- MCGroupTransformers
  RowsOfGroup <- MCRowsOfGroup
  PublicTables <- MCPublicTables
  Thresholds = {1, 2}
  PartitionColumns = {"id"}
  UnwrapEach = {{}}
  MaxRows = 2
  MaxSteps = 1
  MaxOrdered = 3
INVARIANTS
  DictTypeOK
  DictStable
  DictDomainClosed
PROPERTY
  KeysStayApart
CHECK_DEADLOCK FALSE
