SPECIFICATION SamplerSpec
CONSTANTS
  Mantissa = 3
  One = 8
  FirstNudge = 9
  MaxExact = 160
  Infinite = Infinite
  Unknown = Unknown
  SelectStep = 4
  MaxIntervals = 3
  Window = 5
  DrawStep = 8
  MaxEdges = 2
  Scales <- MCScales
  Variances <- MCVariances
  SlowBelow = 2
  MaxCoins = 6
INVARIANTS
  SamplerTypeOK
  RoundedClosely
  WinnerStands
  DrawnAsClaimed
PROPERTY
  EventuallyReturns
CHECK_DEADLOCK FALSE
