SPECIFICATION FairSpec
CHECK_DEADLOCK FALSE
CONSTANTS
  MaxWrites = 0
  MaxReads = 0
  MaxOpens = 2
  MaxStops = 0
  MaxBacklog = 2
  MayDelete = FALSE
  MayDie = FALSE
  Racy = FALSE
PROPERTY
  StopReturns
