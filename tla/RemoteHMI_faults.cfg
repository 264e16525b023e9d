SPECIFICATION FairSpec
CHECK_DEADLOCK FALSE
CONSTANTS
  MaxWrites = 2
  MaxReads = 2
  MaxOpens = 2
  MaxStops = 1
  MaxBacklog = 2
  MayDelete = TRUE
  MayDie = TRUE
  Racy = TRUE
INVARIANTS
  NoDuplicates LostMeansGone
PROPERTY
  DestroyReturns
