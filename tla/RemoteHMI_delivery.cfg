SPECIFICATION FairSpec
CHECK_DEADLOCK FALSE
CONSTANTS
  MaxWrites = 2
  MaxReads = 3
  MaxOpens = 1
  MaxStops = 0
  MaxBacklog = 2
  MayDelete = FALSE
  MayDie = FALSE
  Racy = TRUE
PROPERTY
  Delivery
