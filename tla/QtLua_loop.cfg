SPECIFICATION Spec
CONSTANTS
  Timers = {1}
  Codes = {2}
  ReadSize = 1
  MaxBytes = 2
  MaxOps = 5
  MaxOpens = 2
  MaxBeats = 1
  Oddities = {"error", "close"}
INVARIANTS
  TypeOK
  NothingLost
  FailureKept
PROPERTIES
  QuitEnds
  Served
CHECK_DEADLOCK FALSE
