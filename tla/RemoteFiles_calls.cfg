SPECIFICATION Spec
CONSTANTS
  Absent = Absent
  Root = Root
  Sub = Sub
  Crt = Crt
  Hash = Hash
  Extra = Extra
  Originals <- MCOriginals
  MaxPiece = 1
  MaxInt = 1
  Faults = {"atf", "server", "slow", "disk", "shrink", "writer", "malformed"}
  MaxRuns = 2
  MaxOps = 3
  MaxFaults = 2
  MaxLog = 2
INVARIANTS TypeOK BackupKept ResultsTrue
PROPERTY OperationEnds
CHECK_DEADLOCK FALSE
