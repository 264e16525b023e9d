SPECIFICATION Spec
CONSTANTS
  MaxPid = 2
  Faults = {"atf", "server", "busy", "foreign", "nothread", "crash"}
  MaxStarts = 2
  MaxRuns = 2
  MaxOps = 3
  MaxFaults = 2
INVARIANTS TypeOK OneSDL AnswersTrue
PROPERTY Reaped
CHECK_DEADLOCK FALSE
