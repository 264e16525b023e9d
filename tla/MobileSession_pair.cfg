SPECIFICATION FairSpec
CONSTANTS
  Sessions = {s1, s2}
  MaxId = 2
  Streams = {}
  Flags = {"activate", "send", "answer"}
  Faults = {}
  Nil = Nil
  Version = 3
  MaxUses = 2
  MaxCalls = 1
  MaxWire = 2
PROPERTIES
  AnswersHeartbeat
  Starts
CHECK_DEADLOCK FALSE
