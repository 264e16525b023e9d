SPECIFICATION Spec
CONSTANTS
  Sessions = {s1}
  MaxId = 1
  Streams = {"VIDEO"}
  Flags = {"activate", "send", "answer"}
  Faults = {"timeout", "stopped", "reject"}
  Nil = Nil
  Version = 3
  MaxUses = 2
  MaxCalls = 3
  MaxWire = 2
INVARIANTS
  TypeOK
  SecureMeansReady
  Agreement
  RaisedMeansAnswered
  NoBeatAfterStop
CHECK_DEADLOCK FALSE
