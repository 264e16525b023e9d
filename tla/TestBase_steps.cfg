SPECIFICATION FairSpec
CONSTANTS
  NumSteps = 2
  Slots = {s1, s2}
  Msgs = {"msg", "raw", "connected"}
  Frames = {"raw"}
  Signals = {"connected"}
  Classes = {"call", "link"}
  Singletons = {"link"}
  Script = {"critical", "FailTestCase", "runSDL", "StopSDL", "SkipTest"}
  Level <- MCLevel
  Matches <- MCMatches
  Cardinals <- MCOnce
  Nil = Nil
  ExitOnCrash = TRUE
  CheckAll = FALSE
  MaxOcc = 1
  MaxDepth = 2
INVARIANT StepLedger
INVARIANT ExitHonest
INVARIANT CriticalStops
PROPERTY Terminates
