SPECIFICATION Spec
CONSTANTS
  NumSteps = 2
  Slots = {s1, s2}
  Msgs = {"msg", "raw"}
  Frames = {"raw"}
  Signals = {}
  Classes = {"call"}
  Singletons = {}
  Script = {"RaiseEvent", "FailTestCase", "Pin", "Unpin", "Start"}
  Level <- MCLevel
  Matches <- MCMatches
  Cardinals <- MCOnceNever
  Nil = Nil
  ExitOnCrash = TRUE
  CheckAll = FALSE
  MaxOcc = 2
  MaxDepth = 2
SYMMETRY MCSymmetry
INVARIANT TypeOK
 
INVARIANT UnresolvedRegistered
PROPERTY VerdictSound
PROPERTY FailureCharged
