----------------------------- MODULE MCTestBase -----------------------------
(* Values for the constants of TestBase.  "call" stands for the level 2    *)
(* events most expectations wait for, "link" for the shared connected and  *)
(* disconnected events.  "raw" is a frame: only level 0 events see it, so  *)
(* without one of those it is an event nobody waits for.                   *)
EXTENDS TestBase, TLC

MCLevel == [c \in Classes |-> IF c = "link" THEN 3 ELSE 2]
MCMatches == [c \in Classes |-> IF c = "link" THEN Signals ELSE Msgs \ Signals]
Once == [lo |-> 1, hi |-> 1]
Never == [lo |-> 0, hi |-> 0]
MCOnceNever == {Once, Never}
MCOnce == {Once}
MCSymmetry == Permutations(Slots)
=============================================================================
