--------------------------- MODULE TestBaseProofs ---------------------------
(* Proofs about the test executor for every script, every number of steps, *)
(* expectations and events.                                                *)
EXTENDS TestBase, TLAPS

LEMMA ObjWait == \A e \in Obj : WaitFor(e) \in Obj
  BY DEF Obj, WaitFor

LEMMA ValidatedStatus ==
  ASSUME NEW x \in ExpectationType
  PROVE  Validated(x) \in Statuses
  BY DEF Validated, ExpectationType, Statuses, TooMany

LEMMA MadeType ==
  /\ Unused \in ExpectationType
  /\ WaitExpectation \in ExpectationType
  /\ AutoFail \in ExpectationType
  /\ \A c \in Classes : StartExpectation(c) \in ExpectationType
  /\ \A c \in Classes, b \in Cardinals :
        Expectation(c, b) \in ExpectationType
  BY CardinalAssumption, ZenonT(30) DEF Unused, WaitExpectation, AutoFail, StartExpectation,
     Expectation, ExpectationType, Statuses

LEMMA UpdateType ==
  ASSUME NEW x \in ExpectationType
  PROVE  /\ Judged(x) \in ExpectationType
         /\ Older(x) \in ExpectationType
         /\ Watched(x) \in ExpectationType
         /\ Pinned(x) \in ExpectationType
         /\ \A listedNow \in BOOLEAN : Unpinned(x, listedNow) \in ExpectationType
         /\ \A valid \in BOOLEAN : Counted(x, valid) \in ExpectationType
<1>1. Validated(x) \in Statuses
  BY ValidatedStatus
<1>2. Judged(x) \in ExpectationType
  BY <1>1 DEF Judged, ExpectationType
<1>3. Older(x) \in ExpectationType /\ Watched(x) \in ExpectationType
  BY DEF Older, Watched, ExpectationType
<1>4. ASSUME NEW valid \in BOOLEAN PROVE Counted(x, valid) \in ExpectationType
  <2>1. x.occ + 1 \in Nat /\ (x.failed \/ ~valid) \in BOOLEAN
    BY DEF ExpectationType
  <2> QED  BY <2>1 DEF Counted, ExpectationType
<1>5. Pinned(x) \in ExpectationType /\ \A listedNow \in BOOLEAN : Unpinned(x, listedNow) \in ExpectationType
  BY DEF Pinned, Unpinned, ExpectationType
<1> QED  BY <1>2, <1>3, <1>4, <1>5

(* The stack of running actions: a handler pushed, a handler popped.       *)
LEMMA Pushed ==
  ASSUME acting \in Seq(Obj), NEW e \in Obj, acting' = <<e>> \o acting
  PROVE  acting' \in Seq(Obj) /\ e \in Acting' /\ Acting \subseteq Acting'
<1>1. acting' \in Seq(Obj) /\ Len(acting') = Len(acting) + 1
  OBVIOUS
<1>2. acting'[1] = e /\ \A i \in 1..Len(acting) : acting'[i + 1] = acting[i]
  OBVIOUS
<1>3. e \in Acting'
  BY <1>1, <1>2 DEF Acting
<1>4. Acting \subseteq Acting'
  <2> SUFFICES ASSUME NEW i \in 1..Len(acting) PROVE acting[i] \in Acting'
    BY DEF Acting
  <2>1. i + 1 \in 1..Len(acting')
    BY <1>1
  <2>2. acting[i] = acting'[i + 1] /\ DOMAIN acting' = 1..Len(acting')
    BY <1>1, <1>2
  <2> QED  BY <2>1, <2>2 DEF Acting
<1> QED  BY <1>1, <1>3, <1>4

(* RaiseEvent, with or without a handler, keeps the types.                 *)
LEMMA RaiseType ==
  ASSUME exp \in [Obj -> ExpectationType], pool \subseteq Obj, acting \in Seq(Obj),
         NEW m \in Msgs, RaiseHandled(m) \/ RaiseUnhandled(m)
  PROVE  /\ exp' \in [Obj -> ExpectationType]
         /\ acting' \in Seq(Obj)
         /\ pc' \in {"user", "check"}
<1>1. CASE RaiseHandled(m)
  <2>1. PICK e \in Handlers(m), valid \in BOOLEAN :
          /\ exp' = [exp EXCEPT ![e] = Counted(@, valid)]
          /\ pc' = "user" /\ acting' = <<e>> \o acting
    BY <1>1 DEF RaiseHandled
  <2>2. e \in Obj /\ Counted(exp[e], valid) \in ExpectationType
    BY UpdateType DEF Handlers, InPool
  <2>3. acting' \in Seq(Obj)
    BY <2>1, <2>2, Pushed
  <2> QED  BY <2>1, <2>2, <2>3
<1>2. CASE RaiseUnhandled(m)
  BY <1>2 DEF RaiseUnhandled
<1> QED  BY <1>1, <1>2

LEMMA ReturnType ==
  ASSUME acting \in Seq(Obj), Return
  PROVE  acting' \in Seq(Obj)
  BY DEF Return

LEMMA ExpNowType ==
  ASSUME exp \in [Obj -> ExpectationType]
  PROVE  ExpNow \in [Obj -> ExpectationType]
  BY MadeType, UpdateType DEF ExpNow

LEMMA NewWaitsType ==
  ASSUME list \subseteq Obj
  PROVE  NewWaits \subseteq Obj
  BY ObjWait DEF NewWaits, Delayed

(* Every variable of the executor keeps its type.  index stays in bounds   *)
(* because next() is queued only while a step or the end of the script is  *)
(* due, so the type invariant needs that fact to be inductive.             *)
NextDue ==
  /\ running => next = 0 /\ index >= 1 /\ index <= NumSteps
  /\ next > 0 => next = 1 /\ index <= NumSteps

LEMMA TypeInit == Init => TypeOK /\ NextDue
<1> SUFFICES ASSUME Init PROVE TypeOK /\ NextDue
  OBVIOUS
<1>1. exp \in [Obj -> ExpectationType]
  BY MadeType DEF Init
<1>2. verdict \in [1..NumSteps -> {"none", "passed", "failed", "critical"}]
  BY DEF Init
<1>3. NextDue /\ index \in 0..(NumSteps + 1) /\ next \in Nat /\ acting \in Seq(Obj)
  BY StepsAssumption DEF Init, NextDue
<1>4. pool \subseteq Obj /\ list \subseteq Obj /\ timers \subseteq Obj
  BY DEF Init
<1> QED  BY <1>1, <1>2, <1>3, <1>4 DEF Init, TypeOK

LEMMA TypeStep == TypeOK /\ NextDue /\ [Next]_vars => TypeOK' /\ NextDue'
<1> SUFFICES ASSUME TypeOK, NextDue, [Next]_vars
             PROVE  TypeOK' /\ NextDue'
  OBVIOUS
<1> USE StepsAssumption
<1>1. CASE Tick
  BY <1>1 DEF Tick, TypeOK, NextDue, stepVars, sdlVars
<1>2. ASSUME NEW m \in Msgs, Receive(m) PROVE TypeOK' /\ NextDue'
  <2>1. exp' \in [Obj -> ExpectationType] /\ acting' \in Seq(Obj) /\ pc' \in {"user", "check"}
    BY <1>2, RaiseType DEF Receive, TypeOK
  <2> QED  BY <1>2, <2>1 DEF Receive, TypeOK, NextDue, stepVars, sdlVars
<1>3. ASSUME NEW w \in Obj, WaitTimer(w) PROVE TypeOK' /\ NextDue'
  <2>1. Counted(exp[w], TRUE) \in ExpectationType
    BY UpdateType DEF TypeOK
  <2> QED  BY <1>3, <2>1, ZenonT(30) DEF WaitTimer, TypeOK, NextDue, stepVars, sdlVars
<1>4. ASSUME NEW e \in Obj, Age(e) PROVE TypeOK' /\ NextDue'
  <2>1. Older(exp[e]) \in ExpectationType
    BY UpdateType DEF TypeOK
  <2> QED  BY <1>4, <2>1 DEF Age, TypeOK, NextDue, stepVars, sdlVars
<1>5. CASE RunNextCase
  <2>1. index' \in 0..(NumSteps + 1) /\ next' \in Nat /\ NextDue'
    BY <1>5 DEF RunNextCase, TypeOK, NextDue
  <2> QED  BY <1>5, <2>1 DEF RunNextCase, TypeOK, sdlVars
<1>6. CASE FinishTestCaseRun
  <2>1. index' \in 0..(NumSteps + 1) /\ next' \in Nat /\ NextDue'
    BY <1>6 DEF FinishTestCaseRun, TypeOK, NextDue
  <2> QED  BY <1>6, <2>1 DEF FinishTestCaseRun, TypeOK
<1>7. CASE ExitLoop
  BY <1>7 DEF ExitLoop, TypeOK, NextDue, stepVars, sdlVars
<1>8. CASE UserReturn
  BY <1>8, ReturnType DEF UserReturn, Return, TypeOK, NextDue, stepVars, sdlVars
<1>9. ASSUME NEW s \in Slots, NEW c \in Classes, NEW b \in Cardinals,
             AddExpectation(s, c, b)
      PROVE  TypeOK' /\ NextDue'
  <2>1. <<s, "exp">> \in Obj
    BY DEF Obj
  <2>2. Expectation(c, b) \in ExpectationType
    BY MadeType
  <2>3. exp' \in [Obj -> ExpectationType]
    BY <1>9, <2>1, <2>2 DEF AddExpectation, TypeOK
  <2>4. pool' \subseteq Obj /\ list' \subseteq Obj
    BY <1>9, <2>1 DEF AddExpectation, Added, TypeOK
  <2> QED  BY <1>9, <2>3, <2>4 DEF AddExpectation, TypeOK, NextDue, stepVars, sdlVars
<1>10. ASSUME NEW s \in Slots, NEW c \in Classes, AddUnlisted(s, c)
       PROVE  TypeOK' /\ NextDue'
  <2>1. <<s, "exp">> \in Obj
    BY DEF Obj
  <2> QED  BY <1>10, <2>1, MadeType DEF AddUnlisted, Added, TypeOK, NextDue, stepVars, sdlVars
<1>11. ASSUME NEW m \in Msgs, RaiseNested(m) PROVE TypeOK' /\ NextDue'
  <2>1. exp' \in [Obj -> ExpectationType] /\ acting' \in Seq(Obj) /\ pc' \in {"user", "check"}
    BY <1>11, RaiseType DEF RaiseNested, TypeOK
  <2> QED  BY <1>11, <2>1 DEF RaiseNested, TypeOK, NextDue, stepVars, sdlVars
<1>12. ASSUME NEW s \in Slots, FailTestCase(s) PROVE TypeOK' /\ NextDue'
  <2>1. <<s, "exp">> \in Obj
    BY DEF Obj
  <2> QED  BY <1>12, <2>1, MadeType DEF FailTestCase, TypeOK, NextDue, stepVars, sdlVars
<1>13. ASSUME NEW val \in BOOLEAN, Critical(val) PROVE TypeOK' /\ NextDue'
  BY <1>13 DEF Critical, TypeOK, NextDue, stepVars, sdlVars
<1>14. ASSUME NEW code \in {"skipped", "aborted"}, Quit(code) PROVE TypeOK' /\ NextDue'
  BY <1>14 DEF Quit, TypeOK, NextDue, stepVars, sdlVars
<1>15. CASE RunSDL
  BY <1>15 DEF RunSDL, TypeOK, NextDue, stepVars
<1>16. CASE StopSDL
  BY <1>16 DEF StopSDL, TypeOK, NextDue, stepVars
<1>17. CASE ValidateAll
  <2>1. \A x \in Obj : Judged(exp[x]) \in ExpectationType
    BY UpdateType DEF TypeOK
  <2> QED  BY <1>17, <2>1 DEF ValidateAll, TypeOK, NextDue, stepVars, sdlVars
<1>18. CASE CheckNoStep
  BY <1>18, ReturnType DEF CheckNoStep, Return, TypeOK, NextDue, stepVars, sdlVars
<1>19. CASE CheckNotYet
  BY <1>19, ReturnType, ExpNowType, NewWaitsType, ConfigAssumption
     DEF CheckNotYet, CompletedNow, Unresolved, ListNow, PoolNow, MandatoryNow, Return, TypeOK, NextDue
<1>20. CASE Finalise
  <2>1. /\ MandatoryNow \in BOOLEAN
        /\ TotalNow \in BOOLEAN
        /\ ExitNow \in {"none", "ok", "failed", "skipped", "aborted"}
    BY ConfigAssumption DEF MandatoryNow, TotalNow, AllSucceeded, ExitNow, TypeOK
  <2>2. next' \in Nat /\ acting' \in Seq(Obj) /\ NextDue'
    BY <1>20, ReturnType DEF Finalise, TypeOK, NextDue
  <2>3. verdict' \in [1..NumSteps -> {"none", "passed", "failed", "critical"}]
    BY <1>20 DEF Finalise, TypeOK
  <2>4. exp' \in [Obj -> ExpectationType]
    BY <1>20, ExpNowType DEF Finalise, TypeOK
  <2>5. pool' \subseteq Obj /\ list' \subseteq Obj /\ timers' \subseteq Obj
    BY <1>20, NewWaitsType DEF Finalise, PoolNow, TypeOK
  <2>6. autoStarted' \in BOOLEAN
    BY <1>20 DEF Finalise
  <2> QED  BY <1>20, <2>1, <2>2, <2>3, <2>4, <2>5, <2>6 DEF Finalise, Return, TypeOK
<1>21. CASE SDLCrash
  BY <1>21 DEF SDLCrash, TypeOK, NextDue, stepVars
<1>22. CASE UNCHANGED vars
  BY <1>22 DEF vars, TypeOK, NextDue
<1>23. ASSUME NEW s \in Slots, Pin(s) \/ Unpin(s) PROVE TypeOK' /\ NextDue'
  <2>1. <<s, "exp">> \in Obj
    BY DEF Obj
  <2>2. /\ Pinned(exp[<<s, "exp">>]) \in ExpectationType
        /\ Unpinned(exp[<<s, "exp">>], <<s, "exp">> \in list) \in ExpectationType
    <3>1. (<<s, "exp">> \in list) \in BOOLEAN
      OBVIOUS
    <3> QED  BY <2>1, <3>1, UpdateType DEF TypeOK
  <2>3. exp' \in [Obj -> ExpectationType]
    BY <1>23, <2>1, <2>2 DEF Pin, Unpin, TypeOK
  <2> QED  BY <1>23, <2>3 DEF Pin, Unpin, TypeOK, NextDue, stepVars, sdlVars
<1> QED
  BY <1>1, <1>2, <1>3, <1>4, <1>5, <1>6, <1>7, <1>8, <1>9, <1>10, <1>11, <1>12, <1>13,
     <1>14, <1>15, <1>16, <1>17, <1>18, <1>19, <1>20, <1>21, <1>22, <1>23
     DEF Next, Loop, UserCode, CheckStatus, Environment, Terminated

(* The type invariant of the executor, for every script.                   *)
THEOREM TypeCorrect == Spec => []TypeOK
<1>1. Init => TypeOK /\ NextDue
  BY TypeInit
<1>2. TypeOK /\ NextDue /\ [Next]_vars => TypeOK' /\ NextDue'
  BY TypeStep
<1> QED  BY <1>1, <1>2, PTL DEF Spec

-----------------------------------------------------------------------------
(* The ledger of the run.  StepLedger is inductive with NextDue; the exit  *)
(* code needs to know that total_testset_result mirrors the verdicts as    *)
(* long as nobody has called quit(), and that nothing runs any more once   *)
(* finishTestCaseRun has.                                                  *)
TotalMirrors ==
  exit = "none" => (total <=> \A i \in 1..NumSteps : verdict[i] \in {"none", "passed"})
Finished == exit \in {"ok", "failed"} => pc \in {"idle", "exited"}
CriticalQuits ==
  ExitOnCrash => \A i \in 1..NumSteps : verdict[i] = "critical" => exit # "none" /\ i = index

LedgerInv == StepLedger /\ ExitHonest /\ TotalMirrors /\ Finished /\ CriticalQuits

(* A step that changes nothing the ledger looks at.                        *)
Quiet ==
  /\ UNCHANGED <<index, running, next, total, exit, verdict>>
  /\ exit \in {"ok", "failed"} => pc' \in {"idle", "exited"}

LEMMA LedgerQuiet == LedgerInv /\ Quiet => LedgerInv'
  BY DEF LedgerInv, StepLedger, ExitHonest, TotalMirrors, Finished, CriticalQuits, Quiet

LEMMA QuietSteps ==
  ASSUME Finished, [Next]_vars
  PROVE  \/ Quiet \/ RunNextCase \/ FinishTestCaseRun \/ Finalise \/ RunSDL
         \/ \E code \in {"skipped", "aborted"} : Quit(code)
<1>1. CASE UserCode
  BY <1>1 DEF Finished, UserCode, UserReturn, AddExpectation, Pin, Unpin, AddUnlisted, RaiseNested,
     FailTestCase, Critical, StopSDL, Quiet, stepVars
<1>2. CASE Loop
  BY <1>2 DEF Finished, Loop, Tick, Receive, WaitTimer, ExitLoop, InLoop, Quiet, stepVars
<1>3. CASE ValidateAll
  BY <1>3 DEF Finished, ValidateAll, Quiet, stepVars
<1>4. CASE CheckStatus
  BY <1>4 DEF Finished, CheckStatus, CheckNoStep, CheckNotYet, Quiet, stepVars
<1>5. CASE Environment
  BY <1>5 DEF Finished, Environment, SDLCrash, Age, Quiet, stepVars
<1>6. CASE UNCHANGED vars
  BY <1>6 DEF Finished, Quiet, vars
<1> QED  BY <1>1, <1>2, <1>3, <1>4, <1>5, <1>6 DEF Next, Terminated

LEMMA LedgerFinalise == TypeOK /\ NextDue /\ LedgerInv /\ Finalise => LedgerInv'
<1> SUFFICES ASSUME TypeOK, NextDue, LedgerInv, Finalise
             PROVE  LedgerInv'
  OBVIOUS
<1> USE StepsAssumption, ConfigAssumption
<1>1. /\ index \in 1..NumSteps /\ index' = index
      /\ next = 0 /\ next' = 1 /\ running /\ ~running'
      /\ exit \notin {"ok", "failed"}
      /\ exit' \in {exit, "aborted"}
      /\ total' <=> total /\ AllSucceeded
  <2>1. /\ index \in 1..NumSteps /\ index' = index
        /\ next = 0 /\ next' = 1 /\ running /\ ~running'
    BY DEF Finalise, TypeOK, NextDue
  <2>2. exit \notin {"ok", "failed"} /\ exit' \in {exit, "aborted"}
    BY DEF Finalise, LedgerInv, Finished, ExitNow
  <2>3. total' <=> total /\ AllSucceeded
    BY DEF Finalise, TotalNow
  <2> QED  BY <2>1, <2>2, <2>3
<1>2. /\ \A i \in 1..NumSteps : i # index => verdict'[i] = verdict[i]
      /\ verdict'[index] \in {"passed", "failed", "critical"}
      /\ verdict'[index] = "passed" <=> Success
      /\ verdict'[index] = "critical" <=> StepStops
  BY <1>1 DEF Finalise, TypeOK, StepStops
<1>3. exit' = "none" => exit = "none" /\ (Success <=> AllSucceeded)
  BY DEF Finalise, ExitNow, StepStops, Success, MandatoryNow
<1>4. ExitOnCrash /\ StepStops => exit' = "aborted"
  BY DEF Finalise, ExitNow
<1>5. StepLedger'
  BY <1>1, <1>2 DEF StepLedger, LedgerInv, TypeOK
<1>6. TotalMirrors'
  <2> SUFFICES ASSUME exit' = "none"
               PROVE  total' <=> \A i \in 1..NumSteps : verdict'[i] \in {"none", "passed"}
    BY DEF TotalMirrors
  <2>1. total <=> \A i \in 1..NumSteps : verdict[i] \in {"none", "passed"}
    BY <1>3 DEF LedgerInv, TotalMirrors
  <2>2. verdict[index] = "none"
    BY <1>1 DEF LedgerInv, StepLedger, TypeOK
  <2> QED  BY <1>1, <1>2, <1>3, <2>1, <2>2
<1>7. CriticalQuits'
  BY <1>1, <1>2, <1>4 DEF CriticalQuits, LedgerInv, StepLedger, TypeOK
<1> QED  BY <1>1, <1>5, <1>6, <1>7 DEF LedgerInv, ExitHonest, Finished

LEMMA LedgerStep == TypeOK /\ NextDue /\ LedgerInv /\ [Next]_vars => LedgerInv'
<1> SUFFICES ASSUME TypeOK, NextDue, LedgerInv, [Next]_vars
             PROVE  LedgerInv'
  OBVIOUS
<1> USE StepsAssumption
<1>1. CASE Quiet
  BY <1>1, LedgerQuiet
<1>2. CASE RunNextCase
  BY <1>2 DEF RunNextCase, InLoop, TypeOK, NextDue, LedgerInv, StepLedger, ExitHonest,
     TotalMirrors, Finished, CriticalQuits
<1>3. CASE FinishTestCaseRun
  <2>1. \A i \in 1..NumSteps : verdict[i] # "none" /\ verdict'[i] = verdict[i]
    BY <1>3 DEF FinishTestCaseRun, TypeOK, NextDue, LedgerInv, StepLedger
  <2>2. /\ exit = "none" /\ exit' \in {"ok", "failed"} /\ pc' = "idle"
        /\ exit' = "ok" <=> total
    BY <1>3 DEF FinishTestCaseRun, InLoop, TypeOK
  <2>3. StepLedger'
    BY <1>3, <2>1 DEF FinishTestCaseRun, TypeOK, NextDue, LedgerInv, StepLedger
  <2>4. ExitHonest'
    BY <2>1, <2>2 DEF ExitHonest, LedgerInv, TotalMirrors, TypeOK
  <2>5. CriticalQuits'
    BY <2>1, <2>2 DEF CriticalQuits, LedgerInv
  <2> QED  BY <2>2, <2>3, <2>4, <2>5 DEF LedgerInv, TotalMirrors, Finished
<1>4. CASE Finalise
  BY <1>4, LedgerFinalise
<1>5. CASE RunSDL
  BY <1>5 DEF RunSDL, stepVars, LedgerInv, StepLedger, ExitHonest, TotalMirrors, Finished, CriticalQuits
<1>6. CASE \E code \in {"skipped", "aborted"} : Quit(code)
  BY <1>6 DEF Quit, stepVars, LedgerInv, StepLedger, ExitHonest, TotalMirrors, Finished, CriticalQuits
<1> QED  BY <1>1, <1>2, <1>3, <1>4, <1>5, <1>6, QuietSteps DEF LedgerInv

LEMMA LedgerHolds == Spec => [](TypeOK /\ NextDue /\ LedgerInv)
<1>1. Init => TypeOK /\ NextDue /\ LedgerInv
  BY TypeInit, StepsAssumption DEF Init, LedgerInv, StepLedger, ExitHonest, TotalMirrors, Finished, CriticalQuits
<1>2. TypeOK /\ NextDue /\ LedgerInv /\ [Next]_vars => (TypeOK /\ NextDue /\ LedgerInv)'
  BY TypeStep, LedgerStep
<1> QED  BY <1>1, <1>2, PTL DEF Spec

(* Steps run one at a time, in order, and each gets exactly one verdict.   *)
THEOREM LedgerKept == Spec => []StepLedger
<1>1. TypeOK /\ NextDue /\ LedgerInv => StepLedger
  BY DEF LedgerInv
<1> QED  BY <1>1, LedgerHolds, PTL

(* The exit code agrees with the verdicts.                                 *)
THEOREM ExitCodeHonest == Spec => []ExitHonest
<1>1. TypeOK /\ NextDue /\ LedgerInv => ExitHonest
  BY DEF LedgerInv
<1> QED  BY <1>1, LedgerHolds, PTL

(* With ExitOnCrash set, no step runs after a critical one has failed.     *)
THEOREM CriticalStopsRun == ASSUME ExitOnCrash PROVE Spec => []CriticalStops
<1>1. TypeOK /\ NextDue /\ LedgerInv => CriticalStops
  BY DEF LedgerInv, CriticalQuits, CriticalStops
<1> QED  BY <1>1, LedgerHolds, PTL

-----------------------------------------------------------------------------
(* The verdict of a step is sound, for every script in which every         *)
(* expectation has an event object of its own (no Singletons) and with     *)
(* config.checkAllValidations at its default, FALSE.  With it, a failed    *)
(* ValidIf short of the upper bound is passed over; with a shared event    *)
(* object an expectation loses its handler and is never validated again.   *)

Settled(x) == x.status = "SUCCESS" => Satisfied(x)
AllSettled == \A x \in pool : x \in Acting \/ Settled(exp[x])

(* The inductive invariant behind VerdictSound: a status may lag behind the*)
(* occurrences only between the start of the handler's action and the next *)
(* validateAll.  A CheckStatus in that gap comes from FailTestCase or from *)
(* an event nobody waits for, and the handler is then in the stack.        *)
LowMet == \A x \in Obj : exp[x].status = "SUCCESS" => exp[x].occ >= exp[x].lo
Registered == \A x \in list : x \in pool \/ exp[x].status = "FAILED"
WaitKept == \A x \in list : IsZero(exp[x]) => exp[x].delay \/ WaitFor(x) \in list
WaitLow == \A x \in Obj : exp[WaitFor(x)].lo = 1
Fresh ==
  /\ pc = "idle" => acting = <<>>
  /\ pc \in {"idle", "user", "check"} => AllSettled

VerdictInv == LowMet /\ Registered /\ WaitKept /\ WaitLow /\ Fresh

-----------------------------------------------------------------------------
(* What each update of an expectation keeps.                               *)

LEMMA CountedKeeps ==
  ASSUME NEW x \in ExpectationType, NEW valid \in BOOLEAN
  PROVE  LET y == Counted(x, valid)
         IN /\ y.status = x.status /\ y.lo = x.lo /\ y.hi = x.hi /\ y.delay = x.delay
            /\ y.occ = x.occ + 1
  BY DEF Counted, ExpectationType

LEMMA OlderKeeps ==
  ASSUME NEW x \in ExpectationType
  PROVE  LET y == Older(x)
         IN /\ y.status = x.status /\ y.lo = x.lo /\ y.hi = x.hi /\ y.delay = x.delay
            /\ y.occ = x.occ /\ y.failed = x.failed
  BY DEF Older, ExpectationType

LEMMA WatchedKeeps ==
  ASSUME NEW x \in ExpectationType
  PROVE  LET y == Watched(x)
         IN /\ y.status = x.status /\ y.lo = x.lo /\ y.hi = x.hi
            /\ y.occ = x.occ /\ y.failed = x.failed
  BY DEF Watched, ExpectationType

(* Pin() and Unpin() change the two flags of one expectation.              *)
LEMMA PinStep ==
  ASSUME TypeOK, NEW s \in Slots, Pin(s) \/ Unpin(s), NEW x \in Obj
  PROVE  /\ exp'[x].status = exp[x].status /\ exp'[x].lo = exp[x].lo
         /\ exp'[x].hi = exp[x].hi /\ exp'[x].delay = exp[x].delay
         /\ exp'[x].occ = exp[x].occ /\ exp'[x].failed = exp[x].failed
         /\ exp'[x].made = exp[x].made /\ exp'[x].listed = exp[x].listed
         /\ \/ exp'[x].pinned = exp[x].pinned /\ exp'[x].released = exp[x].released
            \/ exp'[x].pinned \/ exp'[x].released \/ x \in list
<1>1. exp[x] \in ExpectationType /\ <<s, "exp">> \in Obj
  BY DEF Obj, TypeOK
<1>2. CASE x # <<s, "exp">>
  <2>1. exp'[x] = exp[x]
    BY <1>1, <1>2 DEF Pin, Unpin, TypeOK
  <2> QED  BY <2>1
<1>3. CASE Pin(s) /\ x = <<s, "exp">>
  <2>1. exp'[x] = Pinned(exp[x])
    BY <1>1, <1>3 DEF Pin, TypeOK
  <2> QED  BY <1>1, <2>1 DEF Pinned, ExpectationType
<1>4. CASE Unpin(s) /\ x = <<s, "exp">>
  <2>1. exp'[x] = Unpinned(exp[x], x \in list)
    BY <1>1, <1>4 DEF Unpin, TypeOK
  <2> QED  BY <1>1, <2>1 DEF Unpinned, ExpectationType
<1> QED  BY <1>2, <1>3, <1>4

LEMMA JudgedKeeps ==
  ASSUME NEW x \in ExpectationType
  PROVE  LET y == Judged(x)
         IN /\ y.status = Validated(x) /\ y.lo = x.lo /\ y.hi = x.hi /\ y.delay = x.delay
            /\ y.occ = x.occ /\ y.failed = x.failed
  BY DEF Judged, ExpectationType

(* validate() leaves SUCCESS only to a satisfied expectation, and never    *)
(* takes FAILED back.                                                      *)
LEMMA ValidatedSound ==
  ASSUME NEW x \in ExpectationType, ~CheckAll,
         x.status = "SUCCESS" => x.occ >= x.lo
  PROVE  /\ Validated(x) = "SUCCESS" => Satisfied(x)
         /\ x.status = "FAILED" => Validated(x) = "FAILED"
  BY DEF Validated, Satisfied, TooMany, ExpectationType, Statuses

LEMMA JudgedSound ==
  ASSUME NEW x \in ExpectationType, ~CheckAll,
         x.status = "SUCCESS" => x.occ >= x.lo
  PROVE  /\ Settled(Judged(x))
         /\ Judged(x).status = "SUCCESS" => Judged(x).occ >= Judged(x).lo
         /\ x.status = "FAILED" => Judged(x).status = "FAILED"
<1>1. Satisfied(Judged(x)) <=> Satisfied(x)
  BY JudgedKeeps DEF Satisfied, TooMany
<1> QED  BY <1>1, JudgedKeeps, ValidatedSound DEF Settled, Satisfied

(* What a new expectation looks like.                                      *)
LEMMA MadeFields ==
  /\ WaitExpectation.status = "none" /\ WaitExpectation.lo = 1
  /\ AutoFail.status = "FAILED" /\ AutoFail.lo = 1
  /\ \A c \in Classes : StartExpectation(c).status = "none" /\ StartExpectation(c).lo = 1
  /\ \A c \in Classes, b \in Cardinals :
        /\ Expectation(c, b).status = "none"
        /\ Expectation(c, b).delay = IsZero(Expectation(c, b))
  BY DEF WaitExpectation, AutoFail, StartExpectation, Expectation, Unused, IsZero

LEMMA ExpNowFields ==
  ASSUME TypeOK
  PROVE  \A x \in Obj :
           \/ x \in NewWaits /\ ExpNow[x] = WaitExpectation
           \/ /\ x \notin NewWaits
              /\ ExpNow[x].status = exp[x].status
              /\ ExpNow[x].lo = exp[x].lo /\ ExpNow[x].hi = exp[x].hi
              /\ ExpNow[x].occ = exp[x].occ /\ ExpNow[x].failed = exp[x].failed
              /\ x \notin Delayed => ExpNow[x].delay = exp[x].delay
<1> SUFFICES ASSUME NEW x \in Obj, x \notin NewWaits
             PROVE  /\ ExpNow[x].status = exp[x].status
                    /\ ExpNow[x].lo = exp[x].lo /\ ExpNow[x].hi = exp[x].hi
                    /\ ExpNow[x].occ = exp[x].occ /\ ExpNow[x].failed = exp[x].failed
                    /\ x \notin Delayed => ExpNow[x].delay = exp[x].delay
  BY DEF ExpNow
<1>1. exp[x] \in ExpectationType
  BY DEF TypeOK
<1>2. ExpNow[x] = IF x \in Delayed THEN Watched(exp[x]) ELSE exp[x]
  BY DEF ExpNow
<1> QED  BY <1>1, <1>2, WatchedKeeps

-----------------------------------------------------------------------------
LEMMA VerdictInit == Init => VerdictInv
<1> SUFFICES ASSUME Init PROVE VerdictInv
  OBVIOUS
<1>1. \A x \in Obj : exp[x].status = "none" /\ exp[x].lo = 1
  BY DEF Init, Unused
<1>2. WaitLow
  BY <1>1, ObjWait DEF WaitLow
<1> QED  BY <1>1, <1>2 DEF Init, VerdictInv, LowMet, Registered, WaitKept, Fresh, AllSettled

(* A step that changes no expectation, the pool or the list.               *)
LEMMA VerdictUnchanged ==
  ASSUME VerdictInv, UNCHANGED <<exp, pool, list>>, Fresh'
  PROVE  VerdictInv'
  BY DEF VerdictInv, LowMet, Registered, WaitKept, WaitLow

(* RaiseEvent with a handler: the status of the handler is now stale.      *)
LEMMA VerdictRaise ==
  ASSUME TypeOK, VerdictInv, AllSettled, NEW m \in Msgs, RaiseHandled(m),
         UNCHANGED <<pool, list>>
  PROVE  VerdictInv'
<1>1. PICK e \in Handlers(m), valid \in BOOLEAN :
        /\ exp' = [exp EXCEPT ![e] = Counted(@, valid)]
        /\ pc' = "user" /\ acting' = <<e>> \o acting
  BY DEF RaiseHandled
<1>2. e \in pool /\ e \in Obj /\ exp[e] \in ExpectationType
  BY DEF Handlers, InPool, TypeOK
<1>3. \A x \in Obj : /\ exp'[x].status = exp[x].status /\ exp'[x].lo = exp[x].lo
                     /\ exp'[x].hi = exp[x].hi /\ exp'[x].delay = exp[x].delay
                     /\ exp'[x].occ >= exp[x].occ
  <2> SUFFICES ASSUME NEW x \in Obj
               PROVE  /\ exp'[x].status = exp[x].status /\ exp'[x].lo = exp[x].lo
                      /\ exp'[x].hi = exp[x].hi /\ exp'[x].delay = exp[x].delay
                      /\ exp'[x].occ >= exp[x].occ
    OBVIOUS
  <2>1. exp'[x] = IF x = e THEN Counted(exp[e], valid) ELSE exp[x]
    BY <1>1, <1>2 DEF TypeOK
  <2>2. exp[x].occ \in Nat
    BY DEF TypeOK, ExpectationType
  <2> QED  BY <1>2, <2>1, <2>2, CountedKeeps
<1>4. Fresh'
  <2>1. e \in Acting' /\ Acting \subseteq Acting'
    BY <1>1, <1>2, Pushed DEF TypeOK
  <2>2. \A x \in pool : x # e => exp'[x] = exp[x]
    BY <1>1, <1>2 DEF TypeOK
  <2>3. AllSettled'
    BY <2>1, <2>2 DEF AllSettled
  <2> QED  BY <1>1, <2>3 DEF Fresh
<1>5. LowMet'
  <2> SUFFICES ASSUME NEW x \in Obj, exp'[x].status = "SUCCESS"
               PROVE  exp'[x].occ >= exp'[x].lo
    BY DEF LowMet
  <2>1. /\ exp[x].occ \in Nat /\ exp[x].lo \in Nat /\ exp'[x].occ \in Nat
        /\ exp[x].occ >= exp[x].lo
    <3>1. exp[x] \in ExpectationType
      BY DEF TypeOK
    <3>2. exp'[x] \in ExpectationType
      BY <1>1, <1>2, <3>1, UpdateType DEF TypeOK
    <3> QED  BY <1>3, <3>1, <3>2 DEF ExpectationType, VerdictInv, LowMet
  <2> QED  BY <1>3, <2>1
<1>6. WaitLow'
  BY <1>3, ObjWait DEF VerdictInv, WaitLow
<1>7. Registered' /\ WaitKept'
  BY <1>3 DEF VerdictInv, Registered, WaitKept, IsZero, TypeOK
<1> QED  BY <1>4, <1>5, <1>6, <1>7 DEF VerdictInv

(* A script adds an expectation.                                           *)
LEMMA VerdictAdd ==
  ASSUME Singletons = {}, TypeOK, VerdictInv, pc = "user", UNCHANGED <<pc, acting>>,
         NEW s \in Slots, NEW c \in Classes, NEW new \in ExpectationType,
         exp' = [exp EXCEPT ![<<s, "exp">>] = new],
         new.status = "none", IsZero(new) => new.delay,
         pool' = Added(<<s, "exp">>, c), list' \subseteq list \cup {<<s, "exp">>},
         list \subseteq list'
  PROVE  VerdictInv'
<1>1. <<s, "exp">> \in Obj /\ pool' = pool \cup {<<s, "exp">>}
  BY DEF Obj, Added
<1>2. \A x \in Obj : exp'[x] = IF x = <<s, "exp">> THEN new ELSE exp[x]
  BY <1>1 DEF TypeOK
<1>3. WaitLow'
  <2> SUFFICES ASSUME NEW x \in Obj PROVE exp'[WaitFor(x)].lo = 1
    BY DEF WaitLow
  <2>1. WaitFor(x) \in Obj /\ WaitFor(x) # <<s, "exp">>
    BY ObjWait DEF WaitFor
  <2> QED  BY <1>2, <2>1 DEF VerdictInv, WaitLow
<1>4. Fresh'
  BY <1>1, <1>2 DEF VerdictInv, Fresh, AllSettled, Acting, Settled, TypeOK
<1> QED  BY <1>1, <1>2, <1>3, <1>4 DEF VerdictInv, LowMet, Registered, WaitKept, TypeOK

(* validateAll brings every registered status up to date.                  *)
LEMMA VerdictValidate == ~CheckAll /\ TypeOK /\ VerdictInv /\ ValidateAll => VerdictInv'
<1> SUFFICES ASSUME ~CheckAll, TypeOK, VerdictInv, ValidateAll
             PROVE  VerdictInv'
  OBVIOUS
<1>1. /\ \A x \in Obj : exp'[x] = IF x \in pool THEN Judged(exp[x]) ELSE exp[x]
      /\ pc' = "check"
      /\ UNCHANGED <<pool, list>>
  BY DEF ValidateAll
<1>2. \A x \in Obj : /\ exp[x] \in ExpectationType
                     /\ exp[x].status = "SUCCESS" => exp[x].occ >= exp[x].lo
  BY DEF TypeOK, VerdictInv, LowMet
<1>3. \A x \in Obj : /\ Settled(Judged(exp[x]))
                     /\ Judged(exp[x]).status = "SUCCESS" => Judged(exp[x]).occ >= Judged(exp[x]).lo
                     /\ exp[x].status = "FAILED" => Judged(exp[x]).status = "FAILED"
                     /\ Judged(exp[x]).lo = exp[x].lo
                     /\ Judged(exp[x]).hi = exp[x].hi
                     /\ Judged(exp[x]).delay = exp[x].delay
  BY <1>2, JudgedSound, JudgedKeeps
<1>4. AllSettled'
  BY <1>1, <1>3 DEF AllSettled, TypeOK
<1>5. LowMet'
  BY <1>1, <1>2, <1>3 DEF LowMet
<1>6. WaitLow'
  BY <1>1, <1>3, ObjWait DEF VerdictInv, WaitLow
<1>7. Registered' /\ WaitKept'
  BY <1>1, <1>3 DEF VerdictInv, Registered, WaitKept, IsZero, TypeOK
<1> QED  BY <1>1, <1>4, <1>5, <1>6, <1>7 DEF VerdictInv, Fresh

(* Both ways CheckStatus leaves a running step: the "Wait" expectations    *)
(* come in, and the list and the pool stay or shrink together.             *)
LEMMA VerdictCheck ==
  ASSUME TypeOK, VerdictInv, pc = "check", Return, exp' = ExpNow,
         pool' \subseteq PoolNow,
         list' = {} \/ (list' = ListNow /\ pool' = PoolNow)
  PROVE  VerdictInv'
<1>1. \A x \in Obj :
        \/ x \in NewWaits /\ exp'[x].status = "none" /\ exp'[x].lo = 1
        \/ /\ x \notin NewWaits
           /\ exp'[x].status = exp[x].status
           /\ exp'[x].lo = exp[x].lo /\ exp'[x].hi = exp[x].hi
           /\ exp'[x].occ = exp[x].occ /\ exp'[x].failed = exp[x].failed
           /\ x \notin Delayed => exp'[x].delay = exp[x].delay
  BY ExpNowFields, MadeFields
<1>2. NewWaits \subseteq Obj
  BY NewWaitsType DEF TypeOK
<1>3. LowMet'
  BY <1>1 DEF VerdictInv, LowMet
<1>4. WaitLow'
  BY <1>1, ObjWait DEF VerdictInv, WaitLow
<1>5. Registered'
  BY <1>1, <1>2 DEF VerdictInv, Registered, ListNow, PoolNow, TypeOK
<1>6. WaitKept'
  <2> SUFFICES ASSUME NEW x \in list', IsZero(exp'[x]), ~exp'[x].delay
               PROVE  WaitFor(x) \in list'
    BY DEF WaitKept
  <2>1. list' = ListNow /\ x \in list /\ x \in Obj /\ x \notin NewWaits
    BY <1>1, <1>2 DEF ListNow, IsZero, TypeOK
  <2>2. x \in Delayed => WaitFor(x) \in NewWaits
    BY DEF NewWaits
  <2>3. x \notin Delayed => WaitFor(x) \in list
    BY <1>1, <2>1 DEF VerdictInv, WaitKept, IsZero
  <2> QED  BY <2>1, <2>2, <2>3 DEF ListNow
<1>7. Fresh'
  <2> SUFFICES ASSUME acting' = acting, pc' = "idle" PROVE AllSettled'
    BY DEF Return, Fresh
  <2>1. AllSettled /\ Acting' = Acting
    BY DEF VerdictInv, Fresh, Acting
  <2> QED  BY <1>1, <1>2, <2>1 DEF AllSettled, Settled, Satisfied, TooMany, PoolNow, TypeOK
<1> QED  BY <1>3, <1>4, <1>5, <1>6, <1>7 DEF VerdictInv

(* The script calls FailTestCase.                                          *)
LEMMA VerdictFail ==
  ASSUME TypeOK, VerdictInv, NEW s \in Slots, FailTestCase(s)
  PROVE  VerdictInv'
<1>1. /\ <<s, "exp">> \in Obj
      /\ \A x \in Obj : exp'[x] = IF x = <<s, "exp">> THEN AutoFail ELSE exp[x]
      /\ pc = "user" /\ pc' = "check" /\ acting' = acting
      /\ pool' = pool /\ list' = list \cup {<<s, "exp">>}
  BY DEF FailTestCase, Obj, TypeOK
<1>2. WaitLow'
  <2> SUFFICES ASSUME NEW x \in Obj PROVE exp'[WaitFor(x)].lo = 1
    BY DEF WaitLow
  <2>1. WaitFor(x) \in Obj /\ WaitFor(x) # <<s, "exp">>
    BY ObjWait DEF WaitFor
  <2> QED  BY <1>1, <2>1 DEF VerdictInv, WaitLow
<1>3. Fresh'
  BY <1>1, MadeFields DEF VerdictInv, Fresh, AllSettled, Acting, Settled, TypeOK
<1> QED  BY <1>1, <1>2, <1>3, MadeFields
         DEF VerdictInv, LowMet, Registered, WaitKept, IsZero, TypeOK

(* An expectation grows older, is pinned or unpinned.                      *)
LEMMA VerdictSame ==
  ASSUME TypeOK, VerdictInv, UNCHANGED <<pool, list, pc, acting>>,
         \A x \in Obj : /\ exp'[x].status = exp[x].status /\ exp'[x].lo = exp[x].lo
                        /\ exp'[x].hi = exp[x].hi /\ exp'[x].delay = exp[x].delay
                        /\ exp'[x].occ = exp[x].occ /\ exp'[x].failed = exp[x].failed
  PROVE  VerdictInv'
<1>1. LowMet' /\ Registered' /\ WaitKept'
  BY DEF VerdictInv, LowMet, Registered, WaitKept, IsZero, TypeOK
<1>2. WaitLow'
  BY ObjWait DEF VerdictInv, WaitLow
<1>3. Fresh'
  BY DEF VerdictInv, Fresh, AllSettled, Acting, Settled, Satisfied, TooMany, TypeOK
<1> QED  BY <1>1, <1>2, <1>3 DEF VerdictInv

(* The timer of a "Wait" expectation fires.                                *)
LEMMA VerdictTimer ==
  ASSUME TypeOK, VerdictInv, NEW w \in Obj, WaitTimer(w)
  PROVE  VerdictInv'
<1>1. CASE w \notin pool
  BY <1>1, VerdictUnchanged DEF WaitTimer, InLoop, VerdictInv, Fresh, AllSettled, Acting
<1>2. CASE w \in pool
  <2>1. UNCHANGED <<pool, list>> /\ pc' = "validate"
    BY <1>2 DEF WaitTimer
  <2>2. \A x \in Obj : /\ exp'[x].status = exp[x].status /\ exp'[x].lo = exp[x].lo
                       /\ exp'[x].hi = exp[x].hi /\ exp'[x].delay = exp[x].delay
                       /\ exp[x].status = "SUCCESS" => exp'[x].occ >= exp'[x].lo
    <3> SUFFICES ASSUME NEW x \in Obj
                 PROVE  /\ exp'[x].status = exp[x].status /\ exp'[x].lo = exp[x].lo
                        /\ exp'[x].hi = exp[x].hi /\ exp'[x].delay = exp[x].delay
                        /\ exp[x].status = "SUCCESS" => exp'[x].occ >= exp'[x].lo
      OBVIOUS
    <3>1. exp[x] \in ExpectationType /\ exp'[x] = IF x = w THEN Counted(exp[x], TRUE) ELSE exp[x]
      BY <1>2 DEF WaitTimer, TypeOK
    <3>2. exp[x].occ \in Nat /\ exp[x].lo \in Nat
      BY <3>1 DEF ExpectationType
    <3>3. /\ Counted(exp[x], TRUE).status = exp[x].status
          /\ Counted(exp[x], TRUE).lo = exp[x].lo
          /\ Counted(exp[x], TRUE).hi = exp[x].hi
          /\ Counted(exp[x], TRUE).delay = exp[x].delay
          /\ Counted(exp[x], TRUE).occ = exp[x].occ + 1
      BY <3>1 DEF Counted, ExpectationType
    <3>4. exp[x].status = "SUCCESS" => exp[x].occ >= exp[x].lo
      BY DEF VerdictInv, LowMet
    <3>5. CASE x = w
      <4>1. exp'[x] = Counted(exp[x], TRUE)
        BY <3>1, <3>5
      <4>2. exp[x].occ >= exp[x].lo => exp[x].occ + 1 >= exp[x].lo
        BY <3>2
      <4> QED  BY <3>3, <3>4, <4>1, <4>2
    <3>6. CASE x # w
      BY <3>1, <3>4, <3>6
    <3> QED  BY <3>5, <3>6
  <2>3. LowMet' /\ Registered' /\ WaitKept'
    BY <2>1, <2>2 DEF VerdictInv, LowMet, Registered, WaitKept, IsZero, TypeOK
  <2>4. WaitLow'
    BY <2>2, ObjWait DEF VerdictInv, WaitLow
  <2> QED  BY <2>1, <2>3, <2>4 DEF VerdictInv, Fresh
<1> QED  BY <1>1, <1>2

LEMMA VerdictStep ==
  Singletons = {} /\ ~CheckAll /\ TypeOK /\ VerdictInv /\ [Next]_vars => VerdictInv'
<1> SUFFICES ASSUME Singletons = {}, ~CheckAll, TypeOK, VerdictInv, [Next]_vars
             PROVE  VerdictInv'
  OBVIOUS
<1>1. CASE Tick
  BY <1>1, VerdictUnchanged DEF Tick, InLoop, VerdictInv, Fresh
<1>2. ASSUME NEW m \in Msgs, Receive(m) PROVE VerdictInv'
  <2>1. AllSettled /\ UNCHANGED <<pool, list>>
    BY <1>2 DEF Receive, InLoop, VerdictInv, Fresh
  <2>2. CASE RaiseHandled(m)
    BY <2>1, <2>2, VerdictRaise
  <2>3. CASE RaiseUnhandled(m)
    BY <2>1, <2>3, VerdictUnchanged DEF RaiseUnhandled, Fresh, AllSettled, Acting
  <2> QED  BY <1>2, <2>2, <2>3 DEF Receive
<1>3. ASSUME NEW w \in Obj, WaitTimer(w) PROVE VerdictInv'
  BY <1>3, VerdictTimer
<1>4. ASSUME NEW e \in Obj, Age(e) PROVE VerdictInv'
  <2>1. ASSUME NEW x \in Obj
        PROVE  /\ exp'[x].status = exp[x].status /\ exp'[x].lo = exp[x].lo
               /\ exp'[x].hi = exp[x].hi /\ exp'[x].delay = exp[x].delay
               /\ exp'[x].occ = exp[x].occ /\ exp'[x].failed = exp[x].failed
    <3>1. exp[x] \in ExpectationType /\ exp'[x] = IF x = e THEN Older(exp[x]) ELSE exp[x]
      BY <1>4 DEF Age, TypeOK
    <3> QED  BY <3>1, OlderKeeps
  <2> QED  BY <1>4, <2>1, VerdictSame DEF Age
<1>5. CASE RunNextCase
  BY <1>5, VerdictUnchanged DEF RunNextCase, InLoop, VerdictInv, Fresh, AllSettled, Acting
<1>6. CASE FinishTestCaseRun
  BY <1>6, VerdictUnchanged DEF FinishTestCaseRun, InLoop, VerdictInv, Fresh, AllSettled, Acting
<1>7. CASE ExitLoop
  BY <1>7, VerdictUnchanged DEF ExitLoop, VerdictInv, Fresh
<1>8. CASE UserReturn
  BY <1>8, VerdictUnchanged DEF UserReturn, Return, VerdictInv, Fresh, AllSettled, Acting
<1>9. ASSUME NEW s \in Slots, NEW c \in Classes, NEW b \in Cardinals,
             AddExpectation(s, c, b)
      PROVE  VerdictInv'
  <2>1. /\ Expectation(c, b) \in ExpectationType
        /\ Expectation(c, b).status = "none"
        /\ IsZero(Expectation(c, b)) => Expectation(c, b).delay
    BY MadeType, MadeFields
  <2> QED  BY <1>9, <2>1, VerdictAdd DEF AddExpectation
<1>10. ASSUME NEW s \in Slots, NEW c \in Classes, AddUnlisted(s, c)
       PROVE  VerdictInv'
  <2>1. /\ StartExpectation(c) \in ExpectationType
        /\ StartExpectation(c).status = "none"
        /\ IsZero(StartExpectation(c)) => StartExpectation(c).delay
    BY MadeType, MadeFields DEF IsZero
  <2> QED  BY <1>10, <2>1, VerdictAdd DEF AddUnlisted
<1>11. ASSUME NEW m \in Msgs, RaiseNested(m) PROVE VerdictInv'
  <2>1. AllSettled /\ UNCHANGED <<pool, list>>
    BY <1>11 DEF RaiseNested, VerdictInv, Fresh
  <2>2. CASE RaiseHandled(m)
    BY <2>1, <2>2, VerdictRaise
  <2>3. CASE RaiseUnhandled(m)
    BY <2>1, <2>3, VerdictUnchanged DEF RaiseUnhandled, Fresh, AllSettled, Acting
  <2> QED  BY <1>11, <2>2, <2>3 DEF RaiseNested
<1>12. ASSUME NEW s \in Slots, FailTestCase(s) PROVE VerdictInv'
  BY <1>12, VerdictFail
<1>13. ASSUME NEW val \in BOOLEAN, Critical(val) PROVE VerdictInv'
  BY <1>13, VerdictUnchanged DEF Critical, VerdictInv, Fresh, AllSettled, Acting
<1>14. ASSUME NEW code \in {"skipped", "aborted"}, Quit(code) PROVE VerdictInv'
  BY <1>14, VerdictUnchanged DEF Quit, VerdictInv, Fresh, AllSettled, Acting
<1>15. CASE RunSDL
  BY <1>15, VerdictUnchanged DEF RunSDL, VerdictInv, Fresh, AllSettled, Acting
<1>16. CASE StopSDL
  BY <1>16 DEF StopSDL, VerdictInv, LowMet, Registered, WaitKept, WaitLow, Fresh, AllSettled
<1>17. CASE ValidateAll
  BY <1>17, VerdictValidate
<1>18. CASE CheckNoStep
  BY <1>18, VerdictUnchanged DEF CheckNoStep, Return, VerdictInv, Fresh, AllSettled, Acting
<1>19. CASE CheckNotYet
  BY <1>19, VerdictCheck DEF CheckNotYet
<1>20. CASE Finalise
  BY <1>20, VerdictCheck DEF Finalise
<1>21. CASE SDLCrash
  BY <1>21, VerdictUnchanged DEF SDLCrash, VerdictInv, Fresh, AllSettled, Acting
<1>22. CASE UNCHANGED vars
  BY <1>22, VerdictUnchanged DEF vars, VerdictInv, Fresh, AllSettled, Acting
<1>23. ASSUME NEW s \in Slots, Pin(s) \/ Unpin(s) PROVE VerdictInv'
  <2>1. ASSUME NEW x \in Obj
        PROVE  /\ exp'[x].status = exp[x].status /\ exp'[x].lo = exp[x].lo
               /\ exp'[x].hi = exp[x].hi /\ exp'[x].delay = exp[x].delay
               /\ exp'[x].occ = exp[x].occ /\ exp'[x].failed = exp[x].failed
    BY <1>23, PinStep
  <2>2. UNCHANGED <<pool, list, pc, acting>>
    BY <1>23 DEF Pin, Unpin
  <2> QED  BY <2>1, <2>2, VerdictSame
<1> QED
  BY <1>1, <1>2, <1>3, <1>4, <1>5, <1>6, <1>7, <1>8, <1>9, <1>10, <1>11, <1>12, <1>13,
     <1>14, <1>15, <1>16, <1>17, <1>18, <1>19, <1>20, <1>21, <1>22, <1>23
     DEF Next, Loop, UserCode, CheckStatus, Environment, Terminated

-----------------------------------------------------------------------------
LEMMA OnlyFinalisePasses ==
  ASSUME TypeOK, [Next]_vars, verdict' # verdict
  PROVE  Finalise
  BY DEF Next, Loop, UserCode, CheckStatus, Environment, Terminated, vars, stepVars,
     Tick, Receive, WaitTimer, Age, RunNextCase, FinishTestCaseRun, ExitLoop, UserReturn,
     AddExpectation, Pin, Unpin, AddUnlisted, RaiseNested, FailTestCase, Critical, Quit, RunSDL, StopSDL,
     ValidateAll, CheckNoStep, CheckNotYet, SDLCrash

(* A printed success means that every expectation of the step whose action *)
(* is not running is satisfied at that moment, and that those that must    *)
(* not occur were watched.                                                 *)
LEMMA PassedSound ==
  ASSUME TypeOK, VerdictInv, Finalise, Success
  PROVE  \A e \in list : /\ e \in Acting \/ Satisfied(exp[e])
                         /\ IsZero(exp[e]) => exp[WaitFor(e)].occ >= 1
<1>1. \A x \in ListNow : x \in Obj /\ ExpNow[x].status = "SUCCESS"
  BY NewWaitsType DEF Success, AllSucceeded, ListNow, TypeOK
<1>2. NewWaits = {}
  BY <1>1, ExpNowFields, MadeFields DEF ListNow
<1>3. Delayed = {}
  BY <1>2 DEF NewWaits
<1>4. \A x \in list : x \in Obj /\ exp[x].status = "SUCCESS" /\ ~exp[x].delay
  BY <1>1, <1>2, <1>3, ExpNowFields DEF ListNow, Delayed, TypeOK
<1>5. AllSettled
  BY DEF VerdictInv, Fresh, Finalise
<1>6. ASSUME NEW e \in list PROVE e \in Acting \/ Satisfied(exp[e])
  BY <1>4, <1>5 DEF VerdictInv, Registered, AllSettled, Settled
<1>7. ASSUME NEW e \in list, IsZero(exp[e]) PROVE exp[WaitFor(e)].occ >= 1
  BY <1>4, <1>7 DEF VerdictInv, WaitKept, WaitLow, LowMet
<1> QED  BY <1>6, <1>7

(* VerdictSound for every script without shared event objects: what        *)
(* CheckStatus prints as a success is one, up to the expectations whose own*)
(* actions are still running.                                              *)
THEOREM VerdictCorrect ==
  ASSUME Singletons = {}, ~CheckAll
  PROVE  Spec => VerdictSound
<1>1. Init => TypeOK /\ NextDue /\ VerdictInv
  BY TypeInit, VerdictInit
<1>2. TypeOK /\ NextDue /\ VerdictInv /\ [Next]_vars => (TypeOK /\ NextDue /\ VerdictInv)'
  BY TypeStep, VerdictStep
<1>3. TypeOK /\ VerdictInv /\ [Next]_vars =>
        [\A i \in 1..NumSteps : verdict[i] = "none" /\ verdict'[i] = "passed" =>
           \A e \in list : /\ e \in Acting \/ Satisfied(exp[e])
                           /\ IsZero(exp[e]) => exp[WaitFor(e)].occ >= 1]_vars
  <2> SUFFICES ASSUME TypeOK, VerdictInv, [Next]_vars,
                      NEW i \in 1..NumSteps, verdict[i] = "none", verdict'[i] = "passed"
               PROVE  \A e \in list : /\ e \in Acting \/ Satisfied(exp[e])
                                      /\ IsZero(exp[e]) => exp[WaitFor(e)].occ >= 1
    OBVIOUS
  <2>1. Finalise
    BY OnlyFinalisePasses
  <2>2. Success
    BY <2>1 DEF Finalise, TypeOK
  <2> QED  BY <2>1, <2>2, PassedSound
<1> QED  BY <1>1, <1>2, <1>3, PTL DEF Spec, VerdictSound

(* No listed expectation can be left behind by validateAll: until it has a *)
(* status it is registered, so that a message or its timeout resolves it.  *)
THEOREM RegisteredKept ==
  ASSUME Singletons = {}, ~CheckAll
  PROVE  Spec => []UnresolvedRegistered
<1>1. Init => TypeOK /\ NextDue /\ VerdictInv
  BY TypeInit, VerdictInit
<1>2. TypeOK /\ NextDue /\ VerdictInv /\ [Next]_vars => (TypeOK /\ NextDue /\ VerdictInv)'
  BY TypeStep, VerdictStep
<1>3. VerdictInv => UnresolvedRegistered
  BY DEF VerdictInv, Registered, UnresolvedRegistered
<1> QED  BY <1>1, <1>2, <1>3, PTL DEF Spec


-----------------------------------------------------------------------------
(* Failures and handlers, for every script and every configuration.  An    *)
(* expectation object is made once: what is listed has been made, and the  *)
(* "Wait" of an expectation is made when its delay is set up, after it, so *)
(* that neither the script nor CheckStatus ever writes over a failure.     *)
ListMade == \A e \in list : exp[e].made
WaitAfter ==
  \A s \in Slots : exp[<<s, "wait">>].made =>
     exp[<<s, "exp">>].made /\ ~exp[<<s, "exp">>].delay
WaitPlain == \A s \in Slots : ~exp[<<s, "wait">>].delay

MadeOnce == ListMade /\ WaitAfter /\ WaitPlain
Upkeep == MadeOnce /\ HandlersCollected

(* What an update of an expectation that exists leaves as it is.           *)
SameObject(x, y) ==
  /\ y.made = x.made /\ y.listed = x.listed /\ y.delay = x.delay
  /\ y.pinned = x.pinned /\ y.released = x.released
  /\ x.status = "FAILED" => y.status = "FAILED"

Touched ==
  /\ UNCHANGED <<pool, list>>
  /\ \A x \in Obj : SameObject(exp[x], exp'[x])

(* validate() never takes FAILED back.                                     *)
LEMMA JudgedFailed ==
  ASSUME NEW x \in ExpectationType, x.status = "FAILED"
  PROVE  Validated(x) = "FAILED"
  BY DEF Validated

LEMMA UpdatesSame ==
  ASSUME NEW x \in ExpectationType
  PROVE  /\ SameObject(x, x)
         /\ SameObject(x, Judged(x))
         /\ SameObject(x, Older(x))
         /\ \A valid \in BOOLEAN : SameObject(x, Counted(x, valid))
<1>1. SameObject(x, Judged(x))
  BY JudgedFailed DEF SameObject, Judged, ExpectationType
<1>2. SameObject(x, Older(x))
  BY DEF SameObject, Older, ExpectationType
<1>3. ASSUME NEW valid \in BOOLEAN PROVE SameObject(x, Counted(x, valid))
  BY DEF SameObject, Counted, ExpectationType
<1>4. SameObject(x, x)
  BY DEF SameObject
<1> QED  BY <1>1, <1>2, <1>3, <1>4

LEMMA UnchangedTouched ==
  ASSUME TypeOK, UNCHANGED <<exp, pool, list>>
  PROVE  Touched
  BY UpdatesSame DEF Touched, TypeOK

(* A step that updates one expectation.                                    *)
LEMMA OneTouched ==
  ASSUME TypeOK, UNCHANGED <<pool, list>>, NEW e \in Obj, NEW y, SameObject(exp[e], y),
         exp' = [exp EXCEPT ![e] = y]
  PROVE  Touched
<1> SUFFICES ASSUME NEW x \in Obj PROVE SameObject(exp[x], exp'[x])
  BY DEF Touched
<1>1. exp'[x] = IF x = e THEN y ELSE exp[x]
  BY DEF TypeOK
<1>2. SameObject(exp[x], exp[x])
  BY DEF SameObject
<1> QED  BY <1>1, <1>2

LEMMA RaiseTouched ==
  ASSUME TypeOK, UNCHANGED <<pool, list>>, NEW m \in Msgs, RaiseHandled(m)
  PROVE  Touched
<1>1. PICK e \in Handlers(m), valid \in BOOLEAN : exp' = [exp EXCEPT ![e] = Counted(@, valid)]
  BY DEF RaiseHandled
<1>2. e \in Obj /\ exp[e] \in ExpectationType
  BY DEF Handlers, InPool, TypeOK
<1>3. SameObject(exp[e], Counted(exp[e], valid))
  BY <1>2, UpdatesSame
<1> QED  BY <1>1, <1>2, <1>3, OneTouched

(* The steps that do more than touch expectations.                         *)
Making ==
  \/ \E s \in Slots, c \in Classes, b \in Cardinals :
       AddExpectation(s, c, b)
  \/ \E s \in Slots, c \in Classes : AddUnlisted(s, c)
  \/ \E s \in Slots : FailTestCase(s)

Pinning == \E s \in Slots : Pin(s) \/ Unpin(s)

LEMMA KindsOfSteps ==
  ASSUME TypeOK, [Next]_vars
  PROVE  Touched \/ Making \/ Pinning \/ StopSDL \/ CheckNotYet \/ Finalise
<1>1. CASE Loop
  <2>1. ASSUME NEW m \in Msgs, Receive(m) PROVE Touched
    BY <2>1, RaiseTouched, UnchangedTouched DEF Receive, RaiseUnhandled
  <2>2. ASSUME NEW w \in Obj, WaitTimer(w) PROVE Touched
    <3>1. SameObject(exp[w], Counted(exp[w], TRUE))
      BY UpdatesSame DEF TypeOK
    <3> QED  BY <2>2, <3>1, OneTouched, UnchangedTouched DEF WaitTimer
  <2>3. CASE Tick \/ RunNextCase \/ FinishTestCaseRun \/ ExitLoop
    BY <2>3, UnchangedTouched DEF Tick, RunNextCase, FinishTestCaseRun, ExitLoop
  <2> QED  BY <1>1, <2>1, <2>2, <2>3 DEF Loop
<1>2. CASE UserCode
  <2>1. ASSUME NEW m \in Msgs, RaiseNested(m) PROVE Touched
    BY <2>1, RaiseTouched, UnchangedTouched DEF RaiseNested, RaiseUnhandled
  <2>2. CASE UserReturn \/ RunSDL \/ (\E val \in BOOLEAN : Critical(val))
             \/ (\E code \in {"skipped", "aborted"} : Quit(code))
    BY <2>2, UnchangedTouched DEF UserReturn, RunSDL, Critical, Quit
  <2> QED  BY <1>2, <2>1, <2>2 DEF UserCode, Making, Pinning
<1>3. CASE ValidateAll
  <2>1. \A x \in Obj : SameObject(exp[x], Judged(exp[x])) /\ SameObject(exp[x], exp[x])
    BY UpdatesSame DEF TypeOK
  <2> QED  BY <1>3, <2>1 DEF ValidateAll, Touched
<1>4. CASE CheckNoStep
  BY <1>4, UnchangedTouched DEF CheckNoStep
<1>5. CASE Environment
  <2>1. ASSUME NEW e \in Obj, Age(e) PROVE Touched
    <3>1. SameObject(exp[e], Older(exp[e]))
      BY UpdatesSame DEF TypeOK
    <3> QED  BY <2>1, <3>1, OneTouched DEF Age
  <2>2. CASE SDLCrash
    BY <2>2, UnchangedTouched DEF SDLCrash
  <2> QED  BY <1>5, <2>1, <2>2 DEF Environment
<1>6. CASE UNCHANGED vars
  BY <1>6, UnchangedTouched DEF vars
<1> QED
  BY <1>1, <1>2, <1>3, <1>4, <1>5, <1>6 DEF Next, CheckStatus, Terminated

-----------------------------------------------------------------------------
LEMMA ObjPairs == \A s \in Slots : <<s, "exp">> \in Obj /\ <<s, "wait">> \in Obj
  BY DEF Obj

LEMMA TouchedUpkeep ==
  ASSUME TypeOK, Upkeep, Touched
  PROVE  Upkeep'
<1>1. ListMade'
  BY DEF Upkeep, MadeOnce, ListMade, Touched, SameObject, TypeOK
<1>2. WaitAfter'
  BY ObjPairs DEF Upkeep, MadeOnce, WaitAfter, Touched, SameObject
<1>3. WaitPlain'
  BY ObjPairs DEF Upkeep, MadeOnce, WaitPlain, Touched, SameObject
<1>4. HandlersCollected'
  BY DEF Upkeep, HandlersCollected, Touched, SameObject, TypeOK
<1> QED  BY <1>1, <1>2, <1>3, <1>4 DEF Upkeep, MadeOnce

(* A step of the script that makes an expectation of a slot that is free:  *)
(* listed, or of the kind that never is.                                   *)
LEMMA NewUpkeep ==
  ASSUME TypeOK, Upkeep, NEW s \in Slots, NEW y \in ExpectationType,
         ~exp[<<s, "exp">>].made, y.made,
         exp' = [exp EXCEPT ![<<s, "exp">>] = y],
         pool' \subseteq pool \cup {<<s, "exp">>},
         \/ list' = list \cup {<<s, "exp">>}
         \/ list' = list /\ ~y.listed
  PROVE  Upkeep'
<1> DEFINE e == <<s, "exp">>
<1>0. e \in Obj
  BY ObjPairs
<1>1. \A x \in Obj : exp'[x] = IF x = e THEN y ELSE exp[x]
  BY <1>0 DEF TypeOK
<1>2. e \notin list
  BY DEF Upkeep, MadeOnce, ListMade
<1>3. ~exp[<<s, "wait">>].made
  BY DEF Upkeep, MadeOnce, WaitAfter
<1>4. ListMade'
  BY <1>0, <1>1, <1>2 DEF Upkeep, MadeOnce, ListMade, TypeOK
<1>5. \A r \in Slots : <<r, "wait">> # e /\ (<<r, "exp">> = e => r = s)
  OBVIOUS
<1>6. WaitAfter'
  BY <1>1, <1>3, <1>5, ObjPairs DEF Upkeep, MadeOnce, WaitAfter
<1>7. WaitPlain'
  BY <1>1, <1>5, ObjPairs DEF Upkeep, MadeOnce, WaitPlain
<1>8. HandlersCollected'
  <2> SUFFICES ASSUME NEW x \in pool'
               PROVE  exp'[x].pinned \/ ~exp'[x].listed \/ x \in list' \/ exp'[x].released
    BY DEF HandlersCollected
  <2>1. CASE x = e
    BY <1>0, <1>1, <2>1
  <2>2. CASE x # e
    <3>1. x \in pool /\ x \in Obj
      BY <2>2 DEF TypeOK
    <3> QED  BY <1>1, <2>2, <3>1 DEF Upkeep, HandlersCollected
  <2> QED  BY <2>1, <2>2
<1> QED  BY <1>4, <1>6, <1>7, <1>8 DEF Upkeep, MadeOnce

LEMMA NewFields ==
  /\ AutoFail.made
  /\ \A c \in Classes : StartExpectation(c).made /\ ~StartExpectation(c).listed
  /\ \A c \in Classes, b \in Cardinals : Expectation(c, b).made
  BY DEF AutoFail, StartExpectation, Expectation, Unused

LEMMA MakingUpkeep ==
  ASSUME TypeOK, Upkeep, Making
  PROVE  Upkeep'
<1>1. ASSUME NEW s \in Slots, NEW c \in Classes, NEW b \in Cardinals,
             AddExpectation(s, c, b)
      PROVE  Upkeep'
  <2>1. /\ ~exp[<<s, "exp">>].made
        /\ exp' = [exp EXCEPT ![<<s, "exp">>] = Expectation(c, b)]
        /\ pool' \subseteq pool \cup {<<s, "exp">>}
        /\ list' = list \cup {<<s, "exp">>}
    BY <1>1 DEF AddExpectation, Added
  <2>2. Expectation(c, b) \in ExpectationType /\ Expectation(c, b).made
    BY MadeType, NewFields
  <2> QED  BY <2>1, <2>2, NewUpkeep
<1>2. ASSUME NEW s \in Slots, NEW c \in Classes, AddUnlisted(s, c)
      PROVE  Upkeep'
  <2>1. /\ ~exp[<<s, "exp">>].made
        /\ exp' = [exp EXCEPT ![<<s, "exp">>] = StartExpectation(c)]
        /\ pool' \subseteq pool \cup {<<s, "exp">>}
        /\ list' = list
    BY <1>2 DEF AddUnlisted, Added
  <2>2. /\ StartExpectation(c) \in ExpectationType
        /\ StartExpectation(c).made /\ ~StartExpectation(c).listed
    BY MadeType, NewFields
  <2> QED  BY <2>1, <2>2, NewUpkeep
<1>3. ASSUME NEW s \in Slots, FailTestCase(s)
      PROVE  Upkeep'
  <2>1. /\ ~exp[<<s, "exp">>].made
        /\ exp' = [exp EXCEPT ![<<s, "exp">>] = AutoFail]
        /\ pool' \subseteq pool \cup {<<s, "exp">>}
        /\ list' = list \cup {<<s, "exp">>}
    BY <1>3 DEF FailTestCase
  <2> QED  BY <2>1, MadeType, NewFields, NewUpkeep
<1> QED  BY <1>1, <1>2, <1>3 DEF Making

(* What CheckStatus makes of the expectations: a new "Wait" was not there  *)
(* before, and every other one is the same but for its delay.              *)
LEMMA CheckObjects ==
  ASSUME TypeOK, Upkeep
  PROVE  /\ \A x \in Delayed : \E s \in Slots : x = <<s, "exp">>
         /\ \A x \in NewWaits : x \in Obj /\ ~exp[x].made /\ x \notin list
         /\ \A x \in Obj \ NewWaits :
              /\ ExpNow[x].made = exp[x].made /\ ExpNow[x].listed = exp[x].listed
              /\ ExpNow[x].pinned = exp[x].pinned /\ ExpNow[x].released = exp[x].released
              /\ ExpNow[x].status = exp[x].status
              /\ ExpNow[x].delay = (exp[x].delay /\ x \notin Delayed)
<1>1. ASSUME NEW x \in Delayed PROVE \E s \in Slots : x = <<s, "exp">>
  <2>1. x \in list /\ x \in Obj /\ exp[x].delay
    BY DEF Delayed, TypeOK
  <2>2. PICK s \in Slots : x = <<s, "exp">> \/ x = <<s, "wait">>
    BY <2>1 DEF Obj
  <2>3. x # <<s, "wait">>
    BY <2>1 DEF Upkeep, MadeOnce, WaitPlain
  <2> QED  BY <2>2, <2>3
<1>2. ASSUME NEW x \in NewWaits PROVE x \in Obj /\ ~exp[x].made /\ x \notin list
  <2>1. PICK e \in Delayed : x = WaitFor(e)
    BY DEF NewWaits
  <2>2. PICK s \in Slots : e = <<s, "exp">>
    BY <1>1
  <2>3. x = <<s, "wait">> /\ exp[<<s, "exp">>].delay
    BY <2>1, <2>2 DEF WaitFor, Delayed
  <2>4. ~exp[x].made
    BY <2>3 DEF Upkeep, MadeOnce, WaitAfter
  <2> QED  BY <2>3, <2>4, ObjPairs DEF Upkeep, MadeOnce, ListMade
<1>3. ASSUME NEW x \in Obj \ NewWaits
      PROVE  /\ ExpNow[x].made = exp[x].made /\ ExpNow[x].listed = exp[x].listed
             /\ ExpNow[x].pinned = exp[x].pinned /\ ExpNow[x].released = exp[x].released
             /\ ExpNow[x].status = exp[x].status
             /\ ExpNow[x].delay = (exp[x].delay /\ x \notin Delayed)
  <2>1. exp[x] \in ExpectationType
    BY DEF TypeOK
  <2>2. CASE x \in Delayed
    <3>1. ExpNow[x] = Watched(exp[x])
      BY <1>3, <2>2 DEF ExpNow
    <3> QED  BY <2>1, <2>2, <3>1 DEF Watched, ExpectationType
  <2>3. CASE x \notin Delayed
    <3>1. ExpNow[x] = exp[x]
      BY <1>3, <2>3 DEF ExpNow
    <3> QED  BY <2>1, <2>3, <3>1 DEF ExpectationType
  <2> QED  BY <2>2, <2>3
<1> QED  BY <1>1, <1>2, <1>3

LEMMA CheckUpkeep ==
  ASSUME TypeOK, Upkeep, exp' = ExpNow,
         \/ pool' = PoolNow /\ list' = ListNow
         \/ pool' = PoolNow \ Removed(PoolNow, ListNow, ExpNow) /\ list' = {}
  PROVE  Upkeep'
<1>1. \A x \in NewWaits : x \in Obj /\ exp'[x] = WaitExpectation
  BY CheckObjects DEF ExpNow
<1>2. /\ WaitExpectation.made /\ ~WaitExpectation.delay
      /\ ~WaitExpectation.pinned /\ WaitExpectation.listed
  BY DEF WaitExpectation, Unused
<1>3. list \subseteq Obj /\ pool \subseteq Obj
  BY DEF TypeOK
<1>4. \A x \in Obj \ NewWaits :
         /\ exp'[x].made = exp[x].made /\ exp'[x].listed = exp[x].listed
         /\ exp'[x].pinned = exp[x].pinned /\ exp'[x].released = exp[x].released
         /\ exp'[x].delay = (exp[x].delay /\ x \notin Delayed)
  BY CheckObjects
<1>5. ListMade'
  <2>1. list' \subseteq list \cup NewWaits
    BY DEF ListNow
  <2> QED  BY <1>1, <1>2, <1>3, <1>4, <2>1 DEF Upkeep, MadeOnce, ListMade
<1>6. ASSUME NEW s \in Slots PROVE <<s, "exp">> \notin NewWaits
  BY CheckObjects DEF NewWaits, WaitFor
<1>7. WaitAfter'
  <2> SUFFICES ASSUME NEW s \in Slots, exp'[<<s, "wait">>].made
               PROVE  exp'[<<s, "exp">>].made /\ ~exp'[<<s, "exp">>].delay
    BY DEF WaitAfter
  <2>1. CASE <<s, "wait">> \in NewWaits
    <3>1. PICK e \in Delayed : <<s, "wait">> = WaitFor(e)
      BY <2>1 DEF NewWaits
    <3>2. PICK r \in Slots : e = <<r, "exp">>
      BY CheckObjects
    <3>3. r = s
      BY <3>1, <3>2 DEF WaitFor
    <3>4. <<s, "exp">> \in Delayed
      BY <3>2, <3>3
    <3>5. exp[<<s, "exp">>].made
      BY <3>4 DEF Delayed, Upkeep, MadeOnce, ListMade
    <3> QED  BY <1>4, <1>6, <3>4, <3>5, ObjPairs
  <2>2. CASE <<s, "wait">> \notin NewWaits
    <3>1. exp[<<s, "wait">>].made
      BY <1>4, <2>2, ObjPairs
    <3>2. exp[<<s, "exp">>].made /\ ~exp[<<s, "exp">>].delay
      BY <3>1 DEF Upkeep, MadeOnce, WaitAfter
    <3> QED  BY <1>4, <1>6, <3>2, ObjPairs
  <2> QED  BY <2>1, <2>2
<1>8. WaitPlain'
  <2> SUFFICES ASSUME NEW s \in Slots PROVE ~exp'[<<s, "wait">>].delay
    BY DEF WaitPlain
  <2> QED  BY <1>1, <1>2, <1>4, ObjPairs DEF Upkeep, MadeOnce, WaitPlain
<1>9. HandlersCollected'
  <2> SUFFICES ASSUME NEW x \in pool', ~exp'[x].pinned, exp'[x].listed, ~exp'[x].released
               PROVE  x \in list'
    BY DEF HandlersCollected
  <2>1. x \in pool \cup NewWaits
    BY DEF PoolNow
  <2>2. x \in ListNow
    <3>1. CASE x \in NewWaits
      BY <3>1 DEF ListNow
    <3>2. CASE x \notin NewWaits
      BY <1>3, <1>4, <2>1, <3>2 DEF Upkeep, HandlersCollected, ListNow
    <3> QED  BY <3>1, <3>2
  <2>3. CASE pool' = PoolNow \ Removed(PoolNow, ListNow, ExpNow)
    <3>1. x \in PoolNow /\ x \notin Removed(PoolNow, ListNow, ExpNow)
      BY <2>3
    <3> QED  BY <2>2, <3>1 DEF Removed
  <2> QED  BY <2>2, <2>3
<1> QED  BY <1>5, <1>7, <1>8, <1>9 DEF Upkeep, MadeOnce

(* Pin() and Unpin() on an expectation: what loses its pin is listed, or   *)
(* released.                                                               *)
LEMMA PinningUpkeep ==
  ASSUME TypeOK, Upkeep, Pinning
  PROVE  Upkeep'
<1>1. PICK s \in Slots : Pin(s) \/ Unpin(s)
  BY DEF Pinning
<1>2. UNCHANGED <<pool, list>>
  BY <1>1 DEF Pin, Unpin
<1>3. ASSUME NEW x \in Obj
      PROVE  exp'[x].made = exp[x].made /\ exp'[x].delay = exp[x].delay
  BY <1>1, PinStep
<1>4. ASSUME NEW x \in Obj
      PROVE  /\ exp'[x].listed = exp[x].listed
             /\ \/ exp'[x].pinned = exp[x].pinned /\ exp'[x].released = exp[x].released
                \/ exp'[x].pinned \/ exp'[x].released \/ x \in list
  BY <1>1, PinStep
<1>5. MadeOnce'
  BY <1>2, <1>3, ObjPairs DEF Upkeep, MadeOnce, ListMade, WaitAfter, WaitPlain, TypeOK
<1>6. HandlersCollected'
  BY <1>2, <1>4 DEF Upkeep, HandlersCollected, TypeOK
<1> QED  BY <1>5, <1>6 DEF Upkeep

LEMMA UpkeepInit == Init => Upkeep
<1> SUFFICES ASSUME Init PROVE Upkeep
  OBVIOUS
<1>1. \A s \in Slots : ~exp[<<s, "wait">>].made /\ ~exp[<<s, "wait">>].delay
  BY ObjPairs DEF Init, Unused
<1> QED  BY <1>1 DEF Init, Upkeep, MadeOnce, ListMade, WaitAfter, WaitPlain, HandlersCollected

LEMMA UpkeepStep == TypeOK /\ Upkeep /\ [Next]_vars => Upkeep'
<1> SUFFICES ASSUME TypeOK, Upkeep, [Next]_vars PROVE Upkeep'
  OBVIOUS
<1>1. CASE Touched
  BY <1>1, TouchedUpkeep
<1>2. CASE Making
  BY <1>2, MakingUpkeep
<1>3. CASE StopSDL
  BY <1>3 DEF StopSDL, Upkeep, MadeOnce, ListMade, WaitAfter, WaitPlain, HandlersCollected
<1>4. CASE CheckNotYet
  BY <1>4, CheckUpkeep DEF CheckNotYet
<1>5. CASE Finalise
  BY <1>5, CheckUpkeep DEF Finalise
<1>6. CASE Pinning
  BY <1>6, PinningUpkeep
<1> QED  BY <1>1, <1>2, <1>3, <1>4, <1>5, <1>6, KindsOfSteps

LEMMA UpkeepHolds == Spec => [](TypeOK /\ NextDue /\ Upkeep)
<1>1. Init => TypeOK /\ NextDue /\ Upkeep
  BY TypeInit, UpkeepInit
<1>2. TypeOK /\ NextDue /\ Upkeep /\ [Next]_vars => (TypeOK /\ NextDue /\ Upkeep)'
  BY TypeStep, UpkeepStep
<1> QED  BY <1>1, <1>2, PTL DEF Spec

(* No handler outlives its step: after CheckStatus has ended a step only   *)
(* pinned handlers, those of MobileSession:Start and those unpinned in a   *)
(* later step are left.                                                    *)
THEOREM HandlersCorrect == Spec => []HandlersCollected
<1>1. TypeOK /\ NextDue /\ Upkeep => HandlersCollected
  BY DEF Upkeep
<1> QED  BY <1>1, UpkeepHolds, PTL

-----------------------------------------------------------------------------
(* What a step does to a listed expectation that has failed.               *)
LEMMA FailureStep ==
  ASSUME TypeOK, Upkeep, [Next]_vars, NEW e \in list, exp[e].status = "FAILED"
  PROVE  /\ exp'[e].status = "FAILED"
         /\ e \in list' \/ ~total' \/ pc = "user"
<1>0. e \in Obj /\ exp[e].made
  BY DEF TypeOK, Upkeep, MadeOnce, ListMade
<1>1. CASE Touched
  BY <1>0, <1>1 DEF Touched, SameObject
<1>2. CASE Making
  <2>1. PICK s \in Slots : /\ ~exp[<<s, "exp">>].made
                           /\ \E y : exp' = [exp EXCEPT ![<<s, "exp">>] = y]
                           /\ list \subseteq list'
    BY <1>2 DEF Making, AddExpectation, AddUnlisted, FailTestCase
  <2>2. e # <<s, "exp">>
    BY <1>0, <2>1
  <2>3. exp'[e] = exp[e]
    BY <1>0, <2>1, <2>2 DEF TypeOK
  <2> QED  BY <2>1, <2>3
<1>3. CASE StopSDL
  BY <1>3 DEF StopSDL
<1>4. CASE CheckNotYet \/ Finalise
  <2>1. e \notin NewWaits
    BY CheckObjects
  <2>2. ExpNow[e].status = "FAILED"
    BY <1>0, <2>1, CheckObjects
  <2>3. exp'[e].status = "FAILED"
    BY <1>4, <2>2 DEF CheckNotYet, Finalise
  <2>4. CASE CheckNotYet
    BY <2>3, <2>4 DEF CheckNotYet, ListNow
  <2>5. CASE Finalise
    <3>1. ~AllSucceeded
      BY <2>2 DEF AllSucceeded, ListNow
    <3> QED  BY <2>3, <2>5, <3>1 DEF Finalise, TotalNow
  <2> QED  BY <1>4, <2>4, <2>5
<1>5. CASE Pinning
  <2>1. PICK s \in Slots : Pin(s) \/ Unpin(s)
    BY <1>5 DEF Pinning
  <2>2. exp'[e].status = exp[e].status /\ UNCHANGED list
    BY <1>0, <2>1, PinStep DEF Pin, Unpin
  <2> QED  BY <2>2
<1> QED  BY <1>1, <1>2, <1>3, <1>4, <1>5, KindsOfSteps

(* The executor never forgets a failure of a listed expectation: it stays  *)
(* failed and listed until CheckStatus charges it to the run, whatever     *)
(* Times(), config.checkAllValidations and shared events do.               *)
THEOREM FailureChargedCorrect == Spec => FailureCharged
<1>1. TypeOK /\ NextDue /\ Upkeep /\ [Next]_vars =>
        [\A e \in list : exp[e].status = "FAILED" =>
           /\ exp'[e].status = "FAILED"
           /\ e \in list' \/ ~total' \/ pc = "user"]_vars
  BY FailureStep
<1> QED  BY <1>1, UpkeepHolds, PTL DEF Spec, FailureCharged
=============================================================================
