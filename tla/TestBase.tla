------------------------------ MODULE TestBase ------------------------------
(***************************************************************************)
(* The test executor of ATF: the Lua singleton Test (modules/testbase.lua),*)
(* the event dispatcher (modules/event_dispatcher.lua) and the             *)
(* expectations it feeds (modules/expectations.lua), driven by a test      *)
(* script through the functions of modules/connecttest.lua.                *)
(*                                                                         *)
(* ATF is single threaded: the Qt event loop calls one Lua handler at a    *)
(* time and every signal is queued.  pc says where that thread is:         *)
(*                                                                         *)
(*   "idle"      in the event loop, ready for a timer, a message, next();  *)
(*   "user"      in code of the test script: a step body or an action of   *)
(*               an expectation (Do), which may call back into ATF;        *)
(*   "validate"  about to run event_dispatcher:validateAll();              *)
(*   "check"     about to run CheckStatus();                               *)
(*   "exited"    the event loop has ended.                                 *)
(*                                                                         *)
(* RaiseEvent runs the actions of the handler, then validateAll, then      *)
(* CheckStatus; an action may raise another event, so RaiseEvent nests.    *)
(* acting is the stack of handlers whose action is running, innermost      *)
(* first: the calls of RaiseEvent that have their validateAll and          *)
(* CheckStatus still before them.                                          *)
(*                                                                         *)
(* An expectation is an object of Obj: <<s, "exp">> is made by the script, *)
(* <<s, "wait">> is the "Wait" expectation CheckStatus makes for it when   *)
(* it must not occur at all.  Time is abstract: an expectation becomes     *)
(* aged when it is older than its timeout.                                 *)
(***************************************************************************)
EXTENDS Integers, Sequences, FiniteSets

CONSTANTS
  NumSteps,      \* number of steps of the script, #Test.test_cases
  Slots,         \* supply of expectation objects
  Msgs,          \* what a connection can hand to the dispatcher
  Frames,        \* the messages with _technical.isFrame
  Signals,       \* connected / disconnected: raised without data
  Classes,       \* kinds of events a script waits for
  Level,         \* Level[c]: event.level, the pool the handler goes to
  Matches,       \* Matches[c]: the messages event:matches() accepts
  Singletons,    \* classes with one shared event object (connectedEvent...)
  Cardinals,     \* the bounds Times() is given, [lo |-> timesLE, hi |-> timesGE]
  Nil,           \* timesGE = nil: no upper bound
  Script,        \* the functions of ATF the script calls
  ExitOnCrash,   \* SDL.exitOnCrash
  CheckAll,      \* config.checkAllValidations
  MaxOcc,        \* bound: messages one expectation gets
  MaxDepth       \* bound: nested calls of RaiseEvent

Obj == Slots \X {"exp", "wait"}
WaitFor(e) == <<e[1], "wait">>
Levels == 0..3
Functions == {"Pin", "Unpin", "Start", "RaiseEvent", "FailTestCase", "critical",
              "SkipTest", "runSDL", "StopSDL"}
Statuses == {"none", "SUCCESS", "FAILED"}

ASSUME StepsAssumption == NumSteps \in Nat
ASSUME EventAssumption ==
  /\ Frames \subseteq Msgs
  /\ Signals \subseteq Msgs
  /\ Level \in [Classes -> Levels]
  /\ Matches \in [Classes -> SUBSET Msgs]
  /\ Singletons \subseteq Classes
ASSUME CardinalAssumption ==
  /\ Cardinals \subseteq [lo : Nat, hi : Nat \cup {Nil}]
  /\ \A b \in Cardinals : b.hi # Nil => b.lo <= b.hi
  /\ Nil \notin Nat
ASSUME ConfigAssumption ==
  /\ Script \subseteq Functions
  /\ ExitOnCrash \in BOOLEAN
  /\ CheckAll \in BOOLEAN
  /\ MaxOcc \in Nat
  /\ MaxDepth \in Nat

VARIABLES
  exp,              \* the expectation objects
  pool,             \* objects registered with the dispatcher (_pool0.._pool3)
  list,             \* Test.expectations_list
  timers,           \* "Wait" objects whose RunAfter timer is pending
  index,            \* Test.current_case_index
  running,          \* Test.current_case_name ~= nil
  mandatory,        \* Test.current_case_mandatory
  isStepCompleted,  \* Test.isStepCompleted
  total,            \* total_testset_result
  next,             \* next() signals in the event queue
  sdl,              \* sdl.pid and the process it names
  autoStarted,      \* SDL.autoStarted
  exit,             \* argument of the last quit(), "none" before any
  pc, acting,       \* where the Lua thread is
  verdict           \* history: the result printed for every step

vars == <<exp, pool, list, timers, index, running, mandatory, isStepCompleted,
          total, next, sdl, autoStarted, exit, pc, acting, verdict>>
stepVars == <<index, running, isStepCompleted, total, next, verdict>>
sdlVars  == <<sdl, autoStarted>>

-----------------------------------------------------------------------------
(* Expectations                                                            *)

Unused == [made |-> FALSE, listed |-> TRUE, class |-> Nil, lo |-> 1, hi |-> 1,
           pinned |-> FALSE, released |-> FALSE, occ |-> 0, status |-> "none",
           failed |-> FALSE, aged |-> FALSE, delay |-> FALSE]

(* Expectation(name, connection) with Times(b).  A zero bound asks for the *)
(* delay of CheckStatus.                                                   *)
Expectation(c, b) ==
  [Unused EXCEPT !.made = TRUE, !.class = c, !.lo = b.lo, !.hi = b.hi,
                 !.delay = (b.lo = 0 /\ b.hi = 0)]

(* The StartEvent expectation of MobileSession:Start, the "Wait" one and the*)
(* "AutoFail" one.                                                         *)
StartExpectation(c) == [Unused EXCEPT !.made = TRUE, !.listed = FALSE, !.class = c]
WaitExpectation == [Unused EXCEPT !.made = TRUE]
AutoFail == [Unused EXCEPT !.made = TRUE, !.status = "FAILED"]

TooMany(x) == x.hi # Nil /\ x.occ > x.hi
Satisfied(x) == x.occ >= x.lo /\ ~TooMany(x) /\ ~x.failed

(* Mutant: the upper bound is only looked at while there is no status.     *)
ValidatedKeepsSuccess(x) ==
  LET failure == x.failed /\ (~CheckAll \/ x.hi = Nil \/ x.occ = x.hi)
      s1 == IF failure THEN "FAILED" ELSE x.status
      s2 == IF s1 = "none" /\ x.aged THEN "FAILED" ELSE s1
  IN IF x.occ >= x.lo /\ s2 = "none"
     THEN IF TooMany(x) THEN "FAILED" ELSE "SUCCESS" ELSE s2

(* Mutant: an occurrence in time forgives the earlier failures.            *)
ValidatedForgives(x) ==
  IF x.occ < x.lo THEN IF x.aged THEN "FAILED" ELSE x.status
  ELSE IF TooMany(x) \/ x.failed THEN "FAILED" ELSE "SUCCESS"

(* Mutant: the age of an expectation is not looked at.                     *)
ValidatedWithoutTimeout(x) ==
  LET s1 == IF x.failed THEN "FAILED" ELSE x.status
  IN IF x.occ >= x.lo
     THEN IF TooMany(x) THEN "FAILED" ELSE IF s1 = "none" THEN "SUCCESS" ELSE s1
     ELSE s1

(* The status Expectation:validate() leaves.                               *)
Validated(x) ==
  LET failure == x.failed /\ (~CheckAll \/ x.hi = Nil \/ x.occ = x.hi)
      s1 == IF failure THEN "FAILED" ELSE x.status
      s2 == IF s1 = "none" /\ x.aged THEN "FAILED" ELSE s1
  IN IF x.occ >= x.lo
     THEN IF TooMany(x) THEN "FAILED" ELSE IF s2 = "none" THEN "SUCCESS" ELSE s2
     ELSE s2

(* Expectation:Pin() and Unpin(): only the flag changes, because the global*)
(* list they test is never set.  released is history: Unpin() came when    *)
(* the expectation was in no list any more.                                *)
Pinned(x) == [x EXCEPT !.pinned = TRUE, !.released = FALSE]
Unpinned(x, inList) == [x EXCEPT !.pinned = FALSE, !.released = ~inList]

(* What happens to an expectation: an occurrence and its verification, a   *)
(* call of validate, its timeout, its zero-occurrence delay being set up.  *)
Counted(x, valid) == [x EXCEPT !.occ = @ + 1, !.failed = @ \/ ~valid]
Judged(x) == [x EXCEPT !.status = Validated(x)]
Older(x) == [x EXCEPT !.aged = TRUE]
Watched(x) == [x EXCEPT !.delay = FALSE]

-----------------------------------------------------------------------------
(* Event dispatcher                                                        *)

(* Objects of one pool whose event matches m.  A "Wait" object matches only*)
(* its own event, which no message is.                                     *)
InPool(l, m) ==
  {e \in pool : /\ exp[e].class # Nil
                /\ Level[exp[e].class] = l
                /\ m \in Matches[exp[e].class]}

(* FindHandler: a frame goes to pool 0 only, everything else to the highest*)
(* pool that has a match; inside a pool the order of pairs() is arbitrary, *)
(* so any match may be the one found.                                      *)
Handlers(m) ==
  IF m \in Frames THEN InPool(0, m)
  ELSE IF InPool(3, m) # {} THEN InPool(3, m)
  ELSE IF InPool(2, m) # {} THEN InPool(2, m)
  ELSE InPool(1, m)

(* Mutant: handlers are keyed by the kind of event.                        *)
AddedByClass(e, c) == {x \in pool : exp[x].class # c} \cup {e}

(* AddEvent: handlers are keyed by the event object, so a shared event     *)
(* object gets a new handler and loses the old one.                        *)
Added(e, c) == {x \in pool : c \notin Singletons \/ exp[x].class # c} \cup {e}

(* Mutant: only the expectations that succeeded are unregistered.          *)
RemovedSucceeded(P, L, X) ==
  {x \in P : \E e \in L : ~X[e].pinned /\ X[e].status = "SUCCESS" /\ x = e}

(* RemoveEvent for every listed expectation that is not pinned and has a   *)
(* connection: whatever is registered for its event goes.                  *)
Removed(P, L, X) ==
  {x \in P : \E e \in L : /\ ~X[e].pinned
                          /\ \/ x = e
                             \/ /\ X[e].class \in Singletons
                                /\ X[x].class = X[e].class}

Room(e) == exp[e].occ < MaxOcc

(* RaiseEvent(connection, m) with a handler, whose action runs next.       *)
RaiseHandled(m) ==
  \E e \in Handlers(m), valid \in BOOLEAN :
     /\ Room(e)
     /\ m \in Signals => valid
     /\ exp' = [exp EXCEPT ![e] = Counted(@, valid)]
     /\ pc' = "user"
     /\ acting' = <<e>> \o acting

(* RaiseEvent(connection, m) finds no handler: nothing is validated, the   *)
(* post event handler runs CheckStatus.                                    *)
RaiseUnhandled(m) ==
  /\ Handlers(m) = {}
  /\ pc' = "check"
  /\ UNCHANGED <<exp, acting>>

(* validateAll: every registered expectation, listed or not.               *)
ValidateAll ==
  /\ pc = "validate"
  /\ exp' = [x \in Obj |-> IF x \in pool THEN Judged(exp[x]) ELSE exp[x]]
  /\ pc' = "check"
  /\ UNCHANGED <<pool, list, timers, mandatory, stepVars, sdlVars, exit, acting>>

-----------------------------------------------------------------------------
(* Event loop                                                              *)

InLoop == pc = "idle" /\ exit = "none"

(* control:checkstatus(), every 400 ms.                                    *)
Tick ==
  /\ InLoop
  /\ pc' = "validate"
  /\ UNCHANGED <<exp, pool, list, timers, mandatory, stepVars, sdlVars, exit, acting>>

(* A message or a connection signal comes in: RaiseEvent, or the functions *)
(* AddConnection registers for OnConnected and OnDisconnected.             *)
Receive(m) ==
  /\ InLoop
  /\ RaiseHandled(m) \/ RaiseUnhandled(m)
  /\ UNCHANGED <<pool, list, timers, mandatory, stepVars, sdlVars, exit>>

(* The RunAfter timer of a "Wait" expectation: RaiseEvent of its own event.*)
(* It has no actions and no ValidIf; its handler may be gone by now.       *)
WaitTimer(w) ==
  /\ InLoop
  /\ w \in timers
  /\ timers' = timers \ {w}
  /\ \/ /\ w \in pool
        /\ exp' = [exp EXCEPT ![w] = Counted(@, TRUE)]
        /\ pc' = "validate"
     \/ /\ w \notin pool
        /\ pc' = "check"
        /\ UNCHANGED exp
  /\ UNCHANGED <<pool, list, mandatory, stepVars, sdlVars, exit, acting>>

(* timestamp() - e.ts passes e.timeout; nobody looks once it has a status. *)
Age(e) ==
  /\ pc # "exited"
  /\ exp[e].made
  /\ exp[e].status = "none"
  /\ ~exp[e].aged
  /\ exp' = [exp EXCEPT ![e] = Older(@)]
  /\ UNCHANGED <<pool, list, timers, mandatory, stepVars, sdlVars, exit, pc, acting>>

(* The SDL process dies; sdl.pid stays.                                    *)
SDLCrash ==
  /\ sdl = "RUNNING"
  /\ pc # "exited"
  /\ sdl' = "CRASH"
  /\ UNCHANGED <<exp, pool, list, timers, mandatory, stepVars, autoStarted, exit, pc, acting>>

(* Mutant: a step starts whether or not next() was asked for.              *)
RunNextCaseUnasked ==
  /\ InLoop
  /\ index < NumSteps
  /\ next' = next - 1
  /\ index' = index + 1
  /\ isStepCompleted' = FALSE
  /\ running' = TRUE
  /\ mandatory' = FALSE
  /\ pc' = "user"
  /\ UNCHANGED <<exp, pool, list, timers, total, sdlVars, exit, acting, verdict>>

(* control.runNextCase() finds a step and calls it.                        *)
RunNextCase ==
  /\ InLoop
  /\ next > 0
  /\ index < NumSteps
  /\ next' = next - 1
  /\ index' = index + 1
  /\ isStepCompleted' = FALSE
  /\ running' = TRUE
  /\ mandatory' = FALSE
  /\ pc' = "user"
  /\ UNCHANGED <<exp, pool, list, timers, total, sdlVars, exit, acting, verdict>>

(* control.runNextCase() finds no step: finishTestCaseRun().               *)
FinishTestCaseRun ==
  /\ InLoop
  /\ next > 0
  /\ index >= NumSteps
  /\ next' = next - 1
  /\ index' = index + 1
  /\ isStepCompleted' = FALSE
  /\ running' = FALSE
  /\ sdl' = IF autoStarted THEN "STOPPED" ELSE sdl
  /\ autoStarted' = FALSE
  /\ exit' = IF total THEN "ok" ELSE "failed"
  /\ UNCHANGED <<exp, pool, list, timers, mandatory, total, pc, acting, verdict>>

(* The handler that called quit() has returned: QCoreApplication ends.     *)
ExitLoop ==
  /\ pc = "idle"
  /\ exit # "none"
  /\ pc' = "exited"
  /\ UNCHANGED <<exp, pool, list, timers, mandatory, stepVars, sdlVars, exit, acting>>

-----------------------------------------------------------------------------
(* What the script's own code may call                                     *)

(* Return from an action, then RaiseEvent goes on, or from a step body.    *)
Return == \/ acting # <<>> /\ pc' = "validate" /\ acting' = Tail(acting)
          \/ acting = <<>> /\ pc' = "idle" /\ UNCHANGED acting

UserReturn ==
  /\ pc = "user"
  /\ Return
  /\ UNCHANGED <<exp, pool, list, timers, mandatory, stepVars, sdlVars, exit>>

(* EXPECT_EVENT, EXPECT_HMICALL...: AddEvent and Test:AddExpectation, then *)
(* Times() on the result.                                                  *)
AddExpectation(s, c, b) ==
  LET e == <<s, "exp">> IN
  /\ pc = "user"
  /\ ~exp[e].made
  /\ exp' = [exp EXCEPT ![e] = Expectation(c, b)]
  /\ pool' = Added(e, c)
  /\ list' = list \cup {e}
  /\ UNCHANGED <<timers, mandatory, stepVars, sdlVars, exit, pc, acting>>

(* Pin() or Unpin() of an expectation the script has kept, in the step that*)
(* made it or in a later one.                                              *)
Pin(s) ==
  LET e == <<s, "exp">> IN
  /\ "Pin" \in Script
  /\ pc = "user"
  /\ exp[e].class # Nil
  /\ exp' = [exp EXCEPT ![e] = Pinned(@)]
  /\ UNCHANGED <<pool, list, timers, mandatory, stepVars, sdlVars, exit, pc, acting>>

Unpin(s) ==
  LET e == <<s, "exp">> IN
  /\ "Unpin" \in Script
  /\ pc = "user"
  /\ exp[e].class # Nil
  /\ exp' = [exp EXCEPT ![e] = Unpinned(@, e \in list)]
  /\ UNCHANGED <<pool, list, timers, mandatory, stepVars, sdlVars, exit, pc, acting>>

(* MobileSession:Start() registers the handler of its StartEvent without   *)
(* adding the expectation to the list.                                     *)
AddUnlisted(s, c) ==
  LET e == <<s, "exp">> IN
  /\ "Start" \in Script
  /\ Level[c] = 2
  /\ pc = "user"
  /\ ~exp[e].made
  /\ exp' = [exp EXCEPT ![e] = StartExpectation(c)]
  /\ pool' = Added(e, c)
  /\ UNCHANGED <<list, timers, mandatory, stepVars, sdlVars, exit, pc, acting>>

(* A step body or an action raises an event as its last act (RAISE_EVENT,  *)
(* MobileSession:Start, MobileConnection:StartSecureSession).  When nobody *)
(* waits for it, CheckStatus runs although the expectations whose actions  *)
(* are running have not been validated yet.                                *)
RaiseNested(m) ==
  /\ "RaiseEvent" \in Script
  /\ pc = "user"
  /\ Len(acting) < MaxDepth
  /\ RaiseHandled(m) \/ RaiseUnhandled(m)
  /\ UNCHANGED <<pool, list, timers, mandatory, stepVars, sdlVars, exit>>

(* Mutant: FailTestCase ends the step itself.                              *)
FailTestCaseNext(s) ==
  LET e == <<s, "exp">> IN
  /\ "FailTestCase" \in Script
  /\ pc = "user"
  /\ ~exp[e].made
  /\ exp' = [exp EXCEPT ![e] = AutoFail]
  /\ list' = list \cup {e}
  /\ pc' = "check"
  /\ next' = next + 1
  /\ UNCHANGED <<pool, timers, mandatory, index, running, isStepCompleted, total,
                 verdict, sdlVars, exit, acting>>

(* Test:FailTestCase(cause), after which the body or action returns.       *)
FailTestCase(s) ==
  LET e == <<s, "exp">> IN
  /\ "FailTestCase" \in Script
  /\ pc = "user"
  /\ ~exp[e].made
  /\ exp' = [exp EXCEPT ![e] = AutoFail]
  /\ list' = list \cup {e}
  /\ pc' = "check"
  /\ UNCHANGED <<pool, timers, mandatory, stepVars, sdlVars, exit, acting>>

(* critical(val).                                                          *)
Critical(val) ==
  /\ "critical" \in Script
  /\ pc = "user"
  /\ mandatory' = val
  /\ UNCHANGED <<exp, pool, list, timers, stepVars, sdlVars, exit, pc, acting>>

(* Test:SkipTest(), and the quit(exit_codes.aborted) of connectMobile.     *)
Quit(code) ==
  /\ "SkipTest" \in Script
  /\ pc = "user"
  /\ exit' = code
  /\ UNCHANGED <<exp, pool, list, timers, mandatory, stepVars, sdlVars, pc, acting>>

(* Test:runSDL(): StartSDL refuses when SDL runs already, and may fail.    *)
RunSDL ==
  /\ "runSDL" \in Script
  /\ pc = "user"
  /\ \/ /\ sdl # "RUNNING"
        /\ sdl' = "RUNNING"
        /\ autoStarted' = TRUE
        /\ UNCHANGED exit
     \/ /\ exit' = "aborted"
        /\ autoStarted' = TRUE
        /\ UNCHANGED sdl
  /\ UNCHANGED <<exp, pool, list, timers, mandatory, stepVars, pc, acting>>

(* The global StopSDL(): ClearEvents, Clear, SDL:StopSDL.                  *)
StopSDL ==
  /\ "StopSDL" \in Script
  /\ pc = "user"
  /\ pool' = {}
  /\ list' = {}
  /\ sdl' = "STOPPED"
  /\ autoStarted' = FALSE
  /\ UNCHANGED <<exp, timers, mandatory, stepVars, exit, pc, acting>>

-----------------------------------------------------------------------------
(* CheckStatus                                                             *)

Crashed == sdl = "CRASH"
Delayed == {e \in list : exp[e].delay}
NewWaits == {WaitFor(e) : e \in Delayed}

(* The expectations once every zero-occurrence expectation has its "Wait". *)
ExpNow == [x \in Obj |-> IF x \in NewWaits THEN WaitExpectation
                         ELSE IF x \in Delayed THEN Watched(exp[x])
                         ELSE exp[x]]
ListNow == list \cup NewWaits
PoolNow == pool \cup NewWaits
MandatoryNow == IF Crashed THEN ExitOnCrash ELSE mandatory
Unresolved == \E x \in ListNow : ExpNow[x].status = "none"
AllSucceeded == \A x \in ListNow : ExpNow[x].status = "SUCCESS"
Success == AllSucceeded /\ ~(Crashed /\ ExitOnCrash)
StepStops == MandatoryNow /\ ~Success

(* Mutant: only a failed critical step counts for the run.                 *)
TotalOfCritical == total /\ (AllSucceeded \/ ~MandatoryNow)

(* total_testset_result after the step.                                    *)
TotalNow == total /\ AllSucceeded

(* Mutant: only a crash ends the run.                                      *)
ExitAfterCrash == IF StepStops /\ Crashed /\ ExitOnCrash THEN "aborted" ELSE exit

(* The quit() of a failed critical step.                                   *)
ExitNow == IF StepStops /\ ExitOnCrash THEN "aborted" ELSE exit

(* No step is running: nothing to check.                                   *)
CheckNoStep ==
  /\ pc = "check"
  /\ ~running
  /\ Return
  /\ UNCHANGED <<exp, pool, list, timers, mandatory, stepVars, sdlVars, exit>>

(* Test.isStepCompleted after a call that does not end the step.           *)
CompletedNow == isStepCompleted \/ ~Unresolved

(* An expectation has no status yet, or the step has just become complete: *)
(* one more call of CheckStatus is needed.                                 *)
CheckNotYet ==
  /\ pc = "check"
  /\ running
  /\ Unresolved \/ ~isStepCompleted
  /\ isStepCompleted' = CompletedNow
  /\ exp' = ExpNow
  /\ pool' = PoolNow
  /\ list' = ListNow
  /\ timers' = timers \cup NewWaits
  /\ mandatory' = MandatoryNow
  /\ sdl' = IF Crashed THEN "STOPPED" ELSE sdl
  /\ Return
  /\ UNCHANGED <<index, running, total, next, autoStarted, exit, verdict>>

(* The result of the step is printed and the next one asked for.           *)
Finalise ==
  /\ pc = "check"
  /\ running
  /\ ~Unresolved
  /\ isStepCompleted
  /\ exp' = ExpNow
  /\ pool' = PoolNow \ Removed(PoolNow, ListNow, ExpNow)
  /\ list' = {}
  /\ timers' = timers \cup NewWaits
  /\ mandatory' = MandatoryNow
  /\ total' = TotalNow
  /\ running' = FALSE
  /\ verdict' = [verdict EXCEPT ![index] = IF Success THEN "passed"
                                           ELSE IF StepStops THEN "critical" ELSE "failed"]
  /\ sdl' = IF Crashed \/ StepStops THEN "STOPPED" ELSE sdl
  /\ autoStarted' = (autoStarted /\ ~StepStops)
  /\ exit' = ExitNow
  /\ next' = next + 1
  /\ Return
  /\ UNCHANGED <<index, isStepCompleted>>

-----------------------------------------------------------------------------
Init ==
  /\ exp = [x \in Obj |-> Unused]
  /\ pool = {}
  /\ list = {}
  /\ timers = {}
  /\ index = 0
  /\ running = FALSE
  /\ mandatory = FALSE
  /\ isStepCompleted = FALSE
  /\ total = TRUE
  /\ next = 1
  /\ sdl = "STOPPED"
  /\ autoStarted = FALSE
  /\ exit = "none"
  /\ pc = "idle"
  /\ acting = <<>>
  /\ verdict = [i \in 1..NumSteps |-> "none"]

CheckStatus == CheckNoStep \/ CheckNotYet \/ Finalise

UserCode ==
  \/ UserReturn
  \/ \E s \in Slots, c \in Classes, b \in Cardinals : AddExpectation(s, c, b)
  \/ \E s \in Slots : Pin(s) \/ Unpin(s)
  \/ \E s \in Slots, c \in Classes : AddUnlisted(s, c)
  \/ \E m \in Msgs : RaiseNested(m)
  \/ \E s \in Slots : FailTestCase(s)
  \/ \E val \in BOOLEAN : Critical(val)
  \/ \E code \in {"skipped", "aborted"} : Quit(code)
  \/ RunSDL
  \/ StopSDL

Loop ==
  \/ Tick
  \/ \E m \in Msgs : Receive(m)
  \/ \E w \in Obj : WaitTimer(w)
  \/ RunNextCase
  \/ FinishTestCaseRun
  \/ ExitLoop

Terminated == pc = "exited" /\ UNCHANGED vars

Environment == SDLCrash \/ \E e \in Obj : Age(e)

Next == Loop \/ UserCode \/ ValidateAll \/ CheckStatus \/ Environment \/ Terminated

Spec == Init /\ [][Next]_vars

(* The event loop serves every timer and queued signal that stays pending, *)
(* Lua handlers return, and time passes.  Strong fairness, because another *)
(* handler may run each time one is ready.  An object ages once and its    *)
(* timer fires once, so fairness of the whole set reaches each of them.    *)
Fairness ==
  /\ WF_vars(UserReturn) /\ WF_vars(ValidateAll) /\ WF_vars(CheckStatus)
  /\ WF_vars(ExitLoop)
  /\ SF_vars(Tick)
  /\ SF_vars(RunNextCase \/ FinishTestCaseRun)
  /\ WF_vars(\E e \in Obj : Age(e))
  /\ SF_vars(\E w \in Obj : WaitTimer(w))

FairSpec == Spec /\ Fairness

-----------------------------------------------------------------------------
(* Properties                                                              *)

ExpectationType ==
  [made : BOOLEAN, listed : BOOLEAN, class : Classes \cup {Nil}, lo : Nat,
   hi : Nat \cup {Nil}, pinned : BOOLEAN, released : BOOLEAN, occ : Nat,
   status : Statuses, failed : BOOLEAN, aged : BOOLEAN, delay : BOOLEAN]

(* Every variable keeps its type.                                          *)
TypeOK ==
  /\ exp \in [Obj -> ExpectationType]
  /\ pool \subseteq Obj /\ list \subseteq Obj /\ timers \subseteq Obj
  /\ index \in 0..(NumSteps + 1)
  /\ running \in BOOLEAN /\ mandatory \in BOOLEAN /\ isStepCompleted \in BOOLEAN
  /\ total \in BOOLEAN /\ autoStarted \in BOOLEAN
  /\ next \in Nat /\ acting \in Seq(Obj)
  /\ sdl \in {"STOPPED", "RUNNING", "CRASH"}
  /\ exit \in {"none", "ok", "failed", "skipped", "aborted"}
  /\ pc \in {"idle", "user", "validate", "check", "exited"}
  /\ verdict \in [1..NumSteps -> {"none", "passed", "failed", "critical"}]

IsZero(x) == x.lo = 0 /\ x.hi = 0

(* The handlers whose action is running.                                   *)
Acting == {acting[i] : i \in DOMAIN acting}

(* CheckStatus prints success for a step only when, at that moment, every  *)
(* expectation of the list whose own action is not still running has       *)
(* occurred as often as Times() asks and none of its verifications has     *)
(* failed, and one that must not occur has been watched until its "Wait"   *)
(* timer fired: also when the messages came nested in actions, late, or    *)
(* after the expectation had succeeded already.  The one whose action runs *)
(* has been counted and not validated: when that action raises an event    *)
(* nobody waits for, RaiseEvent skips validateAll but not CheckStatus.     *)
VerdictSound ==
  [][\A i \in 1..NumSteps : verdict[i] = "none" /\ verdict'[i] = "passed" =>
       \A e \in list : /\ e \in Acting \/ Satisfied(exp[e])
                       /\ IsZero(exp[e]) => exp[WaitFor(e)].occ >= 1]_vars

(* The executor never forgets a failure: a listed expectation that has     *)
(* failed stays failed, and stays listed until CheckStatus has charged it  *)
(* to the result of the run; only the script's StopSDL() may clear it.     *)
FailureCharged ==
  [][\A e \in list : exp[e].status = "FAILED" =>
       /\ exp'[e].status = "FAILED"
       /\ e \in list' \/ ~total' \/ pc = "user"]_vars

(* Steps run one at a time and in order, each gets exactly one verdict, and*)
(* no second next() is ever queued, whatever ticks, messages, nested       *)
(* events or FailTestCase call CheckStatus.                                *)
StepLedger ==
  /\ next + (IF running THEN 1 ELSE 0) <= 1
  /\ \A i \in 1..NumSteps : verdict[i] # "none" <=> i < index \/ (i = index /\ ~running)

(* The process exit code tells the truth: ok only when every step passed,  *)
(* failed only when all ran and some did not.                              *)
ExitHonest ==
  /\ exit = "ok" => \A i \in 1..NumSteps : verdict[i] = "passed"
  /\ exit = "failed" => /\ \E i \in 1..NumSteps : verdict[i] \in {"failed", "critical"}
                        /\ \A i \in 1..NumSteps : verdict[i] # "none"

(* "Failed critical test step stops all following tests execution": after a*)
(* critical step has failed no other step runs.                            *)
CriticalStops == \A i \in 1..NumSteps : verdict[i] = "critical" => index = i

(* No handler outlives its step: whatever is registered with the dispatcher*)
(* is listed, pinned, the StartEvent handler of MobileSession:Start, or was*)
(* unpinned in a later step than its own, when CheckStatus has dropped it  *)
(* from the list and nothing removes it any more.                          *)
HandlersCollected ==
  \A x \in pool : exp[x].pinned \/ ~exp[x].listed \/ x \in list \/ exp[x].released

(* Every listed expectation that has no status yet is registered, so that  *)
(* validateAll reaches it and it can at least time out.                    *)
UnresolvedRegistered == \A e \in list : exp[e].status = "none" => e \in pool

(* A listed expectation without a status whose handler is gone: a later   *)
(* expectation on the same shared event object has taken its place.        *)
Orphaned == \E e \in list : exp[e].status = "none" /\ e \notin pool

(* The run always comes to an end, unless a step has an expectation that   *)
(* validateAll cannot reach any more, which CheckStatus waits for forever. *)
Terminates == <>(pc = "exited") \/ <>[]Orphaned
=============================================================================
