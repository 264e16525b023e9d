----------------------------- MODULE QtLuaProofs -----------------------------
(***************************************************************************)
(* Proofs about QtLua, for any script: any number of RunAfter calls, codes *)
(* of quit, bytes of SDL, operations and attempts to open the WebSocket.   *)
(*                                                                         *)
(* FailureKept rests on the shape of the stack: main runs the script or    *)
(* app.exec at the bottom and only handlers and loops of web_socket_open   *)
(* above it (Framed), so that no return of a handler ends the program, and *)
(* the code of quit is nonzero from the first failure on (Charged).  That  *)
(* the garbage collector stops no timer rests on who refers to it: the     *)
(* table of RunAfter to its timers, and to the timer of the heartbeat the  *)
(* function of a receiver that qt.connect keeps for good (Referred).       *)
(* That nothing is lost on the way from a signal to the function rests on  *)
(* the plumbing: one connection of each kind to every receiver that        *)
(* qt.connect keeps, with the slots that go with it (Wired); what is kept  *)
(* lives, so that the collector takes nothing but a heartbeat that was     *)
(* never started (Owned, CollectedIs); and events for such receivers only  *)
(* (Queued).  Then the bytes and the calls can be counted (Traffic).       *)
(***************************************************************************)
EXTENDS QtLua, FiniteSetTheorems, SequenceTheorems, WellFoundedInduction, TLAPS

Above == {"slot", "open", "stuck"}

(* main runs one of two things at the bottom, everything else is above it. *)
Framed ==
  /\ stack \in Seq({"load", "exec"} \cup Above)
  /\ stack # <<>> => stack[1] \in {"load", "exec"}
  /\ \A i \in 2..Len(stack) : stack[i] \in Above

(* The types of the interpreter's fields.                                  *)
InterpType ==
  /\ interp \in [quitCalled : BOOLEAN, retCode : Codes \cup {0}, status : Codes \cup {0, 1}]
  /\ failed \in BOOLEAN

(* While the program runs its code says that it failed, and then its       *)
(* status does.                                                            *)
Charged ==
  /\ failed /\ ~Exited => interp.retCode # 0
  /\ FailureKept

Outcome == Framed /\ InterpType /\ Charged

outcomeVars == <<stack, interp, failed>>

-----------------------------------------------------------------------------
(* Who runs.                                                               *)

(* A frame that main does not run itself is not the lowest one.            *)
LEMMA AboveMain ==
  ASSUME Framed, Running \in Above
  PROVE  Len(stack) > 1
BY DEF Framed, Running, Above, Last

(* A program that has ended does nothing more: every step needs Lua code or*)
(* a loop that runs.                                                       *)
LEMMA EndedIsEnded ==
  ASSUME Next
  PROVE  stack # <<>>
<1>1. Running # "exited"
  <2>1. CASE Script
    BY <2>1 DEF Script, NewTcp, TcpConnect, TcpClose, Forget, RunAfter, NewBeat, StartBeat,
         StopBeat, ForgetBeat, Quit, WsOpen, WsClose, LuaError, Op, InLua
  <2>2. CASE Loop
    BY <2>2 DEF Loop, NextRound, CallSlot, ReadyRead, ReadyReadClosed, TimerFires, Takes,
         SlotReturns, LoadReturns, OpenReturns, ExecReturns, LoopGoesOn, InLoop
  <2>3. CASE World
    BY <2>3 DEF World, DataArrives, ConnectsLate, WsAnswers, OpenAgain, Collect, LoopGoesOn,
         InLoop, InLua
  <2> QED
    BY <2>1, <2>2, <2>3 DEF Next
<1> QED
  BY <1>1 DEF Running

(* A call on top of what runs keeps the shape of the stack.                *)
LEMMA CallFramed ==
  ASSUME Framed, stack # <<>>, NEW f \in Above, stack' = Append(stack, f)
  PROVE  Framed' /\ stack' # <<>>
<1>1. Len(stack) \in Nat \ {0}
  BY DEF Framed
<1>2. /\ stack' \in Seq({"load", "exec"} \cup Above)
      /\ Len(stack') = Len(stack) + 1
      /\ stack'[Len(stack) + 1] = f
      /\ \A i \in 1..Len(stack) : stack'[i] = stack[i]
  BY DEF Framed
<1>3. \A i \in 2..Len(stack') : stack'[i] \in Above
  BY <1>1, <1>2 DEF Framed
<1>4. stack'[1] \in {"load", "exec"}
  BY <1>1, <1>2 DEF Framed
<1>5. stack' # <<>>
  BY <1>1, <1>2
<1> QED
  BY <1>2, <1>3, <1>4, <1>5 DEF Framed

(* The return of a handler or of a loop above main leaves main running.    *)
LEMMA ReturnFramed ==
  ASSUME Framed, Running \in Above, stack' = Front(stack)
  PROVE  Framed' /\ stack' # <<>>
<1>1. Len(stack) \in Nat /\ Len(stack) > 1
  BY AboveMain DEF Framed
<1>2. /\ stack' \in Seq({"load", "exec"} \cup Above)
      /\ Len(stack') = Len(stack) - 1
      /\ \A i \in 1..(Len(stack) - 1) : stack'[i] = stack[i]
  BY <1>1 DEF Framed, Front
<1>3. \A i \in 2..Len(stack') : stack'[i] \in Above
  BY <1>1, <1>2 DEF Framed
<1>4. stack'[1] \in {"load", "exec"}
  BY <1>1, <1>2 DEF Framed
<1>5. stack' # <<>>
  BY <1>1, <1>2
<1> QED
  BY <1>2, <1>3, <1>4, <1>5 DEF Framed

-----------------------------------------------------------------------------
(* Each kind of step keeps Outcome.                                        *)

(* Steps that leave the interpreter alone.                                 *)
LEMMA QuietOutcome ==
  ASSUME Outcome, UNCHANGED outcomeVars
  PROVE  Outcome'
BY DEF Outcome, Framed, InterpType, Charged, FailureKept, Exited, outcomeVars

(* Steps that call or return above main, and leave the codes alone.        *)
LEMMA StackOutcome ==
  ASSUME Outcome, stack # <<>>, UNCHANGED <<interp, failed>>, Framed', stack' # <<>>
  PROVE  Outcome'
BY DEF Outcome, InterpType, Charged, FailureKept, Exited

(* The end of the program with a status that is nonzero when a failure is  *)
(* on record.                                                              *)
LEMMA EndOutcome ==
  ASSUME Outcome, NEW status \in Codes \cup {0, 1}, EndOfProgram(status), failed' \in BOOLEAN,
         failed' => status # 0
  PROVE  Outcome'
<1>1. stack' = <<>> /\ interp' = [interp EXCEPT !.status = status]
  BY DEF EndOfProgram
<1>2. Framed'
  BY <1>1 DEF Framed
<1>3. InterpType' /\ interp'.status = status
  BY <1>1 DEF Outcome, InterpType
<1>4. Charged'
  BY <1>1, <1>3 DEF Charged, FailureKept, Exited
<1> QED
  BY <1>2, <1>3, <1>4 DEF Outcome

LEMMA QuitOutcome ==
  ASSUME Outcome, stack # <<>>, NEW c \in Codes \cup {0}, Quit(c)
  PROVE  Outcome'
<1>1. /\ interp' = [interp EXCEPT !.quitCalled = TRUE, !.retCode = RetCode(c)]
      /\ failed' = (failed \/ c # 0)
      /\ stack' = stack
  BY DEF Quit
<1>2. RetCode(c) \in Codes \cup {0} /\ (c # 0 => RetCode(c) = c)
      /\ (c = 0 => RetCode(c) = interp.retCode)
  BY DEF RetCode, Outcome, InterpType
<1>3. InterpType' /\ interp'.retCode = RetCode(c)
  BY <1>1, <1>2 DEF Outcome, InterpType
<1>4. Framed'
  BY <1>1 DEF Outcome, Framed
<1>5. failed' => interp'.retCode # 0
  BY <1>1, <1>2, <1>3 DEF Outcome, Charged, Exited
<1>6. Charged'
  BY <1>1, <1>5 DEF Charged, FailureKept, Exited
<1> QED
  BY <1>3, <1>4, <1>6 DEF Outcome

(* An error ends the program: with abort in the loop of app.exec, and      *)
(* otherwise as luaL_dofile's caller finds the code.                       *)
LEMMA ErrorOutcome ==
  ASSUME Outcome, stack # <<>>, LuaError
  PROVE  Outcome'
<1>1. CASE EndOfProgram(1) /\ failed' = TRUE
  BY <1>1, EndOutcome
<1>2. CASE /\ EndOfProgram(IF interp.quitCalled THEN interp.retCode ELSE 1)
           /\ failed' = (failed \/ ~interp.quitCalled)
  <2> DEFINE status == IF interp.quitCalled THEN interp.retCode ELSE 1
  <2>1. status \in Codes \cup {0, 1}
    BY DEF Outcome, InterpType
  <2>2. failed' \in BOOLEAN
    BY <1>2 DEF Outcome, InterpType
  <2>3. failed' => status # 0
    BY <1>2 DEF Outcome, Charged, InterpType, Exited
  <2> QED
    BY <1>2, <2>1, <2>2, <2>3, EndOutcome
<1> QED
  BY <1>1, <1>2 DEF LuaError

LEMMA LoadReturnsOutcome ==
  ASSUME Outcome, stack # <<>>, LoadReturns
  PROVE  Outcome'
<1>1. UNCHANGED failed
  BY DEF LoadReturns, historyVars
<1>2. CASE EndOfProgram(interp.retCode)
  BY <1>1, <1>2, EndOutcome DEF Outcome, InterpType, Charged, Exited
<1>3. CASE stack' = <<"exec">> /\ UNCHANGED interp
  <2>1. Framed' /\ stack' # <<>>
    BY <1>3 DEF Framed
  <2> QED
    BY <1>1, <1>3, <2>1, StackOutcome
<1> QED
  BY <1>2, <1>3 DEF LoadReturns

LEMMA ExecReturnsOutcome ==
  ASSUME Outcome, stack # <<>>, ExecReturns
  PROVE  Outcome'
<1>1. UNCHANGED failed /\ EndOfProgram(interp.retCode)
  BY DEF ExecReturns, historyVars
<1> QED
  BY <1>1, EndOutcome DEF Outcome, InterpType, Charged, Exited

(* The inductive step: what the script, the loops and the world do.        *)
LEMMA OutcomeStep ==
  ASSUME Outcome, Next
  PROVE  Outcome'
<1>0. stack # <<>> /\ Framed
  BY EndedIsEnded DEF Outcome
<1>1. CASE Script
  <2>1. CASE WsOpen
    <3>1. stack' = Append(stack, "open") /\ UNCHANGED <<interp, failed>>
      BY <2>1 DEF WsOpen, historyVars
    <3>2. "open" \in Above
      BY DEF Above
    <3> QED
      BY <1>0, <3>1, <3>2, CallFramed, StackOutcome
  <2>2. CASE LuaError
    BY <1>0, <2>2, ErrorOutcome
  <2>3. CASE \E c \in Codes \cup {0} : Quit(c)
    BY <1>0, <2>3, QuitOutcome
  <2>4. CASE \/ NewTcp \/ TcpConnect \/ TcpClose \/ Forget \/ NewBeat \/ StartBeat \/ StopBeat
             \/ ForgetBeat \/ WsClose \/ \E t \in Timers : RunAfter(t)
    BY <2>4, QuietOutcome DEF outcomeVars, historyVars, NewTcp, TcpConnect, TcpClose, Forget,
         RunAfter, NewBeat, StartBeat, StopBeat, ForgetBeat, WsClose
  <2> QED
    BY <1>1, <2>1, <2>2, <2>3, <2>4 DEF Script
<1>2. CASE Loop
  <2>1. CASE \E slot \in {"connected", "inputData", "timeout"} : CallSlot(slot)
    <3>1. stack' = Append(stack, "slot") /\ UNCHANGED <<interp, failed>>
      BY <2>1 DEF CallSlot
    <3>2. "slot" \in Above
      BY DEF Above
    <3> QED
      BY <1>0, <3>1, <3>2, CallFramed, StackOutcome
  <2>2. CASE ReadyReadClosed
    <3>1. stack' = Append(stack, "stuck") /\ UNCHANGED <<interp, failed>>
      BY <2>2 DEF ReadyReadClosed
    <3>2. "stuck" \in Above
      BY DEF Above
    <3> QED
      BY <1>0, <3>1, <3>2, CallFramed, StackOutcome
  <2>3. CASE SlotReturns \/ OpenReturns
    <3>1. Running \in Above /\ stack' = Front(stack) /\ UNCHANGED <<interp, failed>>
      BY <2>3 DEF SlotReturns, OpenReturns, historyVars, Above
    <3> QED
      BY <1>0, <3>1, ReturnFramed, StackOutcome
  <2>4. CASE LoadReturns
    BY <1>0, <2>4, LoadReturnsOutcome
  <2>5. CASE ExecReturns
    BY <1>0, <2>5, ExecReturnsOutcome
  <2>6. CASE NextRound \/ ReadyRead \/ \E t \in AllTimers : TimerFires(t)
    BY <2>6, QuietOutcome DEF outcomeVars, historyVars, NextRound, ReadyRead, TimerFires
  <2> QED
    BY <1>2, <2>1, <2>2, <2>3, <2>4, <2>5, <2>6 DEF Loop
<1>3. CASE World
  BY <1>3, QuietOutcome DEF World, outcomeVars, historyVars, DataArrives, ConnectsLate, WsAnswers,
       OpenAgain, Collect
<1> QED
  BY <1>1, <1>2, <1>3 DEF Next

LEMMA OutcomeInit == Init => Outcome
<1> SUFFICES ASSUME Init PROVE Outcome
  OBVIOUS
<1>1. Framed
  BY DEF Init, Framed
<1>2. InterpType
  BY DEF Init, InterpType
<1>3. Charged
  BY DEF Init, Charged, FailureKept, Exited
<1> QED
  BY <1>1, <1>2, <1>3 DEF Outcome

(* A run that failed never exits with success, whatever handlers that were *)
(* already due do after quit and wherever an error of Lua comes up         *)
(* (app_quit, LuaInterpreter::load, main).                                 *)
THEOREM FailureKeptCorrect == Spec => []FailureKept
<1>1. Outcome /\ UNCHANGED vars => Outcome'
  BY QuietOutcome DEF vars, outcomeVars
<1>2. Outcome => FailureKept
  BY DEF Outcome, Charged
<1> QED
  BY <1>1, <1>2, OutcomeInit, OutcomeStep, PTL DEF Spec

-----------------------------------------------------------------------------
(* Timers and the garbage collector.                                       *)

(* A timer that somebody waits for is referred to: one of RunAfter by the  *)
(* table of timers, the heartbeat's by the function of a receiver that     *)
(* qt.connect put into the registry.                                       *)
RefersToTimers == \A t \in wanted \cap Timers : Timer(t) \in held
RefersToBeat == Beat \in wanted => TimerD(Beat) \in meta.registry

Referred ==
  /\ DOMAIN meta = {"slots", "registry", "connections"}
  /\ wanted \subseteq AllTimers
  /\ RefersToTimers
  /\ RefersToBeat
  /\ TimersRun

timerVars == <<meta, wanted, held, active>>

(* qt.connect adds its receiver to the registry and takes nothing out.     *)
LEMMA ConnectKeeps ==
  ASSUME NEW q, DOMAIN q = {"slots", "registry", "connections"},
         NEW from, NEW signal, NEW to, NEW slot
  PROVE  /\ DOMAIN Connect(q, from, signal, to, slot) = {"slots", "registry", "connections"}
         /\ Connect(q, from, signal, to, slot).registry = q.registry \cup {to}
<1> DEFINE d == ConnectDynamic(q, from, signal, to, slot)
<1>1. DOMAIN d = {"slots", "registry", "connections"}
  BY DEF ConnectDynamic
<1> HIDE DEF d
<1>2. Connect(q, from, signal, to, slot) = [d EXCEPT !.registry = Registered(q, to)]
  BY DEF Connect, d
<1>3. /\ DOMAIN [d EXCEPT !.registry = Registered(q, to)] = {"slots", "registry", "connections"}
      /\ [d EXCEPT !.registry = Registered(q, to)].registry = Registered(q, to)
  BY <1>1
<1> QED
  BY <1>2, <1>3 DEF Registered

(* The objects of different kinds, and of different timers, are different. *)
LEMMA DistinctObjects ==
  \A t \in Timers : /\ Timer(t) \notin {Sock, Proxy, Timer(Beat), TimerD(Beat)}
                    /\ t # Beat
<1>1. ASSUME NEW t \in Timers PROVE t # 0
  BY <1>1, QtLuaAssumption
<1>2. ASSUME NEW t \in Timers
      PROVE  /\ Timer(t) # Sock /\ Timer(t) # Proxy /\ Timer(t) # TimerD(Beat)
             /\ Timer(t) # Timer(Beat)
  BY <1>1, <1>2 DEF Timer, TimerD, Sock, Proxy, Beat
<1> QED
  BY <1>1, <1>2 DEF Beat

LEMMA QuietReferred ==
  ASSUME Referred, UNCHANGED timerVars
  PROVE  Referred'
BY DEF Referred, RefersToTimers, RefersToBeat, TimersRun, timerVars

LEMMA NewTcpReferred ==
  ASSUME Referred, NewTcp
  PROVE  Referred'
<1> DEFINE a == Connect(meta, Sock, "readyRead", Proxy, "readyRead")
           b == Connect(a, Proxy, "inputData", Sink, "inputData")
<1>1. /\ meta' = Connect(b, Sock, "connected", Proxy, "connected")
      /\ held' = held \cup {Sock, Proxy}
      /\ wanted' = wanted
      /\ active' = active
  BY DEF NewTcp, historyVars
<1>2. DOMAIN a = {"slots", "registry", "connections"} /\ meta.registry \subseteq a.registry
  BY ConnectKeeps DEF Referred
<1> HIDE DEF a
<1>3. DOMAIN b = {"slots", "registry", "connections"} /\ a.registry \subseteq b.registry
  BY <1>2, ConnectKeeps
<1> HIDE DEF b
<1>4. DOMAIN meta' = {"slots", "registry", "connections"} /\ b.registry \subseteq meta'.registry
  BY <1>1, <1>3, ConnectKeeps
<1>5. RefersToTimers'
  BY <1>1 DEF Referred, RefersToTimers
<1>6. RefersToBeat'
  BY <1>1, <1>2, <1>3, <1>4 DEF Referred, RefersToBeat
<1> QED
  BY <1>1, <1>4, <1>5, <1>6 DEF Referred, TimersRun

LEMMA ForgetReferred ==
  ASSUME Referred, Forget \/ ForgetBeat
  PROVE  Referred'
<1>1. /\ held \ {Sock, Proxy, Timer(Beat), TimerD(Beat)} \subseteq held'
      /\ UNCHANGED <<meta, wanted, active>>
  BY DEF Forget, ForgetBeat, historyVars
<1>2. RefersToTimers'
  BY <1>1, DistinctObjects DEF Referred, RefersToTimers
<1>3. RefersToBeat'
  BY <1>1 DEF Referred, RefersToBeat
<1> QED
  BY <1>1, <1>2, <1>3 DEF Referred, TimersRun

LEMMA RunAfterReferred ==
  ASSUME Referred, NEW t \in Timers, RunAfter(t)
  PROVE  Referred'
<1>1. /\ meta' = Connect(meta, Timer(t), "timeout", TimerD(t), "timeout")
      /\ held' = held \cup {Timer(t)}
      /\ wanted' = wanted \cup {t}
      /\ active' = active \cup {t}
  BY DEF RunAfter, Kept
<1>2. /\ DOMAIN meta' = {"slots", "registry", "connections"}
      /\ meta.registry \subseteq meta'.registry
  BY <1>1, ConnectKeeps DEF Referred
<1>3. RefersToTimers'
  BY <1>1 DEF Referred, RefersToTimers
<1>4. RefersToBeat'
  BY <1>1, <1>2, DistinctObjects DEF Referred, RefersToBeat
<1> QED
  BY <1>1, <1>2, <1>3, <1>4 DEF Referred, TimersRun, AllTimers

LEMMA NewBeatReferred ==
  ASSUME Referred, NewBeat
  PROVE  Referred'
<1>1. held \subseteq held' /\ UNCHANGED <<meta, wanted, active>>
  BY DEF NewBeat, historyVars
<1> QED
  BY <1>1 DEF Referred, RefersToTimers, RefersToBeat, TimersRun

LEMMA StartBeatReferred ==
  ASSUME Referred, StartBeat
  PROVE  Referred'
<1>1. /\ wanted' = wanted \cup {Beat}
      /\ active' = active \cup {Beat}
      /\ held' = held
  BY DEF StartBeat
<1>2. DOMAIN meta' = {"slots", "registry", "connections"} /\ TimerD(Beat) \in meta'.registry
  <2>1. CASE TimerD(Beat) \in meta.registry
    BY <2>1 DEF StartBeat, Referred
  <2>2. CASE TimerD(Beat) \notin meta.registry
    <3>1. meta' = Connect(meta, Timer(Beat), "timeout", TimerD(Beat), "timeout")
      BY <2>2 DEF StartBeat
    <3> QED
      BY <3>1, ConnectKeeps DEF Referred
  <2> QED
    BY <2>1, <2>2
<1>3. RefersToTimers'
  BY <1>1, DistinctObjects DEF Referred, RefersToTimers
<1>4. RefersToBeat'
  BY <1>2 DEF RefersToBeat
<1> QED
  BY <1>1, <1>2, <1>3, <1>4 DEF Referred, TimersRun, AllTimers

(* A timer leaves both sets at once: it is stopped, or has fired.          *)
LEMMA LessReferred ==
  ASSUME Referred, NEW S, wanted' = wanted \ S, active' = active \ S, UNCHANGED <<meta, held>>
  PROVE  Referred'
BY DEF Referred, RefersToTimers, RefersToBeat, TimersRun

(* __gc: what it deletes is not the timer that somebody waits for.         *)
LEMMA CollectReferred ==
  ASSUME Referred, NEW o \in Objects, Collect(o)
  PROVE  Referred'
<1>1. /\ o \notin Reachable
      /\ active' = {t \in active : Timer(t) # o}
      /\ UNCHANGED <<held, wanted>>
  BY DEF Collect, historyVars
<1>2. DOMAIN meta' = {"slots", "registry", "connections"} /\ meta'.registry = meta.registry
  BY DEF Collect, Referred
<1>3. ASSUME NEW t \in wanted PROVE Timer(t) # o
  <2>1. CASE t \in Timers
    BY <1>1, <1>3, <2>1 DEF Referred, RefersToTimers, Reachable, Roots
  <2>2. CASE t = Beat
    BY <1>1, <1>3, <2>2 DEF Referred, RefersToBeat, Reachable, Roots
  <2> QED
    BY <1>3, <2>1, <2>2 DEF Referred, AllTimers
<1>4. TimersRun'
  BY <1>1, <1>3 DEF Referred, TimersRun
<1>5. RefersToTimers' /\ RefersToBeat'
  BY <1>1, <1>2 DEF Referred, RefersToTimers, RefersToBeat
<1> QED
  BY <1>1, <1>2, <1>4, <1>5 DEF Referred

LEMMA ReferredStep ==
  ASSUME Referred, Next
  PROVE  Referred'
<1>1. CASE Script
  <2>1. CASE NewTcp
    BY <2>1, NewTcpReferred
  <2>2. CASE Forget \/ ForgetBeat
    BY <2>2, ForgetReferred
  <2>3. CASE \E t \in Timers : RunAfter(t)
    BY <2>3, RunAfterReferred
  <2>4. CASE NewBeat
    BY <2>4, NewBeatReferred
  <2>5. CASE StartBeat
    BY <2>5, StartBeatReferred
  <2>6. CASE StopBeat
    <3>1. wanted' = wanted \ {Beat} /\ active' = active \ {Beat} /\ UNCHANGED <<meta, held>>
      BY <2>6 DEF StopBeat
    <3> QED
      BY <3>1, LessReferred
  <2>7. CASE TcpConnect \/ TcpClose \/ (\E c \in Codes \cup {0} : Quit(c)) \/ WsOpen \/ WsClose
             \/ LuaError
    BY <2>7, QuietReferred DEF timerVars, historyVars, TcpConnect, TcpClose, Quit, WsOpen, WsClose,
         LuaError
  <2> QED
    BY <1>1, <2>1, <2>2, <2>3, <2>4, <2>5, <2>6, <2>7 DEF Script
<1>2. CASE Loop
  <2>1. CASE \E t \in AllTimers : TimerFires(t)
    <3>1. PICK t \in AllTimers : TimerFires(t)
      BY <2>1
    <3>2. /\ wanted' = wanted \ (Timers \cap {t}) /\ active' = active \ (Timers \cap {t})
          /\ UNCHANGED <<meta, held>>
      BY <3>1 DEF TimerFires
    <3> QED
      BY <3>2, LessReferred
  <2>2. CASE \/ NextRound \/ ReadyRead \/ ReadyReadClosed \/ SlotReturns \/ LoadReturns
             \/ OpenReturns \/ ExecReturns
             \/ \E slot \in {"connected", "inputData", "timeout"} : CallSlot(slot)
    BY <2>2, QuietReferred DEF timerVars, historyVars, NextRound, ReadyRead, ReadyReadClosed,
         SlotReturns, LoadReturns, OpenReturns, ExecReturns, CallSlot
  <2> QED
    BY <1>2, <2>1, <2>2 DEF Loop
<1>3. CASE World
  <2>1. CASE \E o \in Objects : Collect(o)
    BY <2>1, CollectReferred
  <2>2. CASE DataArrives \/ ConnectsLate \/ WsAnswers \/ OpenAgain
    BY <2>2, QuietReferred DEF timerVars, historyVars, DataArrives, ConnectsLate, WsAnswers,
         OpenAgain
  <2> QED
    BY <1>3, <2>1, <2>2 DEF World
<1> QED
  BY <1>1, <1>2, <1>3 DEF Next

(* The garbage collector stops no timer that was started, however the      *)
(* script goes on, forgets its session or its connection (timers.cc,       *)
(* qtlua_connect's luaL_ref).                                              *)
THEOREM TimersRunCorrect == Spec => []TimersRun
<1>1. Init => Referred
  BY DEF Init, Referred, RefersToTimers, RefersToBeat, TimersRun
<1>2. Referred /\ UNCHANGED vars => Referred'
  BY QuietReferred DEF vars, timerVars
<1>3. Referred => TimersRun
  BY DEF Referred
<1> QED
  BY <1>1, <1>2, <1>3, ReferredStep, PTL DEF Spec

-----------------------------------------------------------------------------
(* Sequences made place by place.  What such a definition computes is shown*)
(* by the least place at which something else would be there.              *)

(* A set of places that has one has a least one.                           *)
LEMMA LeastPlace ==
  ASSUME NEW T \in SUBSET Nat, T # {}
  PROVE  \E x \in T : \A y \in T : ~(y < x)
<1>. DEFINE R == OpToRel(<, Nat)
<1>1. IsWellFoundedOn(R, Nat)
  BY NatLessThanWellFounded
<1>. HIDE DEF R
<1>2. PICK x \in T : \A y \in T : ~(<<y, x>> \in R)
  BY <1>1, WFMin
<1>3. ASSUME NEW y \in T, y < x PROVE FALSE
  <2>1. <<y, x>> \in R
    BY <1>3 DEF R, OpToRel
  <2>. QED
    BY <1>2, <1>3, <2>1
<1>. QED
  BY <1>2, <1>3

(* Picked                                                                  *)

PickedBy(g, s, P) ==
  g = [i \in 0..Len(s) |->
         IF i = 0 THEN <<>> ELSE IF i \in P THEN Append(g[i - 1], s[i]) ELSE g[i - 1]]

LEMMA PickedUnique ==
  ASSUME NEW S, NEW s \in Seq(S), NEW P, NEW g, NEW h, PickedBy(g, s, P), PickedBy(h, s, P)
  PROVE  g[Len(s)] = h[Len(s)]
<1>1. Len(s) \in Nat
  OBVIOUS
<1>. DEFINE T == {i \in 0..Len(s) : g[i] # h[i]}
<1>2. SUFFICES ASSUME g[Len(s)] # h[Len(s)] PROVE FALSE
  OBVIOUS
<1>3. T \in SUBSET Nat /\ T # {}
  BY <1>1, <1>2
<1>4. PICK x \in T : \A y \in T : ~(y < x)
  BY <1>3, LeastPlace
<1>5. x # 0
  BY <1>1 DEF PickedBy
<1>6. x - 1 \in 0..Len(s) /\ x - 1 < x /\ x \in 0..Len(s)
  BY <1>1, <1>5
<1>7. g[x - 1] = h[x - 1]
  BY <1>4, <1>6
<1>8. g[x] = IF x \in P THEN Append(g[x - 1], s[x]) ELSE g[x - 1]
  BY <1>5, <1>6 DEF PickedBy
<1>9. h[x] = IF x \in P THEN Append(h[x - 1], s[x]) ELSE h[x - 1]
  BY <1>5, <1>6 DEF PickedBy
<1>. QED
  BY <1>7, <1>8, <1>9

LEMMA PickedIs ==
  ASSUME NEW S, NEW s \in Seq(S), NEW P, NEW g, PickedBy(g, s, P)
  PROVE  Picked(s, P) = g[Len(s)]
<1>. DEFINE u == CHOOSE h : PickedBy(h, s, P)
<1>1. Picked(s, P) = u[Len(s)]
  BY DEF Picked, PickedBy
<1>2. PickedBy(u, s, P)
  OBVIOUS
<1>. QED
  BY <1>1, <1>2, PickedUnique

LEMMA PickedAll ==
  ASSUME NEW S, NEW s \in Seq(S), NEW P, DOMAIN s \subseteq P
  PROVE  Picked(s, P) = s
<1>. DEFINE g == [i \in 0..Len(s) |-> SubSeq(s, 1, i)]
<1>1. Len(s) \in Nat /\ DOMAIN s = 1..Len(s)
  OBVIOUS
<1>2. ASSUME NEW i \in 0..Len(s)
      PROVE  g[i] = IF i = 0 THEN <<>> ELSE IF i \in P THEN Append(g[i - 1], s[i]) ELSE g[i - 1]
  <2>1. CASE i = 0
    BY <1>1, <2>1
  <2>2. CASE i # 0
    <3>1. i \in P /\ i - 1 \in 0..Len(s) /\ i \in 1..Len(s)
      BY <1>1, <1>2, <2>2
    <3>2. g[i] = SubSeq(s, 1, i) /\ g[i - 1] = SubSeq(s, 1, i - 1)
      BY <3>1
    <3>3. SubSeq(s, 1, i) = Append(SubSeq(s, 1, i - 1), s[i])
      BY <1>1, <3>1
    <3>. HIDE DEF g
    <3>. QED
      BY <2>2, <3>1, <3>2, <3>3
  <2>. QED
    BY <2>1, <2>2
<1>3. PickedBy(g, s, P)
  BY <1>2 DEF PickedBy
<1>4. g[Len(s)] = s
  BY <1>1
<1>. HIDE DEF g
<1>. QED
  BY <1>3, <1>4, PickedIs

LEMMA PickedOne ==
  ASSUME NEW S, NEW s \in Seq(S), NEW k \in DOMAIN s
  PROVE  Picked(s, {k}) = <<s[k]>>
<1>. DEFINE g == [i \in 0..Len(s) |-> IF i < k THEN <<>> ELSE <<s[k]>>]
<1>1. Len(s) \in Nat /\ k \in 1..Len(s)
  OBVIOUS
<1>2. ASSUME NEW i \in 0..Len(s)
      PROVE  g[i] = IF i = 0 THEN <<>> ELSE IF i \in {k} THEN Append(g[i - 1], s[i]) ELSE g[i - 1]
  <2>1. CASE i < k
    <3>1. i \notin {k} /\ g[i] = <<>>
      BY <1>1, <2>1
    <3>2. i # 0 => i - 1 \in 0..Len(s) /\ i - 1 < k /\ g[i - 1] = <<>>
      BY <1>1, <2>1
    <3>. HIDE DEF g
    <3>. QED
      BY <3>1, <3>2
  <2>2. CASE i = k
    <3>1. i # 0 /\ i \in {k} /\ g[i] = <<s[k]>> /\ i - 1 \in 0..Len(s) /\ i - 1 < k
      BY <1>1, <2>2
    <3>2. g[i - 1] = <<>>
      BY <3>1
    <3>. HIDE DEF g
    <3>. QED
      BY <2>2, <3>1, <3>2
  <2>3. CASE i > k
    <3>1. i # 0 /\ i \notin {k} /\ g[i] = <<s[k]>> /\ i - 1 \in 0..Len(s) /\ ~(i - 1 < k)
      BY <1>1, <2>3
    <3>2. g[i - 1] = <<s[k]>>
      BY <3>1
    <3>. HIDE DEF g
    <3>. QED
      BY <3>1, <3>2
  <2>. QED
    BY <1>1, <2>1, <2>2, <2>3
<1>3. PickedBy(g, s, {k})
  BY <1>2 DEF PickedBy
<1>4. g[Len(s)] = <<s[k]>>
  BY <1>1
<1>. HIDE DEF g
<1>. QED
  BY <1>3, <1>4, PickedIs

(* FlattenSeq                                                              *)

FlatBy(g, q) == g = [i \in 1..Len(q) |-> IF i = 1 THEN q[i] ELSE g[i - 1] \o q[i]]

LEMMA FlatUnique ==
  ASSUME NEW S, NEW q \in Seq(S), q # <<>>, NEW g, NEW h, FlatBy(g, q), FlatBy(h, q)
  PROVE  g[Len(q)] = h[Len(q)]
<1>1. Len(q) \in Nat \ {0}
  OBVIOUS
<1>. DEFINE T == {i \in 1..Len(q) : g[i] # h[i]}
<1>2. SUFFICES ASSUME g[Len(q)] # h[Len(q)] PROVE FALSE
  OBVIOUS
<1>3. T \in SUBSET Nat /\ T # {}
  BY <1>1, <1>2
<1>4. PICK x \in T : \A y \in T : ~(y < x)
  BY <1>3, LeastPlace
<1>5. x # 1
  BY <1>1 DEF FlatBy
<1>6. x - 1 \in 1..Len(q) /\ x - 1 < x /\ x \in 1..Len(q)
  BY <1>1, <1>5
<1>7. g[x - 1] = h[x - 1]
  BY <1>4, <1>6
<1>8. g[x] = g[x - 1] \o q[x]
  BY <1>5, <1>6 DEF FlatBy
<1>9. h[x] = h[x - 1] \o q[x]
  BY <1>5, <1>6 DEF FlatBy
<1>. QED
  BY <1>7, <1>8, <1>9

LEMMA FlattenIs ==
  ASSUME NEW S, NEW q \in Seq(S), q # <<>>, NEW g, FlatBy(g, q)
  PROVE  FlattenSeq(q) = g[Len(q)]
<1>. DEFINE u == CHOOSE h : FlatBy(h, q)
<1>1. Len(q) # 0
  OBVIOUS
<1>2. FlattenSeq(q) = u[Len(q)]
  BY <1>1 DEF FlattenSeq, FlatBy
<1>3. FlatBy(u, q)
  OBVIOUS
<1>. QED
  BY <1>2, <1>3, FlatUnique

LEMMA FlattenNone ==
  ASSUME NEW q, Len(q) = 0
  PROVE  FlattenSeq(q) = q
BY DEF FlattenSeq

(* Sequences of one element each.                                          *)
LEMMA FlattenSingles ==
  ASSUME NEW S, NEW s \in Seq(S)
  PROVE  FlattenSeq([i \in DOMAIN s |-> <<s[i]>>]) = s
<1>. DEFINE q == [i \in DOMAIN s |-> <<s[i]>>]
            g == [i \in 1..Len(s) |-> SubSeq(s, 1, i)]
<1>1. Len(s) \in Nat /\ DOMAIN s = 1..Len(s)
  OBVIOUS
<1>2. q \in Seq(Seq(S)) /\ Len(q) = Len(s) /\ \A i \in 1..Len(s) : q[i] = <<s[i]>>
  BY <1>1
<1>. HIDE DEF q
<1>3. CASE s = <<>>
  <2>1. Len(q) = 0 /\ q = <<>>
    BY <1>2, <1>3
  <2>. QED
    BY <1>3, <2>1, FlattenNone DEF q
<1>4. CASE s # <<>>
  <2>1. q # <<>> /\ Len(s) > 0
    BY <1>1, <1>2, <1>4
  <2>2. ASSUME NEW i \in 1..Len(q) PROVE g[i] = IF i = 1 THEN q[i] ELSE g[i - 1] \o q[i]
    <3>1. i \in 1..Len(s) /\ g[i] = SubSeq(s, 1, i) /\ q[i] = <<s[i]>>
      BY <1>2
    <3>2. CASE i = 1
      <4>. DEFINE t == SubSeq(s, 1, 1)
      <4>0. t \in Seq(S) /\ Len(t) = 1 /\ t[1] = s[1]
        BY <1>1, <2>1
      <4>. HIDE DEF t
      <4>1. t = <<s[1]>>
        BY <4>0
      <4>. QED
        BY <3>1, <3>2, <4>1 DEF t
    <3>3. CASE i # 1
      <4>1. i - 1 \in 1..Len(s)
        BY <1>1, <3>1, <3>3
      <4>2. g[i - 1] = SubSeq(s, 1, i - 1)
        BY <4>1
      <4>3. SubSeq(s, 1, i) = SubSeq(s, 1, i - 1) \o <<s[i]>>
        BY <1>1, <3>1, <4>1
      <4>. HIDE DEF g
      <4>. QED
        BY <3>1, <3>3, <4>2, <4>3
    <3>. QED
      BY <3>2, <3>3
  <2>3. FlatBy(g, q)
    BY <1>2, <2>2 DEF FlatBy
  <2>4. g[Len(q)] = s
    BY <1>1, <1>2, <2>1
  <2>. HIDE DEF g
  <2>. QED
    BY <1>2, <2>1, <2>3, <2>4, FlattenIs DEF q
<1>. QED
  BY <1>3, <1>4

-----------------------------------------------------------------------------
(* The pieces in which readyRead takes the bytes of the socket.            *)

LEMMA Division ==
  ASSUME NEW n \in Nat, NEW d \in Nat \ {0}
  PROVE  LET k == (n + d - 1) \div d
         IN  k \in Nat /\ n <= k * d /\ (n > 0 => (k - 1) * d < n) /\ (n = 0 => k = 0)
<1>. DEFINE k == (n + d - 1) \div d
            m == (n + d - 1) % d
<1>1. k \in Int /\ m \in 0..(d - 1) /\ n + d - 1 = d * k + m
  OBVIOUS
<1>. HIDE DEF k, m
<1>2. d * k = k * d /\ (k - 1) * d = k * d - d
  BY <1>1
<1>3. n <= k * d /\ (n > 0 => (k - 1) * d < n) /\ k * d >= 0
  BY <1>1, <1>2
<1>4. k >= 0
  BY <1>1, <1>3
<1>5. ASSUME n = 0, k # 0 PROVE FALSE
  <2>1. k * d < d
    BY <1>1, <1>2, <1>5
  <2>2. k >= 1
    BY <1>1, <1>4, <1>5
  <2>. QED
    BY <1>1, <2>1, <2>2
<1>. QED
  BY <1>1, <1>3, <1>4, <1>5 DEF k

(* How many reads, and how much is read after the i-th one.                *)
Reads(n) == (n + ReadSize - 1) \div ReadSize
ReadUpto(n, i) == IF i * ReadSize < n THEN i * ReadSize ELSE n

LEMMA ReadsType ==
  ASSUME NEW n \in Nat
  PROVE  /\ Reads(n) \in Nat
         /\ n = 0 <=> Reads(n) = 0
         /\ ReadUpto(n, Reads(n)) = n
         /\ ReadUpto(n, 0) = 0
         /\ \A i \in 1..Reads(n) :
              /\ ReadUpto(n, i - 1) = (i - 1) * ReadSize
              /\ ReadUpto(n, i - 1) \in Nat /\ ReadUpto(n, i) \in Nat
              /\ ReadUpto(n, i - 1) < ReadUpto(n, i) /\ ReadUpto(n, i) <= n
<1>. DEFINE k == Reads(n)
            R == ReadSize
<1>1. R \in Nat \ {0}
  BY QtLuaAssumption
<1>2. k \in Nat /\ n <= k * R /\ (n > 0 => (k - 1) * R < n) /\ (n = 0 => k = 0)
  BY <1>1, Division DEF Reads
<1>. HIDE DEF k, R
<1>3. k = 0 => n = 0
  BY <1>1, <1>2
<1>4. ReadUpto(n, k) = n /\ ReadUpto(n, 0) = 0
  <2>1. ~(k * R < n)
    BY <1>1, <1>2
  <2>2. 0 * R = 0
    BY <1>1
  <2>. QED
    BY <2>1, <2>2 DEF ReadUpto, R
<1>5. ASSUME NEW i \in 1..k
      PROVE  /\ ReadUpto(n, i - 1) = (i - 1) * R
             /\ ReadUpto(n, i - 1) \in Nat /\ ReadUpto(n, i) \in Nat
             /\ ReadUpto(n, i - 1) < ReadUpto(n, i) /\ ReadUpto(n, i) <= n
  <2>1. n > 0 /\ i \in Nat /\ i - 1 \in Nat /\ i - 1 <= k - 1
    BY <1>2, <1>5
  <2>2. (i - 1) * R \in Nat /\ i * R \in Nat /\ i * R = (i - 1) * R + R
    BY <1>1, <2>1
  <2>3. (i - 1) * R <= (k - 1) * R
    BY <1>1, <1>2, <2>1
  <2>4. (i - 1) * R < n
    BY <1>1, <1>2, <2>1, <2>2, <2>3
  <2>5. ReadUpto(n, i - 1) = (i - 1) * R
    BY <2>4 DEF ReadUpto, R
  <2>6. ReadUpto(n, i) = IF i * R < n THEN i * R ELSE n
    BY DEF ReadUpto, R
  <2>. QED
    BY <1>1, <2>1, <2>2, <2>4, <2>5, <2>6
<1>. QED
  BY <1>2, <1>3, <1>4, <1>5 DEF k, R

LEMMA PiecesType ==
  ASSUME NEW b \in Seq(Nat)
  PROVE  LET n == Len(b) IN
         /\ Pieces(b) \in Seq(Seq(Nat)) /\ Len(Pieces(b)) = Reads(n)
         /\ \A i \in 1..Reads(n) :
              /\ Pieces(b)[i] = SubSeq(b, ReadUpto(n, i - 1) + 1, ReadUpto(n, i))
              /\ SubSeq(b, 1, ReadUpto(n, i - 1)) \o Pieces(b)[i] = SubSeq(b, 1, ReadUpto(n, i))
<1>. DEFINE n == Len(b)
            k == Reads(n)
            p(i) == SubSeq(b, (i - 1) * ReadSize + 1, IF i * ReadSize < n THEN i * ReadSize ELSE n)
<1>1. n \in Nat /\ k \in Nat
  BY ReadsType
<1>2. Pieces(b) = [i \in 1..k |-> p(i)]
  BY DEF Pieces, Reads
<1>3. ASSUME NEW i \in 1..k
      PROVE  p(i) = SubSeq(b, ReadUpto(n, i - 1) + 1, ReadUpto(n, i))
  <2>1. ReadUpto(n, i - 1) = (i - 1) * ReadSize
    BY <1>1, ReadsType
  <2>. QED
    BY <2>1 DEF ReadUpto
<1>. HIDE DEF p
<1>4. ASSUME NEW i \in 1..k
      PROVE  /\ p(i) \in Seq(Nat)
             /\ SubSeq(b, 1, ReadUpto(n, i - 1)) \o p(i) = SubSeq(b, 1, ReadUpto(n, i))
  <2>. DEFINE x == ReadUpto(n, i - 1)
              y == ReadUpto(n, i)
  <2>1. x \in Nat /\ y \in Nat /\ x < y /\ y <= n
    BY <1>1, ReadsType
  <2>2. p(i) = SubSeq(b, x + 1, y)
    BY <1>3
  <2>. HIDE DEF x, y
  <2>3. SubSeq(b, x + 1, y) \in Seq(Nat)
    BY <2>1
  <2>4. SubSeq(b, 1, x) \o SubSeq(b, x + 1, y) = SubSeq(b, 1, y)
    BY <2>1
  <2>. QED
    BY <2>2, <2>3, <2>4 DEF x, y
<1>. HIDE DEF k
<1>5. Pieces(b) \in Seq(Seq(Nat)) /\ Len(Pieces(b)) = k /\ \A i \in 1..k : Pieces(b)[i] = p(i)
  BY <1>1, <1>2, <1>4
<1>. QED
  BY <1>3, <1>4, <1>5 DEF k

(* Nothing is left in the socket.                                          *)
LEMMA FlattenPieces ==
  ASSUME NEW b \in Seq(Nat)
  PROVE  Len(FlattenSeq(Pieces(b))) = Len(b)
<1>. DEFINE n == Len(b)
            k == Reads(n)
            q == Pieces(b)
            g == [i \in 1..k |-> SubSeq(b, 1, ReadUpto(n, i))]
<1>1. n \in Nat /\ k \in Nat /\ (n = 0 <=> k = 0) /\ ReadUpto(n, k) = n /\ ReadUpto(n, 0) = 0
  BY ReadsType
<1>2. /\ q \in Seq(Seq(Nat)) /\ Len(q) = k
      /\ \A i \in 1..k : SubSeq(b, 1, ReadUpto(n, i - 1)) \o q[i] = SubSeq(b, 1, ReadUpto(n, i))
      /\ \A i \in 1..k : q[i] = SubSeq(b, ReadUpto(n, i - 1) + 1, ReadUpto(n, i))
  BY PiecesType
<1>. HIDE DEF q, k
<1>3. CASE k = 0
  <2>1. FlattenSeq(q) = q
    BY <1>2, <1>3, FlattenNone
  <2>. QED
    BY <1>1, <1>2, <1>3, <2>1 DEF q
<1>4. CASE k # 0
  <2>1. q # <<>> /\ k \in 1..k
    BY <1>1, <1>2, <1>4
  <2>2. ASSUME NEW i \in 1..Len(q) PROVE g[i] = IF i = 1 THEN q[i] ELSE g[i - 1] \o q[i]
    <3>1. i \in 1..k /\ g[i] = SubSeq(b, 1, ReadUpto(n, i))
      BY <1>2
    <3>2. CASE i = 1
      <4>1. q[1] = SubSeq(b, ReadUpto(n, 1 - 1) + 1, ReadUpto(n, 1))
        BY <1>2, <3>1, <3>2
      <4>2. ReadUpto(n, 1 - 1) + 1 = 1
        BY <1>1
      <4>. QED
        BY <3>1, <3>2, <4>1, <4>2
    <3>3. CASE i # 1
      <4>1. i - 1 \in 1..k
        BY <1>1, <3>1, <3>3
      <4>2. g[i - 1] = SubSeq(b, 1, ReadUpto(n, i - 1))
        BY <4>1
      <4>. HIDE DEF g
      <4>. QED
        BY <1>2, <3>1, <3>3, <4>2
    <3>. QED
      BY <3>2, <3>3
  <2>3. FlatBy(g, q)
    BY <1>2, <2>2 DEF FlatBy
  <2>4. g[Len(q)] = SubSeq(b, 1, n)
    BY <1>1, <1>2, <2>1
  <2>. HIDE DEF g
  <2>5. FlattenSeq(q) = SubSeq(b, 1, n)
    BY <1>2, <2>1, <2>3, <2>4, FlattenIs
  <2>. QED
    BY <1>1, <2>5 DEF q
<1>. QED
  BY <1>3, <1>4

-----------------------------------------------------------------------------
(* Objects, connections and the queue.                                     *)

Receivers == {Proxy, Sink} \cup {TimerD(t) : t \in AllTimers}

(* The connections the framework makes, each once, and the slots that a    *)
(* receiver has then.                                                      *)
Wire(from, signal, to, id) == [from |-> from, signal |-> signal, to |-> to, id |-> id]
Wires ==
  {Wire(Sock, "readyRead", Proxy, 1), Wire(Sock, "connected", Proxy, 2),
   Wire(Proxy, "inputData", Sink, 1)}
  \cup {Wire(Timer(t), "timeout", TimerD(t), 1) : t \in AllTimers}
SlotsFor(o) ==
  IF o = Proxy THEN <<"readyRead", "connected">>
  ELSE IF o = Sink THEN <<"inputData">> ELSE <<"timeout">>

Events == [to : Receivers, id : {1, 2}, arg : Seq(Nat)]

(* The function that an event calls.                                       *)
Called(e) == <<e.to, SlotsFor(e.to)[e.id]>>

(* A receiver has all its slots from the moment qt.connect keeps it.       *)
Slotted(slots, kept) ==
  /\ DOMAIN slots = Objects
  /\ \A o \in Objects : slots[o] = IF o \in kept THEN SlotsFor(o) ELSE <<>>

(* Exactly the connections of W are made, each once.                       *)
Laid(cs, W) ==
  /\ cs \in Seq(Wires)
  /\ \A i \in DOMAIN cs : cs[i] \in W
  /\ \A i, j \in DOMAIN cs : cs[i] = cs[j] => i = j
  /\ \A w \in W : \E i \in DOMAIN cs : cs[i] = w

WiresTo(kept) == {w \in Wires : w.to \in kept}

(* There is one connection of each kind to every receiver that is kept.    *)
Wired ==
  /\ DOMAIN meta = {"slots", "registry", "connections"}
  /\ Slotted(meta.slots, meta.registry)
  /\ Laid(meta.connections, WiresTo(meta.registry))

(* What is kept lives, and which objects come and are kept together.       *)
Owned ==
  /\ objects \subseteq Objects /\ held \subseteq objects
  /\ meta.registry \subseteq Receivers \cap objects
  /\ {Sock, Proxy, Sink} \subseteq objects \/ {Sock, Proxy, Sink} \cap objects = {}
  /\ Sock \in objects => {Proxy, Sink} \subseteq meta.registry
  /\ \A t \in Timers :
        /\ Timer(t) \in objects => Timer(t) \in held /\ TimerD(t) \in meta.registry
        /\ TimerD(t) \in objects => Timer(t) \in objects
  /\ TimerD(Beat) \in meta.registry \cup held => Timer(Beat) \in objects
  /\ TimerD(Beat) \in held => Timer(Beat) \in held

(* The socket lives as long as its adapter, which is for good.             *)
Sockets ==
  /\ socket \in [state : {"none", "new", "connecting", "up", "closed"}, bytes : Seq(Nat)]
  /\ socket.state = "none" <=> Sock \notin objects

(* A timer that runs lives, and its signal is connected.                   *)
TimersLive ==
  \A t \in active : t \in AllTimers /\ Timer(t) \in objects /\ TimerD(t) \in meta.registry

(* Events are for receivers that are kept.                                 *)
Fit(q, kept) ==
  /\ q \in Seq(Events)
  /\ \A i \in DOMAIN q : q[i].to \in kept /\ (q[i].id = 2 => q[i].to = Proxy)
Queued == Fit(posted, meta.registry) /\ batch \in 0..Len(posted)

History ==
  /\ arrived \in Seq(Nat) /\ got \in Seq(Nat)
  /\ raised \in [Slots -> Nat] /\ ran \in [Slots -> Nat]

Plumbing == Wired /\ Owned /\ Sockets /\ TimersLive

-----------------------------------------------------------------------------
(* Objects and connections.                                                *)

LEMMA ObjectsDiffer ==
  /\ Sock # Proxy /\ Sock # Sink /\ Proxy # Sink
  /\ \A t \in AllTimers : /\ Timer(t) \notin {Sock, Proxy, Sink}
                          /\ TimerD(t) \notin {Sock, Proxy, Sink}
  /\ \A t, u \in AllTimers : /\ Timer(t) # TimerD(u)
                             /\ Timer(t) = Timer(u) => t = u
                             /\ TimerD(t) = TimerD(u) => t = u
  /\ Beat \in AllTimers /\ Timers \subseteq AllTimers /\ Beat \notin Timers
<1>1. Sock # Proxy /\ Sock # Sink /\ Proxy # Sink
  BY DEF Sock, Proxy, Sink
<1>2. ASSUME NEW t \in AllTimers
      PROVE  Timer(t) \notin {Sock, Proxy, Sink} /\ TimerD(t) \notin {Sock, Proxy, Sink}
  BY DEF Sock, Proxy, Sink, Timer, TimerD
<1>3. ASSUME NEW t \in AllTimers, NEW u \in AllTimers
      PROVE  /\ Timer(t) # TimerD(u)
             /\ Timer(t) = Timer(u) => t = u
             /\ TimerD(t) = TimerD(u) => t = u
  BY DEF Timer, TimerD
<1>4. Beat \in AllTimers /\ Timers \subseteq AllTimers /\ Beat \notin Timers
  BY QtLuaAssumption DEF AllTimers, Beat
<1>. QED
  BY <1>1, <1>2, <1>3, <1>4

LEMMA ObjectsMembers ==
  /\ {Sock, Proxy, Sink} \subseteq Objects
  /\ \A t \in AllTimers : Timer(t) \in Objects /\ TimerD(t) \in Objects
  /\ Receivers \subseteq Objects
<1>1. {Sock, Proxy, Sink} \subseteq Objects
  BY DEF Objects
<1>2. \A t \in AllTimers : Timer(t) \in Objects /\ TimerD(t) \in Objects
  BY DEF Objects, Timer, TimerD
<1>. QED
  BY <1>1, <1>2 DEF Receivers

LEMMA ObjectsCases ==
  \A o \in Objects : \/ o \in {Sock, Proxy, Sink}
                     \/ \E t \in AllTimers : o = Timer(t) \/ o = TimerD(t)
<1>. SUFFICES ASSUME NEW o \in Objects, o \notin {Sock, Proxy, Sink}
              PROVE  \E t \in AllTimers : o = Timer(t) \/ o = TimerD(t)
  OBVIOUS
<1>1. o \in {<<k, t>> : k \in {"timer", "timerd"}, t \in AllTimers}
  BY DEF Objects
<1>2. PICK k \in {"timer", "timerd"}, t \in AllTimers : o = <<k, t>>
  BY <1>1
<1>. QED
  BY <1>2 DEF Timer, TimerD

(* The kinds of connections.                                               *)
TimerWire(t) == Wire(Timer(t), "timeout", TimerD(t), 1)
ReadWire == Wire(Sock, "readyRead", Proxy, 1)
ConnectWire == Wire(Sock, "connected", Proxy, 2)
InputWire == Wire(Proxy, "inputData", Sink, 1)

LEMMA WireFields ==
  /\ ReadWire.from = Sock /\ ReadWire.signal = "readyRead" /\ ReadWire.to = Proxy /\ ReadWire.id = 1
  /\ ConnectWire.from = Sock /\ ConnectWire.signal = "connected"
  /\ ConnectWire.to = Proxy /\ ConnectWire.id = 2
  /\ InputWire.from = Proxy /\ InputWire.signal = "inputData" /\ InputWire.to = Sink /\ InputWire.id = 1
  /\ \A t : /\ TimerWire(t).from = Timer(t) /\ TimerWire(t).signal = "timeout"
            /\ TimerWire(t).to = TimerD(t) /\ TimerWire(t).id = 1
BY DEF ReadWire, ConnectWire, InputWire, TimerWire, Wire

LEMMA WireKinds ==
  /\ {ReadWire, ConnectWire, InputWire} \subseteq Wires
  /\ \A t \in AllTimers : TimerWire(t) \in Wires
  /\ \A w \in Wires : \/ w \in {ReadWire, ConnectWire, InputWire}
                      \/ \E t \in AllTimers : w = TimerWire(t)
<1>1. {ReadWire, ConnectWire, InputWire} \subseteq Wires
  BY DEF Wires, ReadWire, ConnectWire, InputWire
<1>2. \A t \in AllTimers : TimerWire(t) \in Wires
  BY DEF Wires, TimerWire
<1>3. ASSUME NEW w \in Wires
      PROVE  w \in {ReadWire, ConnectWire, InputWire} \/ \E t \in AllTimers : w = TimerWire(t)
  BY DEF Wires, TimerWire, ReadWire, ConnectWire, InputWire
<1>. QED
  BY <1>1, <1>2, <1>3

(* A signal has one connection.                                            *)
LEMMA WiresDiffer ==
  ASSUME NEW v \in Wires, NEW w \in Wires, v.from = w.from, v.signal = w.signal
  PROVE  v = w
<1>1. v \in {ReadWire, ConnectWire, InputWire} \/ \E t \in AllTimers : v = TimerWire(t)
  BY WireKinds
<1>2. w \in {ReadWire, ConnectWire, InputWire} \/ \E t \in AllTimers : w = TimerWire(t)
  BY WireKinds
<1>3. CASE v \in {ReadWire, ConnectWire, InputWire} /\ w \in {ReadWire, ConnectWire, InputWire}
  BY <1>3, WireFields
<1>4. CASE v \in {ReadWire, ConnectWire, InputWire} /\ \E t \in AllTimers : w = TimerWire(t)
  BY <1>4, WireFields
<1>5. CASE w \in {ReadWire, ConnectWire, InputWire} /\ \E t \in AllTimers : v = TimerWire(t)
  BY <1>5, WireFields
<1>6. CASE (\E t \in AllTimers : v = TimerWire(t)) /\ \E t \in AllTimers : w = TimerWire(t)
  <2>1. PICK t \in AllTimers : v = TimerWire(t)
    BY <1>6
  <2>2. PICK u \in AllTimers : w = TimerWire(u)
    BY <1>6
  <2>3. Timer(t) = Timer(u)
    BY <2>1, <2>2, WireFields
  <2>4. t = u
    BY <2>3, ObjectsDiffer
  <2>. QED
    BY <2>1, <2>2, <2>4
<1>. QED
  BY <1>1, <1>2, <1>3, <1>4, <1>5, <1>6

LEMMA WireTypes ==
  ASSUME NEW w \in Wires
  PROVE  w.to \in Receivers /\ w.id \in {1, 2} /\ (w.id = 2 => w.to = Proxy)
<1>1. CASE w \in {ReadWire, ConnectWire, InputWire}
  BY <1>1, WireFields DEF Receivers
<1>2. CASE \E t \in AllTimers : w = TimerWire(t)
  BY <1>2, WireFields DEF Receivers
<1>. QED
  BY <1>1, <1>2, WireKinds

-----------------------------------------------------------------------------
(* qt.connect.                                                             *)

Fields(q) == DOMAIN q = {"slots", "registry", "connections"} /\ DOMAIN q.slots = Objects

Names == {"readyRead", "connected", "inputData", "timeout"}

(* c is q with one more connection, to a new slot.                         *)
ConnectedTo(c, q, from, signal, to, slot) ==
  /\ Fields(c)
  /\ c.registry = q.registry \cup {to}
  /\ c.slots[to] = Append(q.slots[to], slot)
  /\ \A o \in Objects \ {to} : c.slots[o] = q.slots[o]
  /\ c.connections = Append(q.connections, Wire(from, signal, to, Len(q.slots[to]) + 1))

(* A slot that its receiver does not have yet.                             *)
LEMMA ConnectNew ==
  ASSUME NEW q, Fields(q), NEW from, NEW signal, NEW to \in Objects, NEW slot,
         q.slots[to] \in Seq(Names), \A i \in DOMAIN q.slots[to] : q.slots[to][i] # slot
  PROVE  ConnectedTo(Connect(q, from, signal, to, slot), q, from, signal, to, slot)
<1>. DEFINE d == ConnectDynamic(q, from, signal, to, slot)
            c == [d EXCEPT !.registry = Registered(q, to)]
            w == [from |-> from, signal |-> signal, to |-> to, id |-> SlotId(q, to, slot)]
<1>1. ~IsKnown(q, to, slot)
  BY DEF IsKnown, ToSet
<1>2. SlotId(q, to, slot) = Len(q.slots[to]) + 1
  BY <1>1 DEF SlotId
<1>3. d = [q EXCEPT !.slots[to] = Append(@, slot), !.connections = Append(@, w)]
  BY <1>1 DEF ConnectDynamic
<1>. HIDE DEF w
<1>4. /\ DOMAIN d = {"slots", "registry", "connections"}
      /\ d.slots = [q.slots EXCEPT ![to] = Append(@, slot)]
      /\ d.connections = Append(q.connections, w)
      /\ d.registry = q.registry
  BY <1>3 DEF Fields
<1>. HIDE DEF d
<1>5. /\ DOMAIN d.slots = Objects
      /\ d.slots[to] = Append(q.slots[to], slot)
      /\ \A o \in Objects \ {to} : d.slots[o] = q.slots[o]
  BY <1>4 DEF Fields
<1>6. /\ DOMAIN c = {"slots", "registry", "connections"}
      /\ c.slots = d.slots /\ c.connections = d.connections
      /\ c.registry = q.registry \cup {to}
  BY <1>4 DEF Registered
<1>7. Connect(q, from, signal, to, slot) = c
  BY DEF Connect, d
<1>8. w = Wire(from, signal, to, Len(q.slots[to]) + 1)
  BY <1>2 DEF w, Wire
<1>. HIDE DEF c
<1>. QED
  BY <1>4, <1>5, <1>6, <1>7, <1>8 DEF Fields, ConnectedTo

LEMMA LaidAppend ==
  ASSUME NEW cs, NEW W \in SUBSET Wires, Laid(cs, W), NEW w \in Wires \ W
  PROVE  Laid(Append(cs, w), W \cup {w})
<1>. DEFINE ds == Append(cs, w)
            n == Len(cs)
<1>1. /\ n \in Nat /\ ds \in Seq(Wires) /\ Len(ds) = n + 1 /\ ds[n + 1] = w
      /\ \A i \in 1..n : ds[i] = cs[i]
  BY AppendProperties DEF Laid
<1>2. DOMAIN cs = 1..n /\ DOMAIN ds = 1..(n + 1)
  BY <1>1 DEF Laid
<1>. HIDE DEF ds, n
<1>3. ASSUME NEW i \in 1..(n + 1)
      PROVE  (i = n + 1 /\ ds[i] = w) \/ (i \in 1..n /\ ds[i] = cs[i] /\ cs[i] \in W)
  <2>1. CASE i = n + 1
    BY <1>1, <2>1
  <2>2. CASE i # n + 1
    <3>1. i \in 1..n
      BY <1>1, <2>2
    <3>. QED
      BY <1>1, <1>2, <3>1 DEF Laid
  <2>. QED
    BY <2>1, <2>2
<1>4. \A i \in 1..(n + 1) : ds[i] \in W \cup {w}
  BY <1>3
<1>5. ASSUME NEW i \in 1..(n + 1), NEW j \in 1..(n + 1), ds[i] = ds[j] PROVE i = j
  <2>1. CASE i = n + 1
    <3>1. ds[j] = w /\ w \notin W
      BY <1>1, <1>5, <2>1
    <3>2. j = n + 1
      BY <1>3, <3>1
    <3>. QED
      BY <2>1, <3>2
  <2>2. CASE i # n + 1 /\ j # n + 1
    <3>1. i \in 1..n /\ j \in 1..n /\ cs[i] = cs[j]
      BY <1>3, <1>5, <2>2
    <3>. QED
      BY <1>2, <3>1 DEF Laid
  <2>3. CASE j = n + 1
    <3>1. ds[i] = w /\ w \notin W
      BY <1>1, <1>5, <2>3
    <3>2. i = n + 1
      BY <1>3, <3>1
    <3>. QED
      BY <2>3, <3>2
  <2>. QED
    BY <2>1, <2>2, <2>3
<1>6. ASSUME NEW v \in W \cup {w} PROVE \E i \in 1..(n + 1) : ds[i] = v
  <2>1. CASE v = w
    BY <1>1, <2>1
  <2>2. CASE v \in W
    <3>1. PICK i \in 1..n : cs[i] = v
      BY <1>2, <2>2 DEF Laid
    <3>2. i \in 1..(n + 1) /\ ds[i] = v
      BY <1>1, <3>1
    <3>. QED
      BY <3>2
  <2>. QED
    BY <2>1, <2>2
<1>. QED
  BY <1>1, <1>2, <1>4, <1>5, <1>6 DEF Laid, ds

(* A signal posts one event, for the one connection that it has.           *)
LEMMA ActivatedIs ==
  ASSUME Wired, NEW w \in Wires, w.to \in meta.registry, NEW arg \in Seq(Nat)
  PROVE  Activated(w.from, w.signal, arg) = <<[to |-> w.to, id |-> w.id, arg |-> arg]>>
<1>. DEFINE all == meta.connections
            P == {i \in DOMAIN all : all[i].from = w.from /\ all[i].signal = w.signal}
            cs == Picked(all, P)
<1>1. /\ all \in Seq(Wires)
      /\ \A i, j \in DOMAIN all : all[i] = all[j] => i = j
      /\ \E i \in DOMAIN all : all[i] = w
  BY DEF Wired, Laid, WiresTo
<1>. HIDE DEF all
<1>2. PICK k \in DOMAIN all : all[k] = w
  BY <1>1
<1>3. ASSUME NEW i \in P PROVE i = k
  <2>1. all[i] \in Wires /\ i \in DOMAIN all
    BY <1>1
  <2>2. all[i] = w
    BY <2>1, WiresDiffer
  <2>. QED
    BY <1>1, <1>2, <2>1, <2>2
<1>4. k \in P
  BY <1>2
<1>. HIDE DEF P
<1>5. P = {k}
  BY <1>3, <1>4
<1>6. cs = <<w>>
  BY <1>1, <1>2, <1>5, PickedOne
<1>. HIDE DEF cs
<1>7. Marshal(arg) = arg
  BY DEF Marshal
<1>8. DOMAIN cs = {1} /\ cs[1] = w
  BY <1>6
<1>9. Activated(w.from, w.signal, arg)
        = [i \in DOMAIN cs |-> [to |-> cs[i].to, id |-> cs[i].id, arg |-> Marshal(arg)]]
  BY DEF Activated, all, P, cs
<1>10. [i \in DOMAIN cs |-> [to |-> cs[i].to, id |-> cs[i].id, arg |-> Marshal(arg)]]
         = [i \in {1} |-> [to |-> w.to, id |-> w.id, arg |-> arg]]
  BY <1>7, <1>8
<1>11. [i \in {1} |-> [to |-> w.to, id |-> w.id, arg |-> arg]]
         = <<[to |-> w.to, id |-> w.id, arg |-> arg]>>
  OBVIOUS
<1>. QED
  BY <1>9, <1>10, <1>11

(* The event of a connection.                                              *)
Event(w, arg) == [to |-> w.to, id |-> w.id, arg |-> arg]

LEMMA EventType ==
  ASSUME NEW w \in Wires, NEW arg \in Seq(Nat)
  PROVE  Event(w, arg) \in Events /\ Event(w, arg).to = w.to /\ Event(w, arg).id = w.id
         /\ Event(w, arg).arg = arg
BY WireTypes DEF Event, Events

(* What a signal with some arguments posts, in their order.                *)
LEMMA FlattenActivated ==
  ASSUME Wired, NEW w \in Wires, w.to \in meta.registry, NEW args \in Seq(Seq(Nat))
  PROVE  LET E == [i \in DOMAIN args |-> Event(w, args[i])] IN
         /\ E \in Seq(Events) /\ Len(E) = Len(args)
         /\ \A i \in 1..Len(args) : E[i] = Event(w, args[i])
         /\ FlattenSeq([i \in DOMAIN args |-> Activated(w.from, w.signal, args[i])]) = E
<1>. DEFINE E == [i \in DOMAIN args |-> Event(w, args[i])]
<1>1. Len(args) \in Nat /\ DOMAIN args = 1..Len(args) /\ \A i \in DOMAIN args : args[i] \in Seq(Nat)
  OBVIOUS
<1>2. \A i \in DOMAIN args : Event(w, args[i]) \in Events
  BY <1>1, EventType
<1>3. E \in Seq(Events) /\ Len(E) = Len(args) /\ \A i \in 1..Len(args) : E[i] = Event(w, args[i])
  BY <1>1, <1>2
<1>4. \A i \in DOMAIN args : Activated(w.from, w.signal, args[i]) = <<Event(w, args[i])>>
  BY <1>1, ActivatedIs DEF Event
<1>. HIDE DEF E
<1>5. DOMAIN E = DOMAIN args
  BY <1>1, <1>3
<1>6. [i \in DOMAIN args |-> Activated(w.from, w.signal, args[i])] = [i \in DOMAIN E |-> <<E[i]>>]
  BY <1>1, <1>3, <1>4, <1>5
<1>7. FlattenSeq([i \in DOMAIN E |-> <<E[i]>>]) = E
  BY <1>3, FlattenSingles
<1>. QED
  BY <1>3, <1>6, <1>7 DEF E

-----------------------------------------------------------------------------
(* How the objects and connections change.                                 *)

(* The receiver of a timer is connected.                                   *)
LEMMA TimerConnects ==
  ASSUME Wired, NEW t \in AllTimers, TimerD(t) \notin meta.registry,
         meta' = Connect(meta, Timer(t), "timeout", TimerD(t), "timeout")
  PROVE  Wired' /\ meta'.registry = meta.registry \cup {TimerD(t)}
<1>. DEFINE o == TimerD(t)
            R == meta.registry
            w == TimerWire(t)
<1>1. o \in Objects /\ o # Proxy /\ o # Sink
  BY ObjectsMembers, ObjectsDiffer
<1>2. Fields(meta) /\ meta.slots[o] = <<>>
  BY <1>1 DEF Wired, Slotted, Fields
<1>3. <<>> \in Seq(Names) /\ DOMAIN <<>> = {} /\ Len(<<>>) = 0 /\ Append(<<>>, "timeout") = <<"timeout">>
  OBVIOUS
<1>4. /\ Fields(meta') /\ meta'.registry = R \cup {o}
      /\ meta'.slots[o] = <<"timeout">>
      /\ \A p \in Objects \ {o} : meta'.slots[p] = meta.slots[p]
      /\ meta'.connections = Append(meta.connections, Wire(Timer(t), "timeout", o, 0 + 1))
  <2>. HIDE DEF o
  <2>1. /\ meta.slots[o] \in Seq(Names) /\ \A i \in DOMAIN meta.slots[o] : meta.slots[o][i] # "timeout"
    BY <1>2, <1>3
  <2>2. meta' = Connect(meta, Timer(t), "timeout", o, "timeout")
    BY DEF o
  <2>3. ConnectedTo(meta', meta, Timer(t), "timeout", o, "timeout")
    BY <1>1, <1>2, <2>1, <2>2, ConnectNew
  <2>. QED
    BY <1>2, <1>3, <2>3 DEF R, ConnectedTo
<1>5. meta'.connections = Append(meta.connections, w)
  BY <1>4 DEF TimerWire
<1>6. w \in Wires /\ w.to = o
  BY WireKinds, WireFields
<1>7. WiresTo(R \cup {o}) = WiresTo(R) \cup {w}
  <2>1. ASSUME NEW v \in Wires, v.to = o PROVE v = w
    <3>1. CASE v \in {ReadWire, ConnectWire, InputWire}
      BY <1>1, <2>1, <3>1, WireFields
    <3>2. CASE \E u \in AllTimers : v = TimerWire(u)
      <4>1. PICK u \in AllTimers : v = TimerWire(u)
        BY <3>2
      <4>2. u = t
        BY <2>1, <4>1, WireFields, ObjectsDiffer
      <4>. QED
        BY <4>1, <4>2
    <3>. QED
      BY <3>1, <3>2, WireKinds
  <2>. HIDE DEF o, w
  <2>. QED
    BY <1>6, <2>1 DEF WiresTo
<1>8. w \notin WiresTo(R) /\ WiresTo(R) \in SUBSET Wires
  BY <1>6 DEF WiresTo
<1>9. Laid(meta.connections, WiresTo(R))
  BY DEF Wired
<1>. HIDE DEF w
<1>10. Laid(meta'.connections, WiresTo(R \cup {o}))
  <2>. DEFINE W == WiresTo(R)
  <2>1. W \in SUBSET Wires /\ w \in Wires \ W /\ Laid(meta.connections, W)
    BY <1>6, <1>8, <1>9
  <2>. HIDE DEF W
  <2>2. Laid(Append(meta.connections, w), W \cup {w})
    BY <2>1, LaidAppend
  <2>. QED
    BY <1>5, <1>7, <2>2 DEF W
<1>11. SlotsFor(o) = <<"timeout">>
  BY <1>1 DEF SlotsFor
<1>. HIDE DEF o, R
<1>12. ASSUME NEW p \in Objects
       PROVE  meta'.slots[p] = IF p \in R \cup {o} THEN SlotsFor(p) ELSE <<>>
  <2>1. CASE p = o
    BY <1>4, <1>11, <2>1
  <2>2. CASE p # o
    <3>1. meta.slots[p] = IF p \in R THEN SlotsFor(p) ELSE <<>>
      BY DEF Wired, Slotted, R
    <3>. QED
      BY <1>4, <2>2, <3>1
  <2>. QED
    BY <2>1, <2>2
<1>13. Slotted(meta'.slots, R \cup {o})
  BY <1>4, <1>12 DEF Slotted, Fields
<1>14. Wired'
  BY <1>4, <1>10, <1>13 DEF Wired, Fields
<1>. QED
  BY <1>4, <1>14 DEF o, R

(* The three connections of the TCP adapter.                               *)
LEMMA TcpConnects ==
  ASSUME Wired, {Proxy, Sink} \cap meta.registry = {}, NewTcp
  PROVE  Wired' /\ meta'.registry = meta.registry \cup {Proxy, Sink}
<1>. DEFINE a == Connect(meta, Sock, "readyRead", Proxy, "readyRead")
            b == Connect(a, Proxy, "inputData", Sink, "inputData")
            R == meta.registry
            cs == meta.connections
<1>1. meta' = Connect(b, Sock, "connected", Proxy, "connected")
  BY DEF NewTcp
<1>2. Proxy \in Objects /\ Sink \in Objects /\ Proxy # Sink
  BY ObjectsMembers, ObjectsDiffer
<1>3. Fields(meta) /\ meta.slots[Proxy] = <<>> /\ meta.slots[Sink] = <<>>
  BY <1>2 DEF Wired, Slotted, Fields
<1>4. /\ <<>> \in Seq(Names) /\ DOMAIN <<>> = {} /\ Len(<<>>) = 0
      /\ Append(<<>>, "readyRead") = <<"readyRead">>
      /\ Append(<<>>, "inputData") = <<"inputData">>
      /\ <<"readyRead">> \in Seq(Names) /\ Len(<<"readyRead">>) = 1
      /\ Append(<<"readyRead">>, "connected") = <<"readyRead", "connected">>
  <2>1. <<>> \in Seq(Names) /\ DOMAIN <<>> = {} /\ Len(<<>>) = 0
    OBVIOUS
  <2>2. <<"readyRead">> \in Seq(Names) /\ Len(<<"readyRead">>) = 1
    BY DEF Names
  <2>3. Append(<<>>, "readyRead") = <<"readyRead">> /\ Append(<<>>, "inputData") = <<"inputData">>
    OBVIOUS
  <2>4. Append(<<"readyRead">>, "connected") = <<"readyRead", "connected">>
    <3>. DEFINE s == <<"readyRead">>
                u == Append(s, "connected")
                v == <<"readyRead", "connected">>
    <3>1. /\ u \in Seq(Names) /\ v \in Seq(Names) /\ Len(u) = 2 /\ Len(v) = 2
          /\ u[1] = "readyRead" /\ u[2] = "connected" /\ v[1] = "readyRead" /\ v[2] = "connected"
      BY DEF Names
    <3>. HIDE DEF u, v
    <3>2. u = v
      BY <3>1
    <3>. QED
      BY <3>2 DEF u, v
  <2>. QED
    BY <2>1, <2>2, <2>3, <2>4
<1>5. /\ Fields(a) /\ a.registry = R \cup {Proxy}
      /\ a.slots[Proxy] = <<"readyRead">>
      /\ \A p \in Objects \ {Proxy} : a.slots[p] = meta.slots[p]
      /\ a.connections = Append(cs, Wire(Sock, "readyRead", Proxy, 0 + 1))
  <2>1. /\ meta.slots[Proxy] \in Seq(Names)
        /\ \A i \in DOMAIN meta.slots[Proxy] : meta.slots[Proxy][i] # "readyRead"
    BY <1>3, <1>4
  <2>2. ConnectedTo(a, meta, Sock, "readyRead", Proxy, "readyRead")
    BY <1>2, <1>3, <2>1, ConnectNew
  <2>. HIDE DEF a
  <2>. QED
    BY <1>3, <1>4, <2>2 DEF ConnectedTo
<1>. HIDE DEF a
<1>6. /\ Fields(b) /\ b.registry = (R \cup {Proxy}) \cup {Sink}
      /\ b.slots[Sink] = <<"inputData">>
      /\ \A p \in Objects \ {Sink} : b.slots[p] = a.slots[p]
      /\ b.connections = Append(a.connections, Wire(Proxy, "inputData", Sink, 0 + 1))
  <2>1. a.slots[Sink] = <<>>
    BY <1>2, <1>3, <1>5
  <2>2. /\ a.slots[Sink] \in Seq(Names)
        /\ \A i \in DOMAIN a.slots[Sink] : a.slots[Sink][i] # "inputData"
    BY <1>4, <2>1
  <2>3. ConnectedTo(b, a, Proxy, "inputData", Sink, "inputData")
    BY <1>2, <1>5, <2>2, ConnectNew
  <2>. HIDE DEF b
  <2>. QED
    BY <1>4, <1>5, <2>1, <2>3 DEF ConnectedTo
<1>. HIDE DEF b
<1>7. /\ Fields(meta') /\ meta'.registry = ((R \cup {Proxy}) \cup {Sink}) \cup {Proxy}
      /\ meta'.slots[Proxy] = <<"readyRead", "connected">>
      /\ \A p \in Objects \ {Proxy} : meta'.slots[p] = b.slots[p]
      /\ meta'.connections = Append(b.connections, Wire(Sock, "connected", Proxy, 1 + 1))
  <2>1. b.slots[Proxy] = <<"readyRead">>
    BY <1>2, <1>5, <1>6
  <2>2. /\ b.slots[Proxy] \in Seq(Names)
        /\ \A i \in DOMAIN b.slots[Proxy] : b.slots[Proxy][i] # "connected"
    BY <1>4, <2>1
  <2>3. ConnectedTo(meta', b, Sock, "connected", Proxy, "connected")
    BY <1>1, <1>2, <1>6, <2>2, ConnectNew
  <2>. QED
    BY <1>4, <1>6, <2>1, <2>3 DEF ConnectedTo
<1>8. /\ a.connections = Append(cs, ReadWire)
      /\ b.connections = Append(a.connections, InputWire)
      /\ meta'.connections = Append(b.connections, ConnectWire)
  BY <1>5, <1>6, <1>7 DEF ReadWire, InputWire, ConnectWire
<1>9. /\ ReadWire # InputWire /\ ReadWire # ConnectWire /\ InputWire # ConnectWire
      /\ ReadWire \in Wires /\ InputWire \in Wires /\ ConnectWire \in Wires
      /\ ReadWire.to = Proxy /\ ConnectWire.to = Proxy /\ InputWire.to = Sink
  BY WireKinds, WireFields
<1>. DEFINE W == WiresTo(R)
<1>10. W \in SUBSET Wires /\ ReadWire \notin W /\ InputWire \notin W /\ ConnectWire \notin W
  BY <1>9 DEF WiresTo
<1>11. Laid(cs, W)
  BY DEF Wired
<1>. HIDE DEF W
<1>12. Laid(a.connections, W \cup {ReadWire})
  BY <1>8, <1>9, <1>10, <1>11, LaidAppend
<1>13. Laid(b.connections, (W \cup {ReadWire}) \cup {InputWire})
  <2>1. InputWire \in Wires \ (W \cup {ReadWire}) /\ W \cup {ReadWire} \in SUBSET Wires
    BY <1>9, <1>10
  <2>. QED
    BY <1>8, <1>12, <2>1, LaidAppend
<1>14. Laid(meta'.connections, ((W \cup {ReadWire}) \cup {InputWire}) \cup {ConnectWire})
  <2>1. /\ ConnectWire \in Wires \ ((W \cup {ReadWire}) \cup {InputWire})
        /\ (W \cup {ReadWire}) \cup {InputWire} \in SUBSET Wires
    BY <1>9, <1>10
  <2>. QED
    BY <1>8, <1>13, <2>1, LaidAppend
<1>15. meta'.registry = R \cup {Proxy, Sink}
  BY <1>7
<1>16. WiresTo(R \cup {Proxy, Sink}) = ((W \cup {ReadWire}) \cup {InputWire}) \cup {ConnectWire}
  <2>1. ASSUME NEW v \in Wires, v.to \in {Proxy, Sink}
        PROVE  v \in {ReadWire, ConnectWire, InputWire}
    <3>1. CASE \E u \in AllTimers : v = TimerWire(u)
      BY <2>1, <3>1, WireFields, ObjectsDiffer
    <3>. QED
      BY <3>1, WireKinds
  <2>. QED
    BY <1>9, <2>1 DEF WiresTo, W
<1>17. SlotsFor(Proxy) = <<"readyRead", "connected">> /\ SlotsFor(Sink) = <<"inputData">>
  BY <1>2 DEF SlotsFor
<1>18. ASSUME NEW p \in Objects
       PROVE  meta'.slots[p] = IF p \in R \cup {Proxy, Sink} THEN SlotsFor(p) ELSE <<>>
  <2>1. CASE p = Proxy
    BY <1>7, <1>17, <2>1
  <2>2. CASE p = Sink
    BY <1>2, <1>6, <1>7, <1>17, <2>2
  <2>3. CASE p \notin {Proxy, Sink}
    <3>1. meta.slots[p] = IF p \in R THEN SlotsFor(p) ELSE <<>>
      BY DEF Wired, Slotted
    <3>2. meta'.slots[p] = meta.slots[p]
      BY <1>5, <1>6, <1>7, <2>3
    <3>. QED
      BY <2>3, <3>1, <3>2
  <2>. QED
    BY <2>1, <2>2, <2>3
<1>. HIDE DEF R, cs
<1>19. Slotted(meta'.slots, R \cup {Proxy, Sink})
  BY <1>7, <1>18 DEF Slotted, Fields
<1>20. Wired'
  BY <1>7, <1>14, <1>15, <1>16, <1>19 DEF Wired, Fields
<1>. QED
  BY <1>15, <1>20 DEF R

-----------------------------------------------------------------------------
(* Each kind of step keeps Plumbing.                                       *)

(* The script may forget what is its own; the timers of RunAfter are not.  *)
Forgets ==
  /\ held' \subseteq held
  /\ \A t \in Timers : Timer(t) \in held => Timer(t) \in held'
  /\ TimerD(Beat) \in held' => Timer(Beat) \in held'

LEMMA QuietPlumbing ==
  ASSUME Plumbing, UNCHANGED <<meta, objects>>, active' \subseteq active, Forgets,
         socket' \in [state : {"none", "new", "connecting", "up", "closed"}, bytes : Seq(Nat)],
         socket'.state = "none" <=> socket.state = "none"
  PROVE  Plumbing'
<1>1. Wired'
  BY DEF Plumbing, Wired
<1>2. Owned'
  BY DEF Plumbing, Owned, Forgets
<1>3. Sockets'
  BY DEF Plumbing, Sockets
<1>4. TimersLive'
  BY DEF Plumbing, TimersLive
<1>. QED
  BY <1>1, <1>2, <1>3, <1>4 DEF Plumbing

LEMMA HeldStays ==
  ASSUME Plumbing, held' = held
  PROVE  Forgets
BY DEF Plumbing, Owned, Forgets

LEMMA SocketStays ==
  ASSUME Plumbing, socket' = socket
  PROVE  /\ socket' \in [state : {"none", "new", "connecting", "up", "closed"}, bytes : Seq(Nat)]
         /\ socket'.state = "none" <=> socket.state = "none"
BY DEF Plumbing, Sockets

(* Nothing of it changes, or a timer stops.                                *)
LEMMA StillPlumbing ==
  ASSUME Plumbing, UNCHANGED <<meta, objects, held, socket>>, active' \subseteq active
  PROVE  Plumbing'
BY HeldStays, SocketStays, QuietPlumbing

LEMMA ForgetPlumbing ==
  ASSUME Plumbing, Forget \/ ForgetBeat
  PROVE  Plumbing'
<1>1. UNCHANGED <<meta, objects, active, socket>>
  BY DEF Forget, ForgetBeat
<1>2. held' = held \ {Sock, Proxy} \/ held' = held \ {Timer(Beat), TimerD(Beat)}
  BY DEF Forget, ForgetBeat
<1>3. \A t \in Timers : Timer(t) \notin {Sock, Proxy, Timer(Beat), TimerD(Beat)}
  BY DistinctObjects
<1>4. Timer(Beat) \notin {Sock, Proxy}
  BY ObjectsDiffer
<1>5. TimerD(Beat) \in held => Timer(Beat) \in held
  BY DEF Plumbing, Owned
<1>6. Forgets
  BY <1>2, <1>3, <1>4, <1>5 DEF Forgets
<1>. QED
  BY <1>1, <1>6, SocketStays, QuietPlumbing

LEMMA NewTcpPlumbing ==
  ASSUME Plumbing, NewTcp
  PROVE  Plumbing' /\ meta'.registry = meta.registry \cup {Proxy, Sink}
<1>1. /\ objects' = objects \cup {Sock, Proxy, Sink}
      /\ held' = held \cup {Sock, Proxy}
      /\ socket' = [socket EXCEPT !.state = "new"]
      /\ active' = active /\ socket.state = "none"
  BY DEF NewTcp
<1>2. {Sock, Proxy, Sink} \cap objects = {}
  BY <1>1 DEF Plumbing, Owned, Sockets
<1>3. {Proxy, Sink} \cap meta.registry = {}
  BY <1>2 DEF Plumbing, Owned
<1>4. Wired' /\ meta'.registry = meta.registry \cup {Proxy, Sink}
  BY <1>3, TcpConnects DEF Plumbing
<1>5. /\ \A t \in AllTimers : {Timer(t), TimerD(t)} \cap {Sock, Proxy, Sink} = {}
      /\ Timers \subseteq AllTimers /\ Beat \in AllTimers
  BY ObjectsDiffer
<1>6. {Sock, Proxy, Sink} \subseteq Objects /\ {Proxy, Sink} \subseteq Receivers
  BY ObjectsMembers DEF Receivers
<1>7. Owned'
  <2>1. objects' \subseteq Objects /\ held' \subseteq objects'
    BY <1>1, <1>6 DEF Plumbing, Owned
  <2>2. meta'.registry \subseteq Receivers \cap objects'
    BY <1>1, <1>4, <1>6 DEF Plumbing, Owned
  <2>3. {Sock, Proxy, Sink} \subseteq objects' /\ {Proxy, Sink} \subseteq meta'.registry
    BY <1>1, <1>4
  <2>4. ASSUME NEW t \in Timers
        PROVE  /\ Timer(t) \in objects' => Timer(t) \in held' /\ TimerD(t) \in meta'.registry
               /\ TimerD(t) \in objects' => Timer(t) \in objects'
    BY <1>1, <1>4, <1>5 DEF Plumbing, Owned
  <2>5. /\ TimerD(Beat) \in meta'.registry \cup held' => Timer(Beat) \in objects'
        /\ TimerD(Beat) \in held' => Timer(Beat) \in held'
    BY <1>1, <1>4, <1>5 DEF Plumbing, Owned
  <2>. QED
    BY <2>1, <2>2, <2>3, <2>4, <2>5 DEF Owned
<1>8. Sockets'
  <2>1. /\ socket' \in [state : {"none", "new", "connecting", "up", "closed"}, bytes : Seq(Nat)]
        /\ socket'.state = "new"
    BY <1>1 DEF Plumbing, Sockets
  <2>. QED
    BY <1>1, <2>1 DEF Sockets
<1>9. TimersLive'
  BY <1>1, <1>4 DEF Plumbing, TimersLive
<1>. QED
  BY <1>4, <1>7, <1>8, <1>9 DEF Plumbing

LEMMA RunAfterPlumbing ==
  ASSUME Plumbing, NEW t \in Timers, RunAfter(t)
  PROVE  Plumbing' /\ meta'.registry = meta.registry \cup {TimerD(t)}
<1>1. /\ objects' = objects \cup {Timer(t), TimerD(t)}
      /\ held' = held \cup {Timer(t)}
      /\ meta' = Connect(meta, Timer(t), "timeout", TimerD(t), "timeout")
      /\ socket' = socket /\ active' = active \cup {t}
      /\ {Timer(t), TimerD(t)} \cap objects = {}
  BY DEF RunAfter, Kept
<1>2. t \in AllTimers /\ Beat \in AllTimers /\ t # Beat /\ Timers \subseteq AllTimers
  BY ObjectsDiffer
<1>3. TimerD(t) \notin meta.registry
  BY <1>1 DEF Plumbing, Owned
<1>4. Wired' /\ meta'.registry = meta.registry \cup {TimerD(t)}
  BY <1>1, <1>2, <1>3, TimerConnects DEF Plumbing
<1>5. {Timer(t), TimerD(t)} \cap {Sock, Proxy, Sink, Timer(Beat), TimerD(Beat)} = {}
  BY <1>2, ObjectsDiffer
<1>6. /\ \A u \in Timers : u # t => {Timer(u), TimerD(u)} \cap {Timer(t), TimerD(t)} = {}
      /\ Timer(t) # TimerD(t)
  BY <1>2, ObjectsDiffer
<1>7. {Timer(t), TimerD(t)} \subseteq Objects /\ TimerD(t) \in Receivers
  BY <1>2, ObjectsMembers DEF Receivers
<1>8. Owned'
  <2>1. objects' \subseteq Objects /\ held' \subseteq objects'
    BY <1>1, <1>7 DEF Plumbing, Owned
  <2>2. meta'.registry \subseteq Receivers \cap objects'
    BY <1>1, <1>4, <1>7 DEF Plumbing, Owned
  <2>3. /\ {Sock, Proxy, Sink} \subseteq objects' \/ {Sock, Proxy, Sink} \cap objects' = {}
        /\ Sock \in objects' => {Proxy, Sink} \subseteq meta'.registry
    BY <1>1, <1>4, <1>5 DEF Plumbing, Owned
  <2>4. ASSUME NEW u \in Timers
        PROVE  /\ Timer(u) \in objects' => Timer(u) \in held' /\ TimerD(u) \in meta'.registry
               /\ TimerD(u) \in objects' => Timer(u) \in objects'
    <3>1. CASE u = t
      BY <1>1, <1>4, <3>1
    <3>2. CASE u # t
      BY <1>1, <1>4, <1>6, <3>2 DEF Plumbing, Owned
    <3>. QED
      BY <3>1, <3>2
  <2>5. /\ TimerD(Beat) \in meta'.registry \cup held' => Timer(Beat) \in objects'
        /\ TimerD(Beat) \in held' => Timer(Beat) \in held'
    BY <1>1, <1>4, <1>5 DEF Plumbing, Owned
  <2>. QED
    BY <2>1, <2>2, <2>3, <2>4, <2>5 DEF Owned
<1>9. Sockets'
  <2>1. Sock \in objects' <=> Sock \in objects
    BY <1>1, <1>5
  <2>. QED
    BY <1>1, <2>1 DEF Plumbing, Sockets
<1>10. TimersLive'
  BY <1>1, <1>2, <1>4 DEF Plumbing, TimersLive
<1>. QED
  BY <1>4, <1>8, <1>9, <1>10 DEF Plumbing

LEMMA NewBeatPlumbing ==
  ASSUME Plumbing, NewBeat
  PROVE  Plumbing' /\ meta' = meta
<1>1. /\ objects' = objects \cup {Timer(Beat), TimerD(Beat)}
      /\ held' = held \cup {Timer(Beat), TimerD(Beat)}
      /\ UNCHANGED <<meta, socket, active>>
  BY DEF NewBeat
<1>2. {Timer(Beat), TimerD(Beat)} \cap {Sock, Proxy, Sink} = {}
  BY ObjectsDiffer
<1>3. \A u \in Timers : {Timer(u), TimerD(u)} \cap {Timer(Beat), TimerD(Beat)} = {}
  <2>1. ASSUME NEW u \in Timers PROVE {Timer(u), TimerD(u)} \cap {Timer(Beat), TimerD(Beat)} = {}
    <3>1. u \in AllTimers /\ Beat \in AllTimers /\ u # Beat
      BY ObjectsDiffer
    <3>. QED
      BY <3>1, ObjectsDiffer
  <2>. QED
    BY <2>1
<1>4. {Timer(Beat), TimerD(Beat)} \subseteq Objects
  BY ObjectsDiffer, ObjectsMembers
<1>5. Owned'
  <2>1. objects' \subseteq Objects /\ held' \subseteq objects'
    BY <1>1, <1>4 DEF Plumbing, Owned
  <2>2. meta'.registry \subseteq Receivers \cap objects'
    BY <1>1 DEF Plumbing, Owned
  <2>3. /\ {Sock, Proxy, Sink} \subseteq objects' \/ {Sock, Proxy, Sink} \cap objects' = {}
        /\ Sock \in objects' => {Proxy, Sink} \subseteq meta'.registry
    BY <1>1, <1>2 DEF Plumbing, Owned
  <2>4. ASSUME NEW u \in Timers
        PROVE  /\ Timer(u) \in objects' => Timer(u) \in held' /\ TimerD(u) \in meta'.registry
               /\ TimerD(u) \in objects' => Timer(u) \in objects'
    BY <1>1, <1>3 DEF Plumbing, Owned
  <2>. QED
    BY <1>1, <2>1, <2>2, <2>3, <2>4 DEF Owned
<1>6. Wired'
  BY <1>1 DEF Plumbing, Wired
<1>7. Sockets'
  <2>1. Sock \in objects' <=> Sock \in objects
    BY <1>1, <1>2
  <2>. QED
    BY <1>1, <2>1 DEF Plumbing, Sockets
<1>8. TimersLive'
  BY <1>1 DEF Plumbing, TimersLive
<1>. QED
  BY <1>1, <1>5, <1>6, <1>7, <1>8 DEF Plumbing

LEMMA StartBeatPlumbing ==
  ASSUME Plumbing, StartBeat
  PROVE  Plumbing' /\ meta'.registry = meta.registry \cup {TimerD(Beat)}
<1>1. UNCHANGED <<objects, held, socket>> /\ active' = active \cup {Beat} /\ TimerD(Beat) \in held
  BY DEF StartBeat
<1>2. Wired' /\ meta'.registry = meta.registry \cup {TimerD(Beat)}
  <2>1. CASE TimerD(Beat) \in meta.registry
    <3>1. meta' = meta
      BY <2>1 DEF StartBeat
    <3>. QED
      BY <2>1, <3>1 DEF Plumbing, Wired
  <2>2. CASE TimerD(Beat) \notin meta.registry
    <3>1. meta' = Connect(meta, Timer(Beat), "timeout", TimerD(Beat), "timeout")
      BY <2>2 DEF StartBeat
    <3>. QED
      BY <2>2, <3>1, TimerConnects, ObjectsDiffer DEF Plumbing
  <2>. QED
    BY <2>1, <2>2
<1>3. TimerD(Beat) \in Receivers /\ Beat \in AllTimers /\ TimerD(Beat) \notin {Proxy, Sink}
  BY ObjectsDiffer DEF Receivers
<1>4. Owned'
  <2>1. meta'.registry \subseteq Receivers \cap objects'
    BY <1>1, <1>2, <1>3 DEF Plumbing, Owned
  <2>2. Sock \in objects' => {Proxy, Sink} \subseteq meta'.registry
    BY <1>1, <1>2 DEF Plumbing, Owned
  <2>3. ASSUME NEW u \in Timers
        PROVE  /\ Timer(u) \in objects' => Timer(u) \in held' /\ TimerD(u) \in meta'.registry
               /\ TimerD(u) \in objects' => Timer(u) \in objects'
    BY <1>1, <1>2 DEF Plumbing, Owned
  <2>4. Timer(Beat) \in objects
    BY <1>1 DEF Plumbing, Owned
  <2>. QED
    BY <1>1, <2>1, <2>2, <2>3, <2>4 DEF Plumbing, Owned
<1>5. Sockets'
  BY <1>1 DEF Plumbing, Sockets
<1>6. TimersLive'
  BY <1>1, <1>2, <1>3, <1>4 DEF Plumbing, TimersLive, Owned
<1>. QED
  BY <1>2, <1>4, <1>5, <1>6 DEF Plumbing

(* All that the garbage collector ever takes is the timer, or the receiver,*)
(* of a heartbeat that was never started.                                  *)
LEMMA CollectedIs ==
  ASSUME Plumbing, NEW o \in Objects, Collect(o)
  PROVE  /\ o \in {Timer(Beat), TimerD(Beat)}
         /\ o \notin held /\ TimerD(Beat) \notin meta.registry /\ o \notin meta.registry
         /\ o = Timer(Beat) => TimerD(Beat) \notin held
<1>1. o \in objects /\ o \notin Reachable
  BY DEF Collect
<1>2. o \notin held /\ o \notin meta.registry
  BY <1>1 DEF Reachable, Roots
<1>3. o \notin {Sock, Proxy, Sink}
  <2>. SUFFICES ASSUME o \in {Sock, Proxy, Sink} PROVE FALSE
    OBVIOUS
  <2>1. {Proxy, Sink} \subseteq meta.registry
    BY <1>1 DEF Plumbing, Owned
  <2>2. Sock \in Reachable
    BY <2>1 DEF Reachable, Roots
  <2>. QED
    BY <1>1, <1>2, <2>1, <2>2
<1>4. PICK t \in AllTimers : o = Timer(t) \/ o = TimerD(t)
  BY <1>3, ObjectsCases
<1>5. t = Beat
  <2>1. ASSUME t \in Timers PROVE FALSE
    BY <1>1, <1>2, <1>4, <2>1 DEF Plumbing, Owned
  <2>. QED
    BY <2>1 DEF AllTimers
<1>6. o = Timer(Beat) => TimerD(Beat) \notin held /\ TimerD(Beat) \notin meta.registry
  BY <1>1 DEF Reachable, Roots
<1>. QED
  BY <1>2, <1>4, <1>5, <1>6

(* ... which has no slots, no connections and no events.                   *)
LEMMA CollectMeta ==
  ASSUME Plumbing, NEW o \in Objects, Collect(o)
  PROVE  /\ DOMAIN meta' = {"slots", "registry", "connections"}
         /\ meta'.registry = meta.registry /\ meta'.connections = meta.connections
         /\ DOMAIN meta'.slots = Objects
         /\ \A p \in Objects : meta'.slots[p] = meta.slots[p]
<1>. DEFINE cs == meta.connections
            d == Detached(cs, o)
            ss == meta.slots
<1>1. meta' = [meta EXCEPT !.connections = d, !.slots[o] = <<>>]
  BY DEF Collect
<1>2. DOMAIN meta = {"slots", "registry", "connections"}
  BY DEF Plumbing, Wired
<1>3. /\ o \in {Timer(Beat), TimerD(Beat)}
      /\ TimerD(Beat) \notin meta.registry /\ o \notin meta.registry
  BY CollectedIs
<1>4. cs \in Seq(Wires) /\ \A i \in DOMAIN cs : cs[i] \in Wires /\ cs[i].to \in meta.registry
  BY DEF Plumbing, Wired, Laid, WiresTo
<1>5. d = cs
  <2>. DEFINE P == {i \in DOMAIN cs : cs[i].from # o /\ cs[i].to # o}
  <2>1. ASSUME NEW w \in Wires, w.to \in meta.registry PROVE w.from # o /\ w.to # o
    <3>1. CASE w \in {ReadWire, ConnectWire, InputWire}
      BY <1>3, <2>1, <3>1, WireFields, ObjectsDiffer
    <3>2. CASE \E t \in AllTimers : w = TimerWire(t)
      <4>1. PICK t \in AllTimers : w = TimerWire(t)
        BY <3>2
      <4>2. w.from = Timer(t) /\ w.to = TimerD(t) /\ t # Beat
        BY <1>3, <2>1, <4>1, WireFields
      <4>3. Timer(t) # Timer(Beat) /\ Timer(t) # TimerD(Beat)
        BY <4>2, ObjectsDiffer
      <4>. QED
        BY <1>3, <2>1, <4>2, <4>3
    <3>. QED
      BY <3>1, <3>2, WireKinds
  <2>2. DOMAIN cs \subseteq P
    BY <1>4, <2>1
  <2>. HIDE DEF P, cs
  <2>3. Picked(cs, P) = cs
    BY <1>4, <2>2, PickedAll
  <2>. QED
    BY <2>3 DEF Detached, P
<1>6. DOMAIN ss = Objects /\ ss[o] = <<>>
  BY <1>3 DEF Plumbing, Wired, Slotted
<1>. HIDE DEF d
<1>7. /\ DOMAIN meta' = {"slots", "registry", "connections"}
      /\ meta'.registry = meta.registry /\ meta'.connections = d
      /\ meta'.slots = [meta.slots EXCEPT ![o] = <<>>]
  BY <1>1, <1>2
<1>8. DOMAIN meta'.slots = Objects /\ \A p \in Objects : meta'.slots[p] = meta.slots[p]
  BY <1>6, <1>7
<1>. QED
  BY <1>5, <1>7, <1>8

LEMMA CollectPlumbing ==
  ASSUME Plumbing, NEW o \in Objects, Collect(o)
  PROVE  Plumbing' /\ meta'.registry = meta.registry
<1>1. /\ o \in {Timer(Beat), TimerD(Beat)}
      /\ o \notin held /\ TimerD(Beat) \notin meta.registry /\ o \notin meta.registry
      /\ o = Timer(Beat) => TimerD(Beat) \notin held
  BY CollectedIs
<1>2. /\ DOMAIN meta' = {"slots", "registry", "connections"}
      /\ meta'.registry = meta.registry /\ meta'.connections = meta.connections
      /\ DOMAIN meta'.slots = Objects
      /\ \A p \in Objects : meta'.slots[p] = meta.slots[p]
  BY CollectMeta
<1>3. o \notin {Sock, Proxy, Sink} /\ \A u \in Timers : o # Timer(u) /\ o # TimerD(u)
  <2>1. o \notin {Sock, Proxy, Sink}
    BY <1>1, ObjectsDiffer
  <2>2. ASSUME NEW u \in Timers PROVE o # Timer(u) /\ o # TimerD(u)
    <3>1. u \in AllTimers /\ Beat \in AllTimers /\ u # Beat
      BY ObjectsDiffer
    <3>. QED
      BY <1>1, <3>1, ObjectsDiffer
  <2>. QED
    BY <2>1, <2>2
<1>4. /\ objects' = objects \ {o} /\ held' = held
      /\ active' = {t \in active : Timer(t) # o}
      /\ socket' = socket
  BY <1>3 DEF Collect
<1>5. Wired'
  BY <1>2 DEF Plumbing, Wired, Slotted
<1>6. Owned'
  <2>1. objects' \subseteq Objects /\ held' \subseteq objects'
    BY <1>1, <1>4 DEF Plumbing, Owned
  <2>2. meta'.registry \subseteq Receivers \cap objects'
    BY <1>1, <1>2, <1>4 DEF Plumbing, Owned
  <2>3. /\ {Sock, Proxy, Sink} \subseteq objects' \/ {Sock, Proxy, Sink} \cap objects' = {}
        /\ Sock \in objects' => {Proxy, Sink} \subseteq meta'.registry
    BY <1>2, <1>3, <1>4 DEF Plumbing, Owned
  <2>4. ASSUME NEW u \in Timers
        PROVE  /\ Timer(u) \in objects' => Timer(u) \in held' /\ TimerD(u) \in meta'.registry
               /\ TimerD(u) \in objects' => Timer(u) \in objects'
    BY <1>2, <1>3, <1>4 DEF Plumbing, Owned
  <2>5. /\ TimerD(Beat) \in meta'.registry \cup held' => Timer(Beat) \in objects'
        /\ TimerD(Beat) \in held' => Timer(Beat) \in held'
    BY <1>1, <1>2, <1>4 DEF Plumbing, Owned
  <2>. QED
    BY <2>1, <2>2, <2>3, <2>4, <2>5 DEF Owned
<1>7. Sockets'
  <2>1. Sock \in objects' <=> Sock \in objects
    BY <1>3, <1>4
  <2>. QED
    BY <1>4, <2>1 DEF Plumbing, Sockets
<1>8. TimersLive'
  BY <1>2, <1>4 DEF Plumbing, TimersLive
<1>. QED
  BY <1>2, <1>5, <1>6, <1>7, <1>8 DEF Plumbing

-----------------------------------------------------------------------------
(* What is in the queue.                                                   *)

(* The bytes an event brings to the handler of the script.                 *)
Input(e) == IF e.to = Sink THEN e.arg ELSE <<>>

(* g[i] is what the first i events of q bring.                             *)
Carries(g, q, n) ==
  /\ g \in [0..n -> Seq(Nat)] /\ g[0] = <<>>
  /\ \A i \in 1..n : g[i] = g[i - 1] \o Input(q[i])

LEMMA InputType ==
  ASSUME NEW e \in Events
  PROVE  Input(e) \in Seq(Nat)
BY DEF Events, Input

Associates(S) == \A x, y, z \in Seq(S) : (x \o y) \o z = x \o (y \o z)

LEMMA BytesAssociate ==
  \A x, y, z \in Seq(Nat) : (x \o y) \o z = x \o (y \o z)
<1>1. \A S : \A x, y, z \in Seq(S) : (x \o y) \o z = x \o (y \o z)
  BY ConcatAssociative, Zenon
<1>2. \A S : Associates(S)
  BY <1>1, Zenon DEF Associates
<1>3. Associates(Nat)
  BY <1>2
<1>. QED
  BY <1>3 DEF Associates

LEMMA CarriesExists ==
  ASSUME NEW q \in Seq(Events)
  PROVE  \E g : Carries(g, q, Len(q))
<1>. DEFINE T == {n \in 0..Len(q) : ~\E g : Carries(g, q, n)}
<1>1. Len(q) \in Nat
  OBVIOUS
<1>2. SUFFICES ASSUME Len(q) \in T PROVE FALSE
  BY <1>1
<1>3. T \in SUBSET Nat /\ T # {}
  BY <1>1, <1>2
<1>4. PICK x \in T : \A y \in T : ~(y < x)
  BY <1>3, LeastPlace
<1>5. x \in 0..Len(q) /\ ~\E g : Carries(g, q, x)
  BY <1>4
<1>. HIDE DEF T
<1>6. CASE x = 0
  <2>. DEFINE z == [i \in 0..0 |-> <<>>]
  <2>1. z \in [0..0 -> Seq(Nat)] /\ z[0] = <<>>
    OBVIOUS
  <2>. HIDE DEF z
  <2>2. Carries(z, q, 0)
    BY <2>1 DEF Carries
  <2>. QED
    BY <1>5, <1>6, <2>2
<1>7. CASE x # 0
  <2>1. x - 1 \in 0..Len(q) /\ x - 1 < x /\ x \in 1..Len(q) /\ x \in Nat /\ x - 1 \in Nat
    BY <1>1, <1>5, <1>7
  <2>2. \E g : Carries(g, q, x - 1)
    BY <1>4, <2>1 DEF T
  <2>3. PICK g : Carries(g, q, x - 1)
    BY <2>2
  <2>. DEFINE y == g[x - 1] \o Input(q[x])
              h == [i \in 0..x |-> IF i = x THEN y ELSE g[i]]
  <2>4. g \in [0..(x - 1) -> Seq(Nat)] /\ g[x - 1] \in Seq(Nat) /\ q[x] \in Events
    BY <2>1, <2>3 DEF Carries
  <2>5. y \in Seq(Nat)
    BY <2>4, InputType
  <2>. HIDE DEF y
  <2>6. /\ h \in [0..x -> Seq(Nat)] /\ h[x] = y
        /\ \A i \in 0..(x - 1) : h[i] = g[i]
    BY <2>1, <2>4, <2>5
  <2>. HIDE DEF h
  <2>7. h[0] = <<>>
    BY <2>1, <2>3, <2>6 DEF Carries
  <2>8. ASSUME NEW i \in 1..x PROVE h[i] = h[i - 1] \o Input(q[i])
    <3>1. CASE i = x
      <4>1. h[i - 1] = g[x - 1]
        BY <2>1, <2>6, <3>1
      <4>. QED
        BY <2>6, <3>1, <4>1 DEF y
    <3>2. CASE i # x
      <4>1. i \in 1..(x - 1) /\ i \in 0..(x - 1) /\ i - 1 \in 0..(x - 1)
        BY <2>1, <3>2
      <4>. QED
        BY <2>3, <2>6, <4>1 DEF Carries
    <3>. QED
      BY <3>1, <3>2
  <2>9. Carries(h, q, x)
    BY <2>6, <2>7, <2>8 DEF Carries
  <2>. QED
    BY <1>5, <2>9
<1>. QED
  BY <1>6, <1>7

CarriedBy(g, q) ==
  g = [i \in 0..Len(q) |->
         IF i = 0 THEN <<>> ELSE g[i - 1] \o (IF q[i].to = Sink THEN q[i].arg ELSE <<>>)]

LEMMA CarriedUnique ==
  ASSUME NEW q \in Seq(Events), NEW g, NEW h, CarriedBy(g, q), CarriedBy(h, q)
  PROVE  g[Len(q)] = h[Len(q)]
<1>1. Len(q) \in Nat
  OBVIOUS
<1>. DEFINE T == {i \in 0..Len(q) : g[i] # h[i]}
<1>2. SUFFICES ASSUME g[Len(q)] # h[Len(q)] PROVE FALSE
  OBVIOUS
<1>3. T \in SUBSET Nat /\ T # {}
  BY <1>1, <1>2
<1>4. PICK x \in T : \A y \in T : ~(y < x)
  BY <1>3, LeastPlace
<1>5. x # 0
  BY <1>1 DEF CarriedBy
<1>6. x - 1 \in 0..Len(q) /\ x - 1 < x /\ x \in 0..Len(q)
  BY <1>1, <1>5
<1>7. g[x - 1] = h[x - 1]
  BY <1>4, <1>6
<1>8. g[x] = g[x - 1] \o (IF q[x].to = Sink THEN q[x].arg ELSE <<>>)
  BY <1>5, <1>6 DEF CarriedBy
<1>9. h[x] = h[x - 1] \o (IF q[x].to = Sink THEN q[x].arg ELSE <<>>)
  BY <1>5, <1>6 DEF CarriedBy
<1>. QED
  BY <1>7, <1>8, <1>9

LEMMA InTransitIs ==
  ASSUME NEW q \in Seq(Events), NEW g, Carries(g, q, Len(q))
  PROVE  InTransit(q) = g[Len(q)]
<1>. DEFINE u == CHOOSE h : CarriedBy(h, q)
            d(i) == IF i = 0 THEN <<>>
                    ELSE g[i - 1] \o (IF q[i].to = Sink THEN q[i].arg ELSE <<>>)
<1>1. InTransit(q) = u[Len(q)]
  BY DEF InTransit, CarriedBy
<1>2. \A i \in 0..Len(q) : g[i] = d(i)
  <2>1. g[0] = d(0)
    BY DEF Carries
  <2>2. ASSUME NEW i \in 0..Len(q), i # 0 PROVE g[i] = d(i)
    <3>1. i \in 1..Len(q)
      BY <2>2
    <3>. QED
      BY <2>2, <3>1 DEF Carries, Input
  <2>. QED
    BY <2>1, <2>2
<1>3. g = [i \in 0..Len(q) |-> g[i]]
  BY DEF Carries
<1>. HIDE DEF d
<1>4. g = [i \in 0..Len(q) |-> d(i)]
  BY <1>2, <1>3
<1>5. CarriedBy(g, q)
  BY <1>4 DEF CarriedBy, d
<1>6. CarriedBy(u, q)
  BY <1>5
<1>. HIDE DEF u
<1>. QED
  BY <1>1, <1>5, <1>6, CarriedUnique

LEMMA InTransitConcat ==
  ASSUME NEW a \in Seq(Events), NEW b \in Seq(Events)
  PROVE  /\ InTransit(a) \in Seq(Nat)
         /\ InTransit(a \o b) = InTransit(a) \o InTransit(b)
<1>. DEFINE n == Len(a)
            m == Len(b)
            q == a \o b
<1>1. /\ n \in Nat /\ m \in Nat /\ q \in Seq(Events) /\ Len(q) = n + m
      /\ \A i \in 1..n : q[i] = a[i]
      /\ \A i \in 1..m : q[n + i] = b[i]
  BY ConcatProperties
<1>2. PICK g : Carries(g, a, n)
  BY CarriesExists
<1>3. PICK h : Carries(h, b, m)
  BY CarriesExists
<1>4. InTransit(a) = g[n] /\ InTransit(b) = h[m] /\ g[n] \in Seq(Nat) /\ h[m] \in Seq(Nat)
  <2>1. InTransit(a) = g[n] /\ InTransit(b) = h[m]
    BY <1>2, <1>3, InTransitIs
  <2>. HIDE DEF n, m, q
  <2>2. n \in 0..n /\ m \in 0..m
    BY <1>1
  <2>3. g[n] \in Seq(Nat) /\ h[m] \in Seq(Nat)
    BY <1>2, <1>3, <2>2 DEF Carries
  <2>. QED
    BY <2>1, <2>3
<1>. DEFINE f == [i \in 0..(n + m) |-> IF i <= n THEN g[i] ELSE g[n] \o h[i - n]]
<1>. HIDE DEF n, m, q
<1>5. ASSUME NEW i \in 0..(n + m) PROVE f[i] \in Seq(Nat)
  <2>1. CASE i <= n
    <3>1. i \in 0..n /\ f[i] = g[i]
      BY <1>1, <2>1
    <3>. QED
      BY <1>2, <3>1 DEF Carries
  <2>2. CASE ~(i <= n)
    <3>0. f[i] = g[n] \o h[i - n]
      BY <2>2
    <3>. HIDE DEF f
    <3>1. i - n \in 0..m /\ f[i] = g[n] \o h[i - n]
      BY <1>1, <2>2, <3>0
    <3>2. h[i - n] \in Seq(Nat)
      BY <1>3, <3>1 DEF Carries
    <3>3. g[n] \o h[i - n] \in Seq(Nat)
      BY <1>4, <3>2, ConcatProperties
    <3>. QED
      BY <3>1, <3>3
  <2>. QED
    BY <2>1, <2>2
<1>6. /\ DOMAIN f = 0..(n + m) /\ f = [i \in 0..(n + m) |-> f[i]]
      /\ \A i \in 0..n : f[i] = g[i]
      /\ \A i \in 1..m : f[n + i] = g[n] \o h[i]
  <2>1. ASSUME NEW i \in 0..n PROVE f[i] = g[i]
    BY <1>1
  <2>2. ASSUME NEW i \in 1..m PROVE f[n + i] = g[n] \o h[i]
    <3>1. n + i \in 0..(n + m) /\ ~(n + i <= n) /\ (n + i) - n = i
      BY <1>1
    <3>. QED
      BY <3>1
  <2>. QED
    BY <2>1, <2>2
<1>. HIDE DEF f
<1>7. f \in [0..(n + m) -> Seq(Nat)]
  BY <1>5, <1>6
<1>8. ASSUME NEW i \in 1..(n + m) PROVE f[i] = f[i - 1] \o Input(q[i])
  <2>1. CASE i <= n
    <3>1. i \in 1..n /\ i \in 0..n /\ i - 1 \in 0..n
      BY <1>1, <2>1
    <3>2. f[i] = g[i] /\ f[i - 1] = g[i - 1] /\ q[i] = a[i]
      BY <1>1, <1>6, <3>1
    <3>. QED
      BY <1>2, <3>1, <3>2 DEF Carries
  <2>2. CASE ~(i <= n)
    <3>. DEFINE j == i - n
    <3>1. j \in 1..m /\ n + j = i /\ j \in 0..m /\ j - 1 \in 0..m /\ n + (j - 1) = i - 1
      BY <1>1, <2>2
    <3>. HIDE DEF j
    <3>2. f[i] = g[n] \o h[j] /\ q[i] = b[j] /\ h[j] = h[j - 1] \o Input(b[j])
      BY <1>1, <1>3, <1>6, <3>1 DEF Carries
    <3>3. f[i - 1] = g[n] \o h[j - 1]
      <4>1. CASE j = 1
        <5>1. i - 1 = n /\ h[j - 1] = <<>> /\ n \in 0..n
          BY <1>1, <1>3, <3>1, <4>1 DEF Carries
        <5>2. g[n] \o <<>> = g[n]
          BY <1>4, ConcatEmptySeq
        <5>. QED
          BY <1>6, <5>1, <5>2
      <4>2. CASE j # 1
        <5>1. j - 1 \in 1..m
          BY <1>1, <3>1, <4>2
        <5>. QED
          BY <1>6, <3>1, <5>1
      <4>. QED
        BY <4>1, <4>2
    <3>4. h[j - 1] \in Seq(Nat) /\ Input(b[j]) \in Seq(Nat)
      <4>1. b[j] \in Events
        BY <3>1 DEF m
      <4>. QED
        BY <1>3, <3>1, <4>1, InputType DEF Carries
    <3>5. (g[n] \o h[j - 1]) \o Input(b[j]) = g[n] \o (h[j - 1] \o Input(b[j]))
      BY <1>4, <3>4, BytesAssociate
    <3>. QED
      BY <3>2, <3>3, <3>5
  <2>. QED
    BY <2>1, <2>2
<1>9. f[0] = <<>>
  <2>1. 0 \in 0..n
    BY <1>1
  <2>2. g[0] = <<>>
    BY <1>2 DEF Carries
  <2>. QED
    BY <1>6, <2>1, <2>2
<1>10. Carries(f, q, n + m)
  BY <1>7, <1>8, <1>9 DEF Carries
<1>11. InTransit(q) = f[n + m]
  BY <1>1, <1>10, InTransitIs
<1>12. f[n + m] = g[n] \o h[m]
  <2>1. CASE m = 0
    <3>1. n + m = n /\ n \in 0..n /\ h[m] = <<>>
      BY <1>1, <1>3, <2>1 DEF Carries
    <3>2. g[n] \o <<>> = g[n]
      BY <1>4, ConcatEmptySeq
    <3>. QED
      BY <1>6, <3>1, <3>2
  <2>2. CASE m # 0
    <3>1. m \in 1..m
      BY <1>1, <2>2
    <3>. QED
      BY <1>6, <3>1
  <2>. QED
    BY <2>1, <2>2
<1>. QED
  BY <1>4, <1>11, <1>12 DEF q

LEMMA InTransitOne ==
  ASSUME NEW e \in Events
  PROVE  InTransit(<<e>>) = Input(e)
<1>. DEFINE q == <<e>>
            g == [i \in 0..1 |-> IF i = 0 THEN <<>> ELSE Input(e)]
<1>1. q \in Seq(Events) /\ Len(q) = 1 /\ q[1] = e /\ Input(e) \in Seq(Nat)
  BY InputType
<1>2. g \in [0..1 -> Seq(Nat)] /\ g[0] = <<>> /\ g[1] = Input(e)
  BY <1>1
<1>. HIDE DEF g, q
<1>3. ASSUME NEW i \in 1..1 PROVE g[i] = g[i - 1] \o Input(q[i])
  <2>1. i = 1 /\ i - 1 = 0
    OBVIOUS
  <2>2. <<>> \o Input(e) = Input(e)
    BY <1>1, ConcatEmptySeq
  <2>. QED
    BY <1>1, <1>2, <2>1, <2>2
<1>4. Carries(g, q, Len(q))
  BY <1>1, <1>2, <1>3 DEF Carries
<1>. QED
  BY <1>1, <1>2, <1>4, InTransitIs DEF q

(* The events of readyRead bring what was in the socket.                   *)
LEMMA InTransitPieces ==
  ASSUME NEW b \in Seq(Nat), NEW q \in Seq(Events), Len(q) = Len(Pieces(b)),
         \A i \in 1..Len(q) : Input(q[i]) = Pieces(b)[i]
  PROVE  InTransit(q) = b
<1>. DEFINE n == Len(b)
            k == Reads(n)
            g == [i \in 0..k |-> SubSeq(b, 1, ReadUpto(n, i))]
<1>0. n \in Nat
  OBVIOUS
<1>1. /\ n \in Nat /\ k \in Nat /\ ReadUpto(n, k) = n /\ ReadUpto(n, 0) = 0
      /\ \A i \in 1..k : ReadUpto(n, i) \in Nat /\ ReadUpto(n, i) <= n
  <2>. HIDE DEF n
  <2>. QED
    BY <1>0, ReadsType
<1>2. /\ Len(q) = k
      /\ \A i \in 1..k : SubSeq(b, 1, ReadUpto(n, i - 1)) \o Pieces(b)[i]
                           = SubSeq(b, 1, ReadUpto(n, i))
  BY PiecesType
<1>. HIDE DEF n, k
<1>3. ASSUME NEW i \in 0..k PROVE SubSeq(b, 1, ReadUpto(n, i)) \in Seq(Nat)
  <2>1. ReadUpto(n, i) \in Nat /\ ReadUpto(n, i) <= n
    <3>1. CASE i = 0
      BY <1>1, <3>1
    <3>2. CASE i # 0
      <4>1. i \in 1..k
        BY <1>1, <3>2
      <4>. QED
        BY <1>1, <4>1
    <3>. QED
      BY <3>1, <3>2
  <2>. QED
    BY <2>1 DEF n
<1>4. /\ g \in [0..k -> Seq(Nat)]
      /\ \A i \in 0..k : g[i] = SubSeq(b, 1, ReadUpto(n, i))
  BY <1>3
<1>. HIDE DEF g
<1>5. g[0] = <<>> /\ g[k] = b
  <2>1. SubSeq(b, 1, 0) = <<>> /\ SubSeq(b, 1, n) = b
    BY DEF n
  <2>2. 0 \in 0..k /\ k \in 0..k
    BY <1>1
  <2>3. g[0] = SubSeq(b, 1, 0) /\ g[k] = SubSeq(b, 1, n)
    BY <1>1, <1>4, <2>2
  <2>. QED
    BY <2>1, <2>3
<1>6. ASSUME NEW i \in 1..k PROVE g[i] = g[i - 1] \o Input(q[i])
  <2>1. i \in 0..k /\ i - 1 \in 0..k
    BY <1>1
  <2>. QED
    BY <1>2, <1>4, <2>1
<1>7. Carries(g, q, Len(q))
  BY <1>2, <1>4, <1>5, <1>6 DEF Carries
<1>. QED
  BY <1>2, <1>5, <1>7, InTransitIs

(* How many events call a function.                                        *)
Places(q, s) == {i \in 1..Len(q) : Called(q[i]) = s}
Calls(q, s) == Cardinality(Places(q, s))

LEMMA CallsType ==
  ASSUME NEW q \in Seq(Events), NEW s
  PROVE  IsFiniteSet(Places(q, s)) /\ Calls(q, s) \in Nat
<1>1. Len(q) \in Nat
  OBVIOUS
<1>2. IsFiniteSet(1..Len(q))
  BY <1>1, FS_Interval
<1>3. Places(q, s) \in SUBSET (1..Len(q))
  BY DEF Places
<1>4. IsFiniteSet(Places(q, s))
  BY <1>2, <1>3, FS_Subset
<1>. QED
  BY <1>4, FS_CardinalityType DEF Calls

LEMMA CallsConcat ==
  ASSUME NEW a \in Seq(Events), NEW b \in Seq(Events), NEW s
  PROVE  Calls(a \o b, s) = Calls(a, s) + Calls(b, s)
<1>. DEFINE n == Len(a)
            m == Len(b)
            q == a \o b
            A == Places(a, s)
            B == Places(b, s)
            C == {n + i : i \in B}
            f == [i \in B |-> n + i]
<1>1. /\ n \in Nat /\ m \in Nat /\ q \in Seq(Events) /\ Len(q) = n + m
      /\ \A i \in 1..n : q[i] = a[i]
      /\ \A i \in 1..m : q[n + i] = b[i]
  BY ConcatProperties
<1>2. IsFiniteSet(A) /\ IsFiniteSet(B) /\ Calls(a, s) \in Nat /\ Calls(b, s) \in Nat
  BY CallsType
<1>3. A \subseteq 1..n /\ B \subseteq 1..m
  BY DEF Places
<1>4. Places(q, s) = A \cup C
  <2>1. ASSUME NEW i \in Places(q, s) PROVE i \in A \cup C
    <3>1. i \in 1..(n + m) /\ Called(q[i]) = s
      BY <1>1, <2>1 DEF Places
    <3>. HIDE DEF q
    <3>2. CASE i <= n
      <4>1. i \in 1..n
        BY <1>1, <3>1, <3>2
      <4>2. i \in A
        BY <1>1, <3>1, <4>1 DEF Places
      <4>. QED
        BY <4>2
    <3>3. CASE ~(i <= n)
      <4>. DEFINE j == i - n
      <4>1. j \in 1..m /\ n + j = i
        BY <1>1, <3>1, <3>3
      <4>. HIDE DEF j
      <4>2. j \in B
        BY <1>1, <3>1, <4>1 DEF Places
      <4>. QED
        BY <4>1, <4>2
    <3>. QED
      BY <3>2, <3>3
  <2>2. ASSUME NEW i \in A PROVE i \in Places(q, s)
    <3>1. i \in 1..n /\ Called(a[i]) = s
      BY <2>2 DEF Places
    <3>. HIDE DEF n, q
    <3>2. i \in 1..(n + m) /\ q[i] = a[i]
      BY <1>1, <3>1
    <3>. QED
      BY <1>1, <3>1, <3>2 DEF Places
  <2>3. ASSUME NEW i \in B PROVE n + i \in Places(q, s)
    <3>1. i \in 1..m /\ Called(b[i]) = s
      BY <2>3 DEF Places
    <3>. HIDE DEF n, m, q
    <3>2. n + i \in 1..(n + m) /\ q[n + i] = b[i]
      BY <1>1, <3>1
    <3>. QED
      BY <1>1, <3>1, <3>2 DEF Places
  <2>. HIDE DEF A, B, q
  <2>. QED
    BY <2>1, <2>2, <2>3
<1>. HIDE DEF n, m, q, A, B
<1>5. f \in Bijection(B, C)
  <2>1. f \in [B -> C]
    OBVIOUS
  <2>2. \A x, y \in B : f[x] = f[y] => x = y
    BY <1>1, <1>3
  <2>3. \A c \in C : \E x \in B : f[x] = c
    OBVIOUS
  <2>. QED
    BY <2>1, <2>2, <2>3 DEF Bijection, Injection, Surjection, IsInjective
<1>6. ExistsBijection(B, C)
  BY <1>5 DEF ExistsBijection
<1>. HIDE DEF f
<1>7. IsFiniteSet(C) /\ Cardinality(C) = Cardinality(B)
  BY <1>2, <1>6, FS_Bijection
<1>8. A \cap C = {}
  BY <1>1, <1>3
<1>. HIDE DEF C
<1>9. Cardinality(A \cup C) = Cardinality(A) + Cardinality(C) - Cardinality(A \cap C)
  BY <1>2, <1>7, FS_Union
<1>10. Cardinality(A \cap C) = 0
  BY <1>8, FS_EmptySet
<1>11. Calls(q, s) = Cardinality(A \cup C) /\ Calls(a, s) = Cardinality(A) /\ Calls(b, s) = Cardinality(B)
  BY <1>4 DEF Calls, A, B
<1>. QED
  BY <1>2, <1>7, <1>9, <1>10, <1>11 DEF q

(* Events of one kind.                                                     *)
LEMMA CallsSame ==
  ASSUME NEW q \in Seq(Events), NEW r, \A i \in 1..Len(q) : Called(q[i]) = r, NEW s
  PROVE  Calls(q, s) = IF s = r THEN Len(q) ELSE 0
<1>1. Len(q) \in Nat
  OBVIOUS
<1>2. CASE s = r
  <2>1. Places(q, s) = 1..Len(q)
    BY <1>2 DEF Places
  <2>2. Cardinality(1..Len(q)) = Len(q)
    BY <1>1, FS_Interval
  <2>. QED
    BY <1>2, <2>1, <2>2 DEF Calls
<1>3. CASE s # r
  <2>1. Places(q, s) = {}
    BY <1>3 DEF Places
  <2>. QED
    BY <1>3, <2>1, FS_EmptySet DEF Calls
<1>. QED
  BY <1>2, <1>3

-----------------------------------------------------------------------------
(* Signals and calls.                                                      *)

Counted == \A s \in Slots : raised[s] = ran[s] + Calls(posted, s)

Traffic == Queued /\ History /\ Lossless /\ Counted

CalledBy(w) == <<w.to, SlotsFor(w.to)[w.id]>>

(* The slot index of an event names the function the script gave.          *)
LEMMA CalledIs ==
  ASSUME Wired, NEW e \in Events, e.to \in meta.registry, e.id = 2 => e.to = Proxy
  PROVE  /\ SlotOf(e) = Called(e) /\ Called(e) \in Slots
         /\ Called(e)[2] = "inputData" <=> e.to = Sink
         /\ Called(e)[2] = "readyRead" => e.to = Proxy
<1>1. e.to \in Receivers /\ e.id \in {1, 2} /\ e.to \in Objects
  BY ObjectsMembers DEF Events
<1>2. meta.slots[e.to] = SlotsFor(e.to)
  BY <1>1 DEF Wired, Slotted
<1>3. SlotOf(e) = Called(e)
  BY <1>2 DEF SlotOf, Called
<1>4. CASE e.to = Proxy
  <2>1. SlotsFor(e.to) = <<"readyRead", "connected">> /\ e.to # Sink
    BY <1>4, ObjectsDiffer DEF SlotsFor
  <2>2. Called(e) = <<Proxy, "readyRead">> \/ Called(e) = <<Proxy, "connected">>
    <3>1. CASE e.id = 1
      BY <1>4, <2>1, <3>1 DEF Called
    <3>2. CASE e.id = 2
      BY <1>4, <2>1, <3>2 DEF Called
    <3>. QED
      BY <1>1, <3>1, <3>2
  <2>3. Called(e) \in Slots
    BY <2>2 DEF Slots
  <2>. QED
    BY <1>3, <1>4, <2>1, <2>2, <2>3
<1>5. CASE e.to = Sink
  <2>1. SlotsFor(e.to) = <<"inputData">> /\ e.to # Proxy
    BY <1>5, ObjectsDiffer DEF SlotsFor
  <2>2. Called(e) = <<Sink, "inputData">>
    BY <1>1, <1>5, <2>1 DEF Called
  <2>3. Called(e) \in Slots
    BY <2>2 DEF Slots
  <2>. QED
    BY <1>3, <1>5, <2>2, <2>3
<1>6. CASE e.to \notin {Proxy, Sink}
  <2>1. PICK t \in AllTimers : e.to = TimerD(t)
    BY <1>1, <1>6 DEF Receivers
  <2>2. SlotsFor(e.to) = <<"timeout">>
    BY <1>6 DEF SlotsFor
  <2>3. Called(e) = <<TimerD(t), "timeout">>
    BY <1>1, <1>6, <2>1, <2>2 DEF Called
  <2>4. Called(e) \in Slots
    BY <2>3 DEF Slots
  <2>. QED
    BY <1>3, <1>6, <2>3, <2>4
<1>. QED
  BY <1>4, <1>5, <1>6

LEMMA CalledByIs ==
  ASSUME NEW w \in Wires
  PROVE  /\ Expected(w.from, w.signal) = {CalledBy(w)}
         /\ \A arg \in Seq(Nat) : Called(Event(w, arg)) = CalledBy(w)
<1>1. \A arg \in Seq(Nat) : Called(Event(w, arg)) = CalledBy(w)
  BY EventType DEF Called, CalledBy
<1>2. Proxy # Sock /\ Sink # Proxy
  BY ObjectsDiffer
<1>3. CASE w = ReadWire \/ w = ConnectWire
  <2>1. SlotsFor(Proxy) = <<"readyRead", "connected">>
    BY DEF SlotsFor
  <2>2. w.from = Sock /\ w.to = Proxy /\ CalledBy(w) = <<Proxy, w.signal>>
    BY <1>3, <2>1, WireFields DEF CalledBy
  <2>. QED
    BY <1>1, <1>2, <2>2 DEF Expected
<1>4. CASE w = InputWire
  <2>1. SlotsFor(Sink) = <<"inputData">>
    BY <1>2 DEF SlotsFor
  <2>2. w.from = Proxy /\ w.signal = "inputData" /\ CalledBy(w) = <<Sink, "inputData">>
    BY <1>4, <2>1, WireFields DEF CalledBy
  <2>. QED
    BY <1>1, <1>2, <2>2 DEF Expected
<1>5. CASE \E t \in AllTimers : w = TimerWire(t)
  <2>1. PICK t \in AllTimers : w = TimerWire(t)
    BY <1>5
  <2>2. w.from = Timer(t) /\ w.signal = "timeout" /\ w.to = TimerD(t) /\ w.id = 1
    BY <2>1, WireFields
  <2>3. Timer(t) # Sock /\ Timer(t) # Proxy /\ TimerD(t) # Proxy /\ TimerD(t) # Sink
    BY ObjectsDiffer
  <2>4. SlotsFor(TimerD(t)) = <<"timeout">>
    BY <2>3 DEF SlotsFor
  <2>5. CalledBy(w) = <<TimerD(t), "timeout">>
    BY <2>2, <2>4 DEF CalledBy
  <2>6. Timer(t)[2] = t
    BY DEF Timer
  <2>7. Expected(w.from, w.signal) = {<<TimerD(t), "timeout">>}
    BY <2>2, <2>3, <2>6 DEF Expected
  <2>. QED
    BY <1>1, <2>5, <2>7
<1>. QED
  BY <1>3, <1>4, <1>5, WireKinds

LEMMA RaisedMore ==
  ASSUME raised \in [Slots -> Nat], NEW w \in Wires, NEW n \in Nat, Raising(w.from, w.signal, n)
  PROVE  /\ raised' \in [Slots -> Nat]
         /\ \A s \in Slots : raised'[s] = raised[s] + IF s = CalledBy(w) THEN n ELSE 0
<1>1. Expected(w.from, w.signal) = {CalledBy(w)}
  BY CalledByIs
<1>2. raised' = [s \in Slots |-> raised[s] + IF s \in {CalledBy(w)} THEN n ELSE 0]
  BY <1>1 DEF Raising
<1>3. ASSUME NEW s \in Slots
      PROVE  /\ raised[s] + (IF s \in {CalledBy(w)} THEN n ELSE 0) \in Nat
             /\ raised'[s] = raised[s] + IF s = CalledBy(w) THEN n ELSE 0
  BY <1>2
<1>. QED
  BY <1>2, <1>3

LEMMA FitConcat ==
  ASSUME NEW R, NEW q, NEW E, Fit(q, R), Fit(E, R)
  PROVE  Fit(q \o E, R)
<1>1. q \in Seq(Events) /\ E \in Seq(Events)
  BY DEF Fit
<1>2. /\ q \o E \in Seq(Events) /\ Len(q \o E) = Len(q) + Len(E)
      /\ \A i \in 1..Len(q) : (q \o E)[i] = q[i]
      /\ \A i \in 1..Len(E) : (q \o E)[Len(q) + i] = E[i]
  BY <1>1, ConcatProperties
<1>3. Len(q) \in Nat /\ Len(E) \in Nat /\ DOMAIN q = 1..Len(q) /\ DOMAIN E = 1..Len(E)
      /\ DOMAIN (q \o E) = 1..(Len(q) + Len(E))
  BY <1>1, <1>2
<1>. DEFINE f == q \o E
            n == Len(q)
            m == Len(E)
<1>. HIDE DEF f, n, m
<1>4. ASSUME NEW i \in 1..(n + m) PROVE f[i].to \in R /\ (f[i].id = 2 => f[i].to = Proxy)
  <2>1. CASE i <= n
    <3>1. i \in 1..n /\ n \in Nat
      BY <1>3, <2>1 DEF n, m
    <3>2. f[i] = q[i] /\ i \in DOMAIN q
      BY <1>2, <1>3, <3>1 DEF f, n
    <3>. QED
      BY <3>2 DEF Fit
  <2>2. CASE ~(i <= n)
    <3>. DEFINE j == i - n
    <3>1. j \in 1..m /\ n + j = i
      BY <1>3, <2>2 DEF n, m
    <3>. HIDE DEF j
    <3>2. f[n + j] = E[j] /\ j \in DOMAIN E
      BY <1>2, <1>3, <3>1 DEF f, n, m
    <3>. QED
      BY <3>1, <3>2 DEF Fit
  <2>. QED
    BY <2>1, <2>2
<1>. QED
  BY <1>2, <1>3, <1>4 DEF Fit, f, n, m

(* The first event, and the others.                                        *)
LEMMA FitTail ==
  ASSUME NEW R, NEW q, Fit(q, R), q # <<>>
  PROVE  /\ Head(q) \in Events /\ Head(q).to \in R /\ (Head(q).id = 2 => Head(q).to = Proxy)
         /\ Fit(Tail(q), R) /\ Tail(q) \in Seq(Events)
         /\ q = <<Head(q)>> \o Tail(q) /\ Len(Tail(q)) = Len(q) - 1
<1>1. q \in Seq(Events) /\ Len(q) \in Nat \ {0} /\ DOMAIN q = 1..Len(q)
  BY DEF Fit
<1>2. Head(q) = q[1] /\ 1 \in DOMAIN q
  BY <1>1
<1>3. /\ Tail(q) \in Seq(Events) /\ Len(Tail(q)) = Len(q) - 1
      /\ \A i \in 1..(Len(q) - 1) : Tail(q)[i] = q[i + 1]
  BY <1>1
<1>4. q = <<Head(q)>> \o Tail(q)
  BY <1>1, HeadTailProperties
<1>5. ASSUME NEW i \in DOMAIN Tail(q)
      PROVE  Tail(q)[i].to \in R /\ (Tail(q)[i].id = 2 => Tail(q)[i].to = Proxy)
  <2>1. i \in 1..(Len(q) - 1)
    BY <1>3
  <2>2. i + 1 \in DOMAIN q /\ Tail(q)[i] = q[i + 1]
    BY <1>1, <1>3, <2>1
  <2>. QED
    BY <2>2 DEF Fit
<1>. QED
  BY <1>1, <1>2, <1>3, <1>4, <1>5 DEF Fit

-----------------------------------------------------------------------------
(* Each kind of step keeps Traffic.                                        *)

Bytes == socket.bytes

LEMMA LosslessIs ==
  Lossless <=> arrived = (got \o InTransit(posted)) \o Bytes
BY DEF Lossless, Bytes

LEMMA TrafficTypes ==
  ASSUME Plumbing, Queued
  PROVE  /\ posted \in Seq(Events) /\ Bytes \in Seq(Nat)
         /\ InTransit(posted) \in Seq(Nat)
         /\ socket.state \in {"none", "new", "connecting", "up", "closed"}
<1>1. posted \in Seq(Events) /\ Bytes \in Seq(Nat)
         /\ socket.state \in {"none", "new", "connecting", "up", "closed"}
  BY DEF Queued, Fit, Plumbing, Sockets, Bytes
<1>. QED
  BY <1>1, InTransitConcat

(* Nothing is posted, called or received.                                  *)
LEMMA QuietTraffic ==
  ASSUME Traffic, UNCHANGED <<posted, arrived, got, raised, ran, Bytes>>,
         meta.registry \subseteq meta'.registry, batch' \in 0..Len(posted)
  PROVE  Traffic'
<1>1. Queued'
  BY DEF Traffic, Queued, Fit
<1>2. History'
  BY DEF Traffic, History
<1>3. Lossless'
  <2>1. arrived = (got \o InTransit(posted)) \o Bytes
    BY LosslessIs DEF Traffic
  <2>2. Lossless' <=> arrived' = (got' \o InTransit(posted')) \o Bytes'
    BY DEF Lossless, Bytes
  <2>. QED
    BY <2>1, <2>2
<1>4. Counted'
  BY DEF Traffic, Counted
<1>. QED
  BY <1>1, <1>2, <1>3, <1>4 DEF Traffic

(* A signal that brings no bytes to the handler, and maybe bytes to the    *)
(* socket.                                                                 *)
LEMMA EmitTraffic ==
  ASSUME Plumbing, Traffic, NEW w \in Wires, w.to \in meta.registry, w.to # Sink,
         Emit(w.from, w.signal, <<<<>>>>), NEW bs \in Seq(Nat),
         UNCHANGED <<meta, batch, got, ran>>, arrived' = arrived \o bs, Bytes' = Bytes \o bs
  PROVE  Traffic'
<1>. DEFINE e == Event(w, <<>>)
            args == <<<<>>>>
            q == posted
<1>1. args \in Seq(Seq(Nat)) /\ Len(args) = 1 /\ DOMAIN args = {1} /\ args[1] = <<>> /\ <<>> \in Seq(Nat)
  OBVIOUS
<1>2. e \in Events /\ e.to = w.to /\ e.id = w.id
  BY <1>1, EventType
<1>. HIDE DEF args
<1>3. posted' = q \o <<e>>
  <2>. DEFINE E == [i \in DOMAIN args |-> Event(w, args[i])]
  <2>1. FlattenSeq([i \in DOMAIN args |-> Activated(w.from, w.signal, args[i])]) = E
    BY <1>1, FlattenActivated DEF Plumbing
  <2>2. E = [i \in {1} |-> e]
    BY <1>1
  <2>. HIDE DEF e
  <2>3. [i \in {1} |-> e] = <<e>>
    OBVIOUS
  <2>4. posted' = posted \o FlattenSeq([i \in DOMAIN args |-> Activated(w.from, w.signal, args[i])])
    BY DEF Emit, args
  <2>. QED
    BY <2>1, <2>2, <2>3, <2>4
<1>4. Raising(w.from, w.signal, 1)
  BY <1>1 DEF Emit, args
<1>5. q \in Seq(Events) /\ Bytes \in Seq(Nat) /\ InTransit(q) \in Seq(Nat)
  BY TrafficTypes DEF Traffic
<1>6. Called(e) = CalledBy(w)
  BY <1>1, CalledByIs
<1>7. Input(e) = <<>>
  BY <1>2 DEF Input
<1>8. w.id = 2 => w.to = Proxy
  BY WireTypes
<1>. HIDE DEF e, q
<1>9. <<e>> \in Seq(Events) /\ Len(<<e>>) = 1 /\ \A i \in 1..1 : <<e>>[i] = e
  BY <1>2
<1>10. Fit(<<e>>, meta.registry)
  BY <1>2, <1>8, <1>9 DEF Fit
<1>11. Queued'
  <2>1. Fit(q \o <<e>>, meta.registry)
    BY <1>10, FitConcat DEF Traffic, Queued, q
  <2>2. Len(q \o <<e>>) = Len(q) + 1 /\ Len(q) \in Nat
    BY <1>5, <1>9
  <2>3. batch \in 0..Len(q)
    BY DEF Traffic, Queued, q
  <2>4. batch \in 0..Len(q \o <<e>>)
    BY <2>2, <2>3
  <2>. QED
    BY <1>3, <2>1, <2>4 DEF Queued
<1>12. /\ raised' \in [Slots -> Nat]
       /\ \A s \in Slots : raised'[s] = raised[s] + IF s = CalledBy(w) THEN 1 ELSE 0
  BY <1>4, RaisedMore DEF Traffic, History
<1>13. History'
  <2>1. arrived \o bs \in Seq(Nat)
    BY ConcatProperties DEF Traffic, History
  <2>. QED
    BY <1>12, <2>1 DEF Traffic, History
<1>14. Lossless'
  <2>1. InTransit(q \o <<e>>) = InTransit(q)
    <3>1. InTransit(q \o <<e>>) = InTransit(q) \o InTransit(<<e>>)
      BY <1>5, <1>9, InTransitConcat
    <3>2. InTransit(<<e>>) = <<>>
      BY <1>2, <1>7, InTransitOne
    <3>3. InTransit(q) \o <<>> = InTransit(q)
      BY <1>5, ConcatEmptySeq
    <3>. QED
      BY <3>1, <3>2, <3>3
  <2>2. arrived = (got \o InTransit(q)) \o Bytes
    BY LosslessIs DEF Traffic, q
  <2>3. got \in Seq(Nat) /\ got \o InTransit(q) \in Seq(Nat)
    BY <1>5, ConcatProperties DEF Traffic, History
  <2>4. arrived \o bs = (got \o InTransit(q)) \o (Bytes \o bs)
    BY <1>5, <2>2, <2>3, BytesAssociate
  <2>5. Lossless' <=> arrived' = (got' \o InTransit(posted')) \o Bytes'
    BY DEF Lossless, Bytes
  <2>. QED
    BY <1>3, <2>1, <2>4, <2>5
<1>15. ASSUME NEW s \in Slots PROVE raised'[s] = ran'[s] + Calls(posted', s)
  <2>1. Calls(q \o <<e>>, s) = Calls(q, s) + Calls(<<e>>, s)
    BY <1>5, <1>9, CallsConcat
  <2>2. Calls(<<e>>, s) = IF s = CalledBy(w) THEN 1 ELSE 0
    BY <1>6, <1>9, CallsSame
  <2>3. Calls(q, s) \in Nat /\ ran[s] \in Nat /\ raised[s] \in Nat
    BY <1>5, CallsType DEF Traffic, History
  <2>4. raised[s] = ran[s] + Calls(q, s)
    BY DEF Traffic, Counted, q
  <2>. QED
    BY <1>3, <1>12, <2>1, <2>2, <2>3, <2>4
<1>. QED
  BY <1>11, <1>13, <1>14, <1>15 DEF Traffic, Counted

LEMMA CloseTraffic ==
  ASSUME Plumbing, Traffic, TcpClose
  PROVE  Traffic'
<1>1. /\ Bytes' = <<>> /\ arrived' = SubSeq(arrived, 1, Len(arrived) - Len(Bytes))
      /\ UNCHANGED <<posted, batch, got, raised, ran, meta>>
  BY DEF TcpClose, Bytes
<1>. DEFINE x == got \o InTransit(posted)
            b == Bytes
<1>2. InTransit(posted) \in Seq(Nat) /\ b \in Seq(Nat) /\ got \in Seq(Nat)
  BY TrafficTypes DEF Traffic, History
<1>3. x \in Seq(Nat)
  BY <1>2, ConcatProperties
<1>4. arrived = x \o b
  BY LosslessIs DEF Traffic
<1>5. Lossless' <=> arrived' = (got' \o InTransit(posted')) \o Bytes'
  BY DEF Lossless, Bytes
<1>. HIDE DEF x, b
<1>6. SubSeq(x \o b, 1, Len(x \o b) - Len(b)) = x
  <2>1. /\ x \o b \in Seq(Nat) /\ Len(x \o b) = Len(x) + Len(b)
        /\ \A i \in 1..Len(x) : (x \o b)[i] = x[i]
    BY <1>2, <1>3, ConcatProperties
  <2>. DEFINE f == x \o b
  <2>. HIDE DEF f
  <2>2. Len(x) \in Nat /\ Len(b) \in Nat
    BY <1>2, <1>3
  <2>3. Len(f) - Len(b) = Len(x) /\ Len(x) <= Len(f)
    BY <2>1, <2>2 DEF f
  <2>4. /\ SubSeq(f, 1, Len(x)) \in Seq(Nat) /\ Len(SubSeq(f, 1, Len(x))) = Len(x)
        /\ \A i \in 1..Len(x) : SubSeq(f, 1, Len(x))[i] = f[i]
    BY <2>1, <2>2, <2>3 DEF f
  <2>5. SubSeq(f, 1, Len(x)) = x
    <3>. DEFINE g == SubSeq(f, 1, Len(x))
    <3>1. g \in Seq(Nat) /\ Len(g) = Len(x) /\ \A i \in 1..Len(x) : g[i] = x[i]
      BY <2>1, <2>4 DEF f
    <3>. HIDE DEF g
    <3>2. g = x
      BY <1>3, <3>1
    <3>. QED
      BY <3>2 DEF g
  <2>. QED
    BY <2>3, <2>5 DEF f
<1>7. arrived' = x
  BY <1>1, <1>4, <1>6 DEF b
<1>8. x \o <<>> = x
  BY <1>3, ConcatEmptySeq
<1>9. Lossless'
  BY <1>1, <1>5, <1>7, <1>8 DEF x
<1>10. Queued' /\ Counted'
  BY <1>1 DEF Traffic, Queued, Fit, Counted
<1>11. History'
  BY <1>1, <1>3, <1>7 DEF Traffic, History
<1>. QED
  BY <1>9, <1>10, <1>11 DEF Traffic

(* The loop takes the first event, and calls the function it is for.       *)
LEMMA TakeFacts ==
  ASSUME Plumbing, Traffic, NEW slot, Takes(Head(posted), slot)
  PROVE  /\ Head(posted) \in Events /\ Head(posted).to \in meta.registry
         /\ Fit(Tail(posted), meta.registry) /\ batch' \in 0..Len(Tail(posted))
         /\ slot = "inputData" <=> Head(posted).to = Sink
         /\ slot = "readyRead" => Head(posted).to = Proxy
         /\ ran' \in [Slots -> Nat]
         /\ \A s \in Slots : raised[s] = ran'[s] + Calls(Tail(posted), s)
         /\ InTransit(Tail(posted)) \in Seq(Nat) /\ Input(Head(posted)) \in Seq(Nat)
         /\ arrived = ((got \o Input(Head(posted))) \o InTransit(Tail(posted))) \o Bytes
<1>. DEFINE e == Head(posted)
            q == Tail(posted)
            R == meta.registry
<1>1. batch > 0 /\ SlotOf(e)[2] = slot /\ batch' = batch - 1 /\ ran' = [ran EXCEPT ![SlotOf(e)] = @ + 1]
  BY DEF Takes
<1>2. Fit(posted, R) /\ batch \in 0..Len(posted) /\ posted \in Seq(Events)
  BY DEF Traffic, Queued, Fit
<1>3. posted # <<>> /\ Len(posted) \in Nat
  BY <1>1, <1>2
<1>4. /\ e \in Events /\ e.to \in R /\ (e.id = 2 => e.to = Proxy)
      /\ Fit(q, R) /\ q \in Seq(Events)
      /\ posted = <<e>> \o q /\ Len(q) = Len(posted) - 1
  BY <1>2, <1>3, FitTail
<1>. HIDE DEF e, q, R
<1>5. batch' \in 0..Len(q)
  BY <1>1, <1>2, <1>3, <1>4
<1>6. /\ SlotOf(e) = Called(e) /\ Called(e) \in Slots
      /\ Called(e)[2] = "inputData" <=> e.to = Sink
      /\ Called(e)[2] = "readyRead" => e.to = Proxy
  BY <1>4, CalledIs DEF Plumbing, R
<1>7. ran \in [Slots -> Nat] /\ raised \in [Slots -> Nat] /\ got \in Seq(Nat)
  BY DEF Traffic, History
<1>8. /\ ran' \in [Slots -> Nat]
      /\ \A s \in Slots : ran'[s] = ran[s] + IF s = Called(e) THEN 1 ELSE 0
  BY <1>1, <1>6, <1>7
<1>9. <<e>> \in Seq(Events) /\ Len(<<e>>) = 1 /\ \A i \in 1..1 : <<e>>[i] = e
  BY <1>4
<1>10. ASSUME NEW s \in Slots PROVE raised[s] = ran'[s] + Calls(q, s)
  <2>1. Calls(posted, s) = Calls(<<e>>, s) + Calls(q, s)
    BY <1>4, <1>9, CallsConcat
  <2>2. Calls(<<e>>, s) = IF s = Called(e) THEN 1 ELSE 0
    BY <1>9, CallsSame
  <2>3. Calls(q, s) \in Nat /\ ran[s] \in Nat /\ raised[s] \in Nat
    BY <1>4, <1>7, CallsType
  <2>4. raised[s] = ran[s] + Calls(posted, s)
    BY DEF Traffic, Counted
  <2>. QED
    BY <1>8, <2>1, <2>2, <2>3, <2>4
<1>11. InTransit(q) \in Seq(Nat) /\ Input(e) \in Seq(Nat)
  BY <1>4, InTransitConcat, InputType
<1>12. InTransit(posted) = Input(e) \o InTransit(q)
  <2>1. InTransit(<<e>> \o q) = InTransit(<<e>>) \o InTransit(q)
    BY <1>4, <1>9, InTransitConcat
  <2>2. InTransit(<<e>>) = Input(e)
    BY <1>4, InTransitOne
  <2>. QED
    BY <1>4, <2>1, <2>2
<1>13. arrived = ((got \o Input(e)) \o InTransit(q)) \o Bytes
  <2>1. arrived = (got \o InTransit(posted)) \o Bytes
    BY LosslessIs DEF Traffic
  <2>2. (got \o Input(e)) \o InTransit(q) = got \o (Input(e) \o InTransit(q))
    BY <1>7, <1>11, BytesAssociate
  <2>. QED
    BY <1>12, <2>1, <2>2
<1>. QED
  BY <1>1, <1>4, <1>5, <1>6, <1>8, <1>10, <1>11, <1>13 DEF e, q, R

LEMMA TakeTraffic ==
  ASSUME Plumbing, Traffic, NEW slot, Takes(Head(posted), slot), posted' = Tail(posted),
         got' = IF slot = "inputData" THEN got \o Head(posted).arg ELSE got,
         UNCHANGED <<meta, arrived, raised, Bytes>>
  PROVE  Traffic'
<1>. DEFINE e == Head(posted)
            q == Tail(posted)
<1>1. /\ e \in Events
      /\ Fit(q, meta.registry) /\ batch' \in 0..Len(q)
      /\ slot = "inputData" <=> e.to = Sink
      /\ ran' \in [Slots -> Nat]
      /\ \A s \in Slots : raised[s] = ran'[s] + Calls(q, s)
      /\ InTransit(q) \in Seq(Nat) /\ Input(e) \in Seq(Nat)
      /\ arrived = ((got \o Input(e)) \o InTransit(q)) \o Bytes
  BY TakeFacts
<1>2. got \in Seq(Nat)
  BY DEF Traffic, History
<1>. HIDE DEF e, q
<1>3. got' = got \o Input(e)
  <2>1. got \o <<>> = got
    BY <1>2, ConcatEmptySeq
  <2>. QED
    BY <1>1, <2>1 DEF Input, e
<1>4. posted' = q
  BY DEF q
<1>5. Queued'
  BY <1>1, <1>4 DEF Queued
<1>6. got \o Input(e) \in Seq(Nat)
  BY <1>1, <1>2, ConcatProperties
<1>7. History'
  BY <1>1, <1>3, <1>6 DEF Traffic, History
<1>8. Lossless' <=> arrived' = (got' \o InTransit(posted')) \o Bytes'
  BY DEF Lossless, Bytes
<1>9. Lossless'
  BY <1>1, <1>3, <1>4, <1>8
<1>10. Counted'
  BY <1>1, <1>4 DEF Counted
<1>. QED
  BY <1>5, <1>7, <1>9, <1>10 DEF Traffic

(* readyRead: all that is in the socket goes on, in pieces.                *)
LEMMA ReadTraffic ==
  ASSUME Plumbing, Traffic, ReadyRead
  PROVE  Traffic' /\ Bytes' = <<>> /\ socket' = [socket EXCEPT !.bytes = <<>>]
<1>. DEFINE e == Head(posted)
            q == Tail(posted)
            b == Bytes
            ps == Pieces(b)
            w == InputWire
            E == [i \in DOMAIN ps |-> Event(w, ps[i])]
<1>1. Takes(e, "readyRead")
  BY DEF ReadyRead
<1>2. /\ e.to \in meta.registry
      /\ Fit(q, meta.registry) /\ batch' \in 0..Len(q)
      /\ e.to = Proxy /\ e.to # Sink
      /\ ran' \in [Slots -> Nat]
      /\ \A s \in Slots : raised[s] = ran'[s] + Calls(q, s)
      /\ InTransit(q) \in Seq(Nat)
      /\ arrived = ((got \o Input(e)) \o InTransit(q)) \o Bytes
  BY <1>1, TakeFacts, ObjectsDiffer
<1>3. got \in Seq(Nat) /\ raised \in [Slots -> Nat]
  BY DEF Traffic, History
<1>4. b \in Seq(Nat)
  BY TrafficTypes DEF Traffic
<1>5. /\ posted' = q \o FlattenSeq([i \in DOMAIN ps |-> Activated(Proxy, "inputData", ps[i])])
      /\ Raising(Proxy, "inputData", Len(ps))
      /\ socket' = [socket EXCEPT !.bytes = SubSeq(@, Len(FlattenSeq(ps)) + 1, Len(@))]
      /\ UNCHANGED <<meta, arrived, got>>
  BY DEF ReadyRead, Bytes
<1>6. ps \in Seq(Seq(Nat)) /\ Len(FlattenSeq(ps)) = Len(b)
  BY <1>4, PiecesType, FlattenPieces
<1>7. w \in Wires /\ w.from = Proxy /\ w.signal = "inputData" /\ w.to = Sink /\ w.id = 1
  BY WireKinds, WireFields
<1>8. Sink \in meta.registry
  BY <1>2 DEF Plumbing, Owned
<1>. HIDE DEF ps, w, b, q, e
<1>9. /\ E \in Seq(Events) /\ Len(E) = Len(ps)
      /\ \A i \in 1..Len(ps) : E[i] = Event(w, ps[i])
      /\ FlattenSeq([i \in DOMAIN ps |-> Activated(w.from, w.signal, ps[i])]) = E
  BY <1>6, <1>7, <1>8, FlattenActivated DEF Plumbing
<1>. HIDE DEF E
<1>10. posted' = q \o E
  BY <1>5, <1>7, <1>9
<1>11. Len(ps) \in Nat /\ \A i \in 1..Len(ps) : ps[i] \in Seq(Nat)
  BY <1>6
<1>12. ASSUME NEW i \in 1..Len(ps)
       PROVE  /\ E[i].to = Sink /\ E[i].id = 1 /\ Input(E[i]) = ps[i] /\ Called(E[i]) = CalledBy(w)
  <2>1. Event(w, ps[i]).to = Sink /\ Event(w, ps[i]).id = 1 /\ Event(w, ps[i]).arg = ps[i]
    BY <1>7, <1>11, EventType
  <2>2. Called(Event(w, ps[i])) = CalledBy(w)
    BY <1>7, <1>11, CalledByIs
  <2>. QED
    BY <1>9, <2>1, <2>2 DEF Input
<1>13. Fit(E, meta.registry)
  <2>1. DOMAIN E = 1..Len(ps)
    BY <1>9
  <2>. QED
    BY <1>8, <1>9, <1>12, <2>1 DEF Fit
<1>14. Queued'
  <2>1. Fit(q \o E, meta.registry)
    BY <1>2, <1>13, FitConcat
  <2>2. q \in Seq(Events)
    BY <1>2 DEF Fit
  <2>3. Len(q \o E) = Len(q) + Len(E) /\ Len(q) \in Nat /\ Len(E) \in Nat
    <3>1. E \in Seq(Events)
      BY <1>9
    <3>. QED
      BY <2>2, <3>1, ConcatProperties
  <2>4. batch' \in 0..Len(q \o E)
    BY <1>2, <2>3
  <2>. QED
    BY <1>5, <1>10, <2>1, <2>4 DEF Queued
<1>15. SubSeq(b, Len(b) + 1, Len(b)) = <<>>
  BY <1>4
<1>16. Bytes' = <<>> /\ socket' = [socket EXCEPT !.bytes = <<>>]
  <2>1. socket' = [socket EXCEPT !.bytes = SubSeq(b, Len(b) + 1, Len(b))]
    BY <1>5, <1>6 DEF b, Bytes
  <2>2. socket' = [socket EXCEPT !.bytes = <<>>]
    BY <1>15, <2>1
  <2>3. socket'.bytes = <<>>
    BY <2>2 DEF Plumbing, Sockets
  <2>. QED
    BY <2>2, <2>3 DEF Bytes
<1>17. /\ raised' \in [Slots -> Nat]
       /\ \A s \in Slots : raised'[s] = raised[s] + IF s = CalledBy(w) THEN Len(ps) ELSE 0
  BY <1>3, <1>5, <1>7, <1>11, RaisedMore
<1>18. History'
  BY <1>2, <1>5, <1>17 DEF Traffic, History
<1>19. Lossless'
  <2>1. InTransit(E) = b
    BY <1>4, <1>9, <1>12, InTransitPieces DEF ps
  <2>2. q \in Seq(Events)
    BY <1>2 DEF Fit
  <2>3. InTransit(q \o E) = InTransit(q) \o b
    BY <1>9, <2>1, <2>2, InTransitConcat
  <2>4. Input(e) = <<>>
    BY <1>2 DEF Input
  <2>5. got \o <<>> = got
    BY <1>3, ConcatEmptySeq
  <2>6. arrived = (got \o InTransit(q)) \o b
    BY <1>2, <2>4, <2>5 DEF b
  <2>7. (got \o InTransit(q)) \o b = got \o (InTransit(q) \o b)
    BY <1>2, <1>3, <1>4, BytesAssociate
  <2>. DEFINE x == got \o (InTransit(q) \o b)
  <2>8. x \in Seq(Nat)
    BY <1>2, <1>3, <1>4, ConcatProperties
  <2>9. x \o <<>> = x
    BY <2>8, ConcatEmptySeq
  <2>10. Lossless' <=> arrived' = (got' \o InTransit(posted')) \o Bytes'
    BY DEF Lossless, Bytes
  <2>. QED
    BY <1>5, <1>10, <1>16, <2>3, <2>6, <2>7, <2>9, <2>10
<1>20. ASSUME NEW s \in Slots PROVE raised'[s] = ran'[s] + Calls(posted', s)
  <2>1. q \in Seq(Events)
    BY <1>2 DEF Fit
  <2>2. Calls(q \o E, s) = Calls(q, s) + Calls(E, s)
    BY <1>9, <2>1, CallsConcat
  <2>3. Calls(E, s) = IF s = CalledBy(w) THEN Len(ps) ELSE 0
    BY <1>9, <1>12, CallsSame
  <2>4. Calls(q, s) \in Nat /\ ran'[s] \in Nat
    BY <1>2, <2>1, CallsType
  <2>. QED
    BY <1>2, <1>10, <1>11, <1>17, <2>2, <2>3, <2>4
<1>. QED
  BY <1>14, <1>16, <1>18, <1>19, <1>20 DEF Traffic, Counted

(* __gc: no event is for what it deletes.                                  *)
LEMMA CollectTraffic ==
  ASSUME Plumbing, Traffic, NEW o \in Objects, Collect(o)
  PROVE  Traffic'
<1>1. o \notin meta.registry /\ o # Sock
  BY CollectedIs, ObjectsDiffer
<1>2. posted \in Seq(Events) /\ batch \in 0..Len(posted) /\ \A i \in DOMAIN posted : posted[i].to # o
  BY <1>1 DEF Traffic, Queued, Fit
<1>3. ASSUME NEW q \in Seq(Events), \A i \in DOMAIN q : q[i].to # o PROVE Purged(q, o) = q
  <2>. DEFINE P == {i \in DOMAIN q : q[i].to # o}
  <2>1. DOMAIN q \subseteq P
    BY <1>3
  <2>. HIDE DEF P
  <2>2. Picked(q, P) = q
    BY <2>1, PickedAll
  <2>. QED
    BY <2>2 DEF Purged, P
<1>4. Purged(posted, o) = posted
  BY <1>2, <1>3
<1>5. Len(Purged(SubSeq(posted, 1, batch), o)) = batch
  <2>. DEFINE q == SubSeq(posted, 1, batch)
  <2>1. batch \in Nat /\ batch <= Len(posted) /\ Len(posted) \in Nat
    BY <1>2
  <2>2. q \in Seq(Events) /\ Len(q) = batch /\ \A i \in 1..batch : q[i] = posted[i]
    BY <1>2, <2>1
  <2>. HIDE DEF q
  <2>3. ASSUME NEW i \in DOMAIN q PROVE q[i].to # o
    <3>1. i \in 1..batch
      BY <2>2
    <3>2. i \in DOMAIN posted
      BY <1>2, <2>1, <3>1
    <3>. QED
      BY <1>2, <2>2, <3>1, <3>2
  <2>4. Purged(q, o) = q
    BY <1>3, <2>2, <2>3
  <2>. QED
    BY <2>2, <2>4 DEF q
<1>6. UNCHANGED <<posted, arrived, got, raised, ran, Bytes>> /\ batch' = batch
  BY <1>1, <1>4, <1>5 DEF Collect, historyVars, Bytes
<1>7. meta'.registry = meta.registry
  BY CollectPlumbing
<1>. QED
  BY <1>2, <1>6, <1>7, QuietTraffic

-----------------------------------------------------------------------------
(* The inductive step.                                                     *)

Loops == quitNow \in BOOLEAN /\ ws \in [state : {"idle", "opening", "up"}, done : BOOLEAN]

LEMMA LoopsStep ==
  ASSUME Loops, Next
  PROVE  Loops'
<1>1. CASE Script
  <2>1. CASE WsOpen \/ WsClose
    <3>1. quitNow' = quitNow
      BY <2>1 DEF WsOpen, WsClose
    <3>2. ws' = [state |-> "opening", done |-> FALSE] \/ ws' = [ws EXCEPT !.state = "idle"]
      BY <2>1 DEF WsOpen, WsClose
    <3>3. ws' \in [state : {"idle", "opening", "up"}, done : BOOLEAN]
      <4>1. CASE ws' = [state |-> "opening", done |-> FALSE]
        BY <4>1
      <4>2. CASE ws' = [ws EXCEPT !.state = "idle"]
        BY <4>2 DEF Loops
      <4>. QED
        BY <3>2, <4>1, <4>2
    <3>. QED
      BY <3>1, <3>3 DEF Loops
  <2>2. CASE \E c \in Codes \cup {0} : Quit(c)
    BY <2>2 DEF Loops, Quit
  <2>3. CASE \/ NewTcp \/ TcpConnect \/ TcpClose \/ Forget \/ NewBeat \/ StartBeat \/ StopBeat
             \/ ForgetBeat \/ LuaError \/ \E t \in Timers : RunAfter(t)
    BY <2>3 DEF Loops, NewTcp, TcpConnect, TcpClose, Forget, RunAfter, NewBeat, StartBeat,
         StopBeat, ForgetBeat, LuaError
  <2>. QED
    BY <1>1, <2>1, <2>2, <2>3 DEF Script
<1>2. CASE Loop
  BY <1>2 DEF Loop, Loops, NextRound, CallSlot, ReadyRead, ReadyReadClosed, TimerFires,
       SlotReturns, LoadReturns, OpenReturns, ExecReturns
<1>3. CASE World
  <2>1. CASE WsAnswers \/ OpenAgain
    <3>1. quitNow' = quitNow
      BY <2>1 DEF WsAnswers, OpenAgain
    <3>2. \E s \in {"idle", "opening", "up"}, d \in BOOLEAN : ws' = [state |-> s, done |-> d]
      BY <2>1 DEF WsAnswers, OpenAgain
    <3>3. ws' \in [state : {"idle", "opening", "up"}, done : BOOLEAN]
      BY <3>2
    <3>. QED
      BY <3>1, <3>3 DEF Loops
  <2>2. CASE DataArrives \/ ConnectsLate \/ \E o \in Objects : Collect(o)
    BY <2>2 DEF Loops, DataArrives, ConnectsLate, Collect
  <2>. QED
    BY <1>3, <2>1, <2>2 DEF World
<1>. QED
  BY <1>1, <1>2, <1>3 DEF Next

Runtime == Plumbing /\ Traffic

LEMMA QuietRuntime ==
  ASSUME Runtime, UNCHANGED <<objects, meta, held, socket>>, active' \subseteq active,
         UNCHANGED <<posted, arrived, got, raised, ran>>, batch' \in 0..Len(posted)
  PROVE  Runtime'
<1>1. Plumbing'
  BY StillPlumbing DEF Runtime
<1>2. Bytes' = Bytes
  BY DEF Bytes
<1>3. Traffic'
  BY <1>2, QuietTraffic DEF Runtime
<1>. QED
  BY <1>1, <1>3 DEF Runtime

(* The queue stays, and receivers are added.                               *)
LEMMA MoreRuntime ==
  ASSUME Runtime, Plumbing', meta.registry \subseteq meta'.registry,
         UNCHANGED <<posted, batch, arrived, got, raised, ran, Bytes>>
  PROVE  Runtime'
<1>1. batch' \in 0..Len(posted)
  BY DEF Runtime, Traffic, Queued
<1>. QED
  BY <1>1, QuietTraffic DEF Runtime

(* The socket changes its state, with a signal.                            *)
LEMMA SignalRuntime ==
  ASSUME Runtime, NEW w \in Wires, w.to \in meta.registry, w.to # Sink,
         Emit(w.from, w.signal, <<<<>>>>), NEW bs \in Seq(Nat), NEW st \in {"connecting", "up", "none", "new", "closed"},
         UNCHANGED <<meta, objects, held, batch, got, ran>>, active' \subseteq active,
         st = "none" <=> socket.state = "none",
         arrived' = arrived \o bs, socket' = [state |-> st, bytes |-> Bytes \o bs]
  PROVE  Runtime'
<1>1. Bytes \in Seq(Nat)
  BY TrafficTypes DEF Runtime, Traffic
<1>2. Bytes \o bs \in Seq(Nat)
  BY <1>1, ConcatProperties
<1>3. /\ socket' \in [state : {"none", "new", "connecting", "up", "closed"}, bytes : Seq(Nat)]
      /\ socket'.state = st
  BY <1>2
<1>4. Plumbing'
  BY <1>3, HeldStays, QuietPlumbing DEF Runtime
<1>5. Bytes' = Bytes \o bs
  BY DEF Bytes
<1>6. Traffic'
  BY <1>5, EmitTraffic DEF Runtime
<1>. QED
  BY <1>4, <1>6 DEF Runtime

LEMMA ScriptRuntime ==
  ASSUME Runtime, Script
  PROVE  Runtime'
<1>0. /\ batch \in 0..Len(posted) /\ Bytes \in Seq(Nat) /\ arrived \in Seq(Nat)
      /\ socket \in [state : {"none", "new", "connecting", "up", "closed"}, bytes : Seq(Nat)]
  BY TrafficTypes DEF Runtime, Traffic, Queued, History, Plumbing, Sockets
<1>1. CASE NewTcp
  <2>1. Plumbing' /\ meta.registry \subseteq meta'.registry
    BY <1>1, NewTcpPlumbing DEF Runtime
  <2>2. UNCHANGED <<posted, batch, arrived, got, raised, ran>> /\ socket' = [socket EXCEPT !.state = "new"]
    BY <1>1 DEF NewTcp, historyVars
  <2>3. Bytes' = Bytes
    BY <1>0, <2>2 DEF Bytes
  <2>. QED
    BY <2>1, <2>2, <2>3, MoreRuntime
<1>2. CASE TcpConnect
  <2>1. /\ UNCHANGED <<meta, objects, held, batch, got, ran, arrived>> /\ active' = active
        /\ socket.state \in {"new", "closed"}
    BY <1>2 DEF TcpConnect
  <2>2. Sock \in objects
    BY <2>1 DEF Runtime, Plumbing, Sockets
  <2>3. Proxy \in meta.registry
    BY <2>2 DEF Runtime, Plumbing, Owned
  <2>4. CASE socket' = [socket EXCEPT !.state = "up"] /\ Emit(Sock, "connected", <<<<>>>>)
    <3>. DEFINE w == ConnectWire
    <3>1. w \in Wires /\ w.to = Proxy /\ w.from = Sock /\ w.signal = "connected" /\ Proxy # Sink
      BY WireKinds, WireFields, ObjectsDiffer
    <3>2. arrived' = arrived \o <<>> /\ Bytes \o <<>> = Bytes /\ <<>> \in Seq(Nat)
      BY <1>0, <2>1, ConcatEmptySeq
    <3>3. socket' = [state |-> "up", bytes |-> Bytes \o <<>>]
      BY <1>0, <2>4, <3>2 DEF Bytes
    <3>4. Emit(w.from, w.signal, <<<<>>>>)
      BY <2>4, <3>1
    <3>. HIDE DEF w
    <3>. QED
      BY <2>1, <2>3, <3>1, <3>2, <3>3, <3>4, SignalRuntime
  <2>5. CASE socket' = [socket EXCEPT !.state = "connecting"] /\ UNCHANGED <<posted, raised>>
    <3>1. /\ socket' \in [state : {"none", "new", "connecting", "up", "closed"}, bytes : Seq(Nat)]
          /\ socket'.state = "connecting" /\ Bytes' = Bytes
      BY <1>0, <2>5 DEF Bytes
    <3>2. Plumbing'
      BY <2>1, <3>1, HeldStays, QuietPlumbing DEF Runtime
    <3>. QED
      BY <2>1, <2>5, <3>1, <3>2, MoreRuntime
  <2>. QED
    BY <1>2, <2>4, <2>5 DEF TcpConnect
<1>3. CASE TcpClose
  <2>1. Traffic'
    BY <1>3, CloseTraffic DEF Runtime
  <2>2. /\ UNCHANGED <<meta, objects, held, active>>
        /\ socket' = [state |-> "closed", bytes |-> <<>>] /\ socket.state \in {"connecting", "up"}
    BY <1>3 DEF TcpClose
  <2>3. /\ socket' \in [state : {"none", "new", "connecting", "up", "closed"}, bytes : Seq(Nat)]
        /\ socket'.state = "closed"
    BY <2>2
  <2>4. Plumbing'
    BY <2>2, <2>3, HeldStays, QuietPlumbing DEF Runtime
  <2>. QED
    BY <2>1, <2>4 DEF Runtime
<1>4. CASE Forget \/ ForgetBeat
  <2>1. Plumbing'
    BY <1>4, ForgetPlumbing DEF Runtime
  <2>2. UNCHANGED <<posted, batch, arrived, got, raised, ran, meta, Bytes>>
    BY <1>4 DEF Forget, ForgetBeat, historyVars, Bytes
  <2>. QED
    BY <2>1, <2>2, MoreRuntime
<1>5. CASE \E t \in Timers : RunAfter(t)
  <2>1. PICK t \in Timers : RunAfter(t)
    BY <1>5
  <2>2. Plumbing' /\ meta.registry \subseteq meta'.registry
    BY <2>1, RunAfterPlumbing DEF Runtime
  <2>3. UNCHANGED <<posted, batch, arrived, got, raised, ran, Bytes>>
    BY <2>1 DEF RunAfter, Bytes
  <2>. QED
    BY <2>2, <2>3, MoreRuntime
<1>6. CASE NewBeat
  <2>1. Plumbing' /\ meta' = meta
    BY <1>6, NewBeatPlumbing DEF Runtime
  <2>2. UNCHANGED <<posted, batch, arrived, got, raised, ran, Bytes>>
    BY <1>6 DEF NewBeat, historyVars, Bytes
  <2>. QED
    BY <2>1, <2>2, MoreRuntime
<1>7. CASE StartBeat
  <2>1. Plumbing' /\ meta.registry \subseteq meta'.registry
    BY <1>7, StartBeatPlumbing DEF Runtime
  <2>2. UNCHANGED <<posted, batch, arrived, got, raised, ran, Bytes>>
    BY <1>7 DEF StartBeat, Bytes
  <2>. QED
    BY <2>1, <2>2, MoreRuntime
<1>8. CASE \/ StopBeat \/ WsOpen \/ WsClose \/ LuaError \/ \E c \in Codes \cup {0} : Quit(c)
  <2>1. /\ UNCHANGED <<objects, meta, held, socket>> /\ active' \subseteq active
        /\ UNCHANGED <<posted, arrived, got, raised, ran, batch>>
    BY <1>8 DEF StopBeat, WsOpen, WsClose, LuaError, Quit, historyVars
  <2>. QED
    BY <1>0, <2>1, QuietRuntime
<1>. QED
  BY <1>1, <1>2, <1>3, <1>4, <1>5, <1>6, <1>7, <1>8 DEF Script

LEMMA LoopRuntime ==
  ASSUME Runtime, Loop
  PROVE  Runtime'
<1>0. batch \in 0..Len(posted) /\ Bytes \in Seq(Nat) /\ arrived \in Seq(Nat) /\ Len(posted) \in Nat
      /\ socket \in [state : {"none", "new", "connecting", "up", "closed"}, bytes : Seq(Nat)]
  BY TrafficTypes DEF Runtime, Traffic, Queued, History, Plumbing, Sockets
<1>1. CASE NextRound
  <2>1. /\ UNCHANGED <<objects, meta, held, socket, active>>
        /\ UNCHANGED <<posted, arrived, got, raised, ran>> /\ batch' = Len(posted)
    BY <1>1 DEF NextRound, historyVars
  <2>2. batch' \in 0..Len(posted)
    BY <1>0, <2>1
  <2>. QED
    BY <2>1, <2>2, QuietRuntime
<1>2. CASE \E slot \in {"connected", "inputData", "timeout"} : CallSlot(slot)
  <2>1. PICK slot \in {"connected", "inputData", "timeout"} : CallSlot(slot)
    BY <1>2
  <2>2. /\ Takes(Head(posted), slot) /\ posted' = Tail(posted)
        /\ got' = IF slot = "inputData" THEN got \o Head(posted).arg ELSE got
        /\ UNCHANGED <<meta, arrived, raised, Bytes, objects, held, socket, active>>
    BY <2>1 DEF CallSlot, Bytes
  <2>3. Traffic'
    BY <2>2, TakeTraffic DEF Runtime
  <2>4. Plumbing'
    BY <2>2, StillPlumbing DEF Runtime
  <2>. QED
    BY <2>3, <2>4 DEF Runtime
<1>3. CASE ReadyReadClosed
  <2>1. /\ Takes(Head(posted), "readyRead") /\ posted' = Tail(posted) /\ got' = got
        /\ UNCHANGED <<meta, arrived, raised, Bytes, objects, held, socket, active>>
    BY <1>3 DEF ReadyReadClosed, Bytes
  <2>2. Traffic'
    BY <2>1, TakeTraffic DEF Runtime
  <2>3. Plumbing'
    BY <2>1, StillPlumbing DEF Runtime
  <2>. QED
    BY <2>2, <2>3 DEF Runtime
<1>4. CASE ReadyRead
  <2>1. Traffic' /\ socket' = [socket EXCEPT !.bytes = <<>>]
    BY <1>4, ReadTraffic DEF Runtime
  <2>2. UNCHANGED <<meta, objects, held, active>>
    BY <1>4 DEF ReadyRead
  <2>3. /\ socket' \in [state : {"none", "new", "connecting", "up", "closed"}, bytes : Seq(Nat)]
        /\ socket'.state = socket.state
    <3>1. socket' = [socket EXCEPT !.bytes = <<>>]
      BY <2>1
    <3>2. <<>> \in Seq(Nat)
      OBVIOUS
    <3>. QED
      BY <1>0, <3>1, <3>2
  <2>4. Plumbing'
    BY <2>2, <2>3, HeldStays, QuietPlumbing DEF Runtime
  <2>. QED
    BY <2>1, <2>4 DEF Runtime
<1>5. CASE \E t \in AllTimers : TimerFires(t)
  <2>1. PICK t \in AllTimers : TimerFires(t)
    BY <1>5
  <2>2. /\ t \in active /\ Emit(Timer(t), "timeout", <<<<>>>>) /\ active' \subseteq active
        /\ UNCHANGED <<meta, objects, held, batch, got, ran, arrived, socket>>
    BY <2>1 DEF TimerFires
  <2>3. TimerD(t) \in meta.registry
    BY <2>2 DEF Runtime, Plumbing, TimersLive
  <2>. DEFINE w == TimerWire(t)
  <2>4. w \in Wires /\ w.to = TimerD(t) /\ w.from = Timer(t) /\ w.signal = "timeout" /\ TimerD(t) # Sink
    BY WireKinds, WireFields, ObjectsDiffer
  <2>5. arrived' = arrived \o <<>> /\ Bytes \o <<>> = Bytes /\ <<>> \in Seq(Nat)
    BY <1>0, <2>2, ConcatEmptySeq
  <2>6. socket' = [state |-> socket.state, bytes |-> Bytes \o <<>>]
    BY <1>0, <2>2, <2>5 DEF Bytes
  <2>7. Emit(w.from, w.signal, <<<<>>>>)
    BY <2>2, <2>4
  <2>. DEFINE st == socket.state
  <2>8. st \in {"connecting", "up", "none", "new", "closed"}
    BY <1>0
  <2>. HIDE DEF w
  <2>. QED
    BY <2>2, <2>3, <2>4, <2>5, <2>6, <2>7, <2>8, SignalRuntime
<1>6. CASE SlotReturns \/ LoadReturns \/ OpenReturns \/ ExecReturns
  <2>1. /\ UNCHANGED <<objects, meta, held, socket, active>>
        /\ UNCHANGED <<posted, arrived, got, raised, ran, batch>>
    BY <1>6 DEF SlotReturns, LoadReturns, OpenReturns, ExecReturns, historyVars
  <2>. QED
    BY <1>0, <2>1, QuietRuntime
<1>. QED
  BY <1>1, <1>2, <1>3, <1>4, <1>5, <1>6 DEF Loop

LEMMA WorldRuntime ==
  ASSUME Runtime, World
  PROVE  Runtime'
<1>0. batch \in 0..Len(posted) /\ Bytes \in Seq(Nat) /\ arrived \in Seq(Nat)
      /\ socket \in [state : {"none", "new", "connecting", "up", "closed"}, bytes : Seq(Nat)]
  BY TrafficTypes DEF Runtime, Traffic, Queued, History, Plumbing, Sockets
<1>1. CASE DataArrives
  <2>1. /\ UNCHANGED <<meta, objects, held, batch, got, ran, active>>
        /\ socket.state = "up" /\ Emit(Sock, "readyRead", <<<<>>>>)
    BY <1>1 DEF DataArrives
  <2>2. PICK n \in 1..(MaxBytes - Len(arrived)), c \in {0, 1} :
          LET bytes == [i \in 1..n |-> IF i = 1 THEN c ELSE 1]
          IN  socket' = [socket EXCEPT !.bytes = @ \o bytes] /\ arrived' = arrived \o bytes
    BY <1>1 DEF DataArrives
  <2>. DEFINE bs == [i \in 1..n |-> IF i = 1 THEN c ELSE 1]
  <2>3. MaxBytes \in Nat /\ Len(arrived) \in Nat
    BY <1>0, QtLuaAssumption
  <2>4. n \in Nat
    BY <2>3
  <2>5. bs \in Seq(Nat)
    BY <2>4
  <2>6. socket' = [socket EXCEPT !.bytes = @ \o bs] /\ arrived' = arrived \o bs
    BY <2>2
  <2>. HIDE DEF bs
  <2>7. socket' = [state |-> "up", bytes |-> Bytes \o bs]
    BY <1>0, <2>1, <2>6 DEF Bytes
  <2>8. Sock \in objects
    BY <2>1 DEF Runtime, Plumbing, Sockets
  <2>9. Proxy \in meta.registry
    BY <2>8 DEF Runtime, Plumbing, Owned
  <2>. DEFINE w == ReadWire
  <2>10. w \in Wires /\ w.to = Proxy /\ w.from = Sock /\ w.signal = "readyRead" /\ Proxy # Sink
    BY WireKinds, WireFields, ObjectsDiffer
  <2>11. Emit(w.from, w.signal, <<<<>>>>)
    BY <2>1, <2>10
  <2>. HIDE DEF w
  <2>. QED
    BY <2>1, <2>5, <2>6, <2>7, <2>9, <2>10, <2>11, SignalRuntime
<1>2. CASE ConnectsLate
  <2>1. /\ UNCHANGED <<meta, objects, held, batch, got, ran, active, arrived>>
        /\ socket.state = "connecting" /\ Emit(Sock, "connected", <<<<>>>>)
        /\ socket' = [socket EXCEPT !.state = "up"]
    BY <1>2 DEF ConnectsLate
  <2>2. Sock \in objects
    BY <2>1 DEF Runtime, Plumbing, Sockets
  <2>3. Proxy \in meta.registry
    BY <2>2 DEF Runtime, Plumbing, Owned
  <2>. DEFINE w == ConnectWire
  <2>4. w \in Wires /\ w.to = Proxy /\ w.from = Sock /\ w.signal = "connected" /\ Proxy # Sink
    BY WireKinds, WireFields, ObjectsDiffer
  <2>5. arrived' = arrived \o <<>> /\ Bytes \o <<>> = Bytes /\ <<>> \in Seq(Nat)
    BY <1>0, <2>1, ConcatEmptySeq
  <2>6. socket' = [state |-> "up", bytes |-> Bytes \o <<>>]
    BY <1>0, <2>1, <2>5 DEF Bytes
  <2>7. Emit(w.from, w.signal, <<<<>>>>)
    BY <2>1, <2>4
  <2>. HIDE DEF w
  <2>. QED
    BY <2>1, <2>3, <2>4, <2>5, <2>6, <2>7, SignalRuntime
<1>3. CASE WsAnswers \/ OpenAgain
  <2>1. /\ UNCHANGED <<objects, meta, held, socket, active>>
        /\ UNCHANGED <<posted, arrived, got, raised, ran, batch>>
    BY <1>3 DEF WsAnswers, OpenAgain, historyVars
  <2>. QED
    BY <1>0, <2>1, QuietRuntime
<1>4. CASE \E o \in Objects : Collect(o)
  BY <1>4, CollectPlumbing, CollectTraffic DEF Runtime
<1>. QED
  BY <1>1, <1>2, <1>3, <1>4 DEF World

LEMMA RuntimeInit == Init => Runtime /\ Loops
<1>. SUFFICES ASSUME Init PROVE Runtime /\ Loops
  OBVIOUS
<1>1. /\ posted = <<>> /\ batch = 0 /\ objects = {} /\ held = {} /\ active = {}
      /\ meta = [slots |-> [o \in Objects |-> <<>>], registry |-> {}, connections |-> <<>>]
      /\ socket = [state |-> "none", bytes |-> <<>>]
      /\ arrived = <<>> /\ got = <<>>
      /\ raised = [s \in Slots |-> 0] /\ ran = [s \in Slots |-> 0]
  BY DEF Init
<1>2. Wired
  <2>1. meta.registry = {} /\ meta.connections = <<>> /\ meta.slots = [o \in Objects |-> <<>>]
        /\ DOMAIN meta = {"slots", "registry", "connections"}
    BY <1>1
  <2>2. Slotted(meta.slots, meta.registry)
    BY <2>1 DEF Slotted
  <2>3. WiresTo(meta.registry) = {}
    BY <2>1 DEF WiresTo
  <2>4. Laid(<<>>, {})
    BY DEF Laid
  <2>. QED
    BY <2>1, <2>2, <2>3, <2>4 DEF Wired
<1>3. Owned
  BY <1>1 DEF Owned
<1>4. Sockets
  BY <1>1 DEF Sockets
<1>5. TimersLive
  BY <1>1 DEF TimersLive
<1>6. Queued
  BY <1>1 DEF Queued, Fit
<1>7. History
  BY <1>1 DEF History
<1>8. <<>> \in Seq(Events) /\ Len(<<>>) = 0
  OBVIOUS
<1>9. Lossless
  <2>. DEFINE g == [i \in 0..0 |-> <<>>]
  <2>1. g \in [0..0 -> Seq(Nat)] /\ g[0] = <<>>
    OBVIOUS
  <2>. HIDE DEF g
  <2>2. Carries(g, <<>>, 0)
    BY <2>1 DEF Carries
  <2>3. InTransit(<<>>) = <<>>
    BY <1>8, <2>1, <2>2, InTransitIs
  <2>4. <<>> \o <<>> = <<>>
    OBVIOUS
  <2>5. socket.bytes = <<>>
    BY <1>1
  <2>. QED
    BY <1>1, <2>3, <2>4, <2>5 DEF Lossless
<1>10. Counted
  <2>1. ASSUME NEW s \in Slots PROVE Calls(<<>>, s) = 0
    <3>1. Places(<<>>, s) = {}
      BY DEF Places
    <3>. QED
      BY <3>1, FS_EmptySet DEF Calls
  <2>. QED
    BY <1>1, <2>1 DEF Counted
<1>11. Loops
  BY DEF Init, Loops
<1>. QED
  BY <1>2, <1>3, <1>4, <1>5, <1>6, <1>7, <1>9, <1>10, <1>11 DEF Runtime, Plumbing, Traffic

LEMMA RuntimeStep ==
  ASSUME Runtime, [Next]_vars
  PROVE  Runtime'
<1>1. CASE Next
  BY <1>1, ScriptRuntime, LoopRuntime, WorldRuntime DEF Next
<1>2. CASE UNCHANGED vars
  <2>1. batch \in 0..Len(posted)
    BY DEF Runtime, Traffic, Queued
  <2>2. /\ UNCHANGED <<objects, meta, held, socket>> /\ active' \subseteq active
        /\ UNCHANGED <<posted, arrived, got, raised, ran>> /\ batch' = batch
    BY <1>2 DEF vars
  <2>. QED
    BY <2>1, <2>2, QuietRuntime
<1>. QED
  BY <1>1, <1>2

-----------------------------------------------------------------------------
(* What the invariants say.                                                *)

(* The function Qt finds by the index of an event is the one of its        *)
(* connection, so the calls on their way are the ones that were counted.   *)
LEMMA CountedOnce ==
  ASSUME Runtime
  PROVE  CalledOnce
<1>1. posted \in Seq(Events) /\ DOMAIN posted = 1..Len(posted)
  BY DEF Runtime, Traffic, Queued, Fit
<1>2. ASSUME NEW i \in DOMAIN posted PROVE SlotOf(posted[i]) = Called(posted[i])
  <2>. DEFINE e == posted[i]
  <2>1. e \in Events
    BY <1>1
  <2>2. e.to \in meta.registry /\ (e.id = 2 => e.to = Proxy)
    BY DEF Runtime, Traffic, Queued, Fit
  <2>3. Wired
    BY DEF Runtime, Plumbing
  <2>. HIDE DEF e
  <2>4. SlotOf(e) = Called(e)
    BY <2>1, <2>2, <2>3, CalledIs
  <2>. QED
    BY <2>4 DEF e
<1>3. ASSUME NEW s \in Slots
      PROVE  raised[s] = ran[s] + Cardinality({i \in DOMAIN posted : SlotOf(posted[i]) = s})
  <2>1. {i \in DOMAIN posted : SlotOf(posted[i]) = s} = Places(posted, s)
    BY <1>1, <1>2 DEF Places
  <2>2. raised[s] = ran[s] + Calls(posted, s)
    BY DEF Runtime, Traffic, Counted
  <2>. QED
    BY <2>1, <2>2 DEF Calls
<1>. QED
  BY <1>3 DEF CalledOnce

LEMMA TypesHold ==
  ASSUME Outcome, Referred, Runtime, Loops
  PROVE  TypeOK
<1>1. \A i \in DOMAIN stack : stack[i] \in {"load", "exec", "slot", "open", "stuck"}
  BY DEF Outcome, Framed, Above
<1>2. \A i \in DOMAIN posted : posted[i].to \in objects
  BY DEF Runtime, Traffic, Queued, Fit, Plumbing, Owned
<1>3. batch \in 0..Len(posted)
  BY DEF Runtime, Traffic, Queued
<1>4. interp \in [quitCalled : BOOLEAN, retCode : Codes \cup {0}, status : Codes \cup {0, 1}]
      /\ failed \in BOOLEAN
  BY DEF Outcome, InterpType
<1>5. objects \subseteq Objects /\ held \subseteq objects /\ meta.registry \subseteq objects
  BY DEF Runtime, Plumbing, Owned
<1>6. \A i \in DOMAIN meta.connections : meta.connections[i].to \in meta.registry
  BY DEF Runtime, Plumbing, Wired, Laid, WiresTo
<1>7. socket.state \in {"none", "new", "connecting", "up", "closed"}
  BY DEF Runtime, Plumbing, Sockets
<1>8. active \subseteq {t \in AllTimers : Timer(t) \in objects}
  BY DEF Runtime, Plumbing, TimersLive
<1>9. wanted \subseteq AllTimers
  BY DEF Referred
<1>. QED
  BY <1>1, <1>2, <1>3, <1>4, <1>5, <1>6, <1>7, <1>8, <1>9 DEF TypeOK, Loops

LEMMA AllInit == Init => Outcome /\ Referred /\ Runtime /\ Loops
<1>1. Init => Referred
  BY DEF Init, Referred, RefersToTimers, RefersToBeat, TimersRun
<1>. QED
  BY <1>1, OutcomeInit, RuntimeInit

LEMMA AllStep ==
  ASSUME Outcome, Referred, Runtime, Loops, [Next]_vars
  PROVE  Outcome' /\ Referred' /\ Runtime' /\ Loops'
<1>1. Outcome'
  <2>1. UNCHANGED vars => UNCHANGED outcomeVars
    BY DEF vars, outcomeVars
  <2>. QED
    BY <2>1, OutcomeStep, QuietOutcome
<1>2. Referred'
  <2>1. UNCHANGED vars => UNCHANGED timerVars
    BY DEF vars, timerVars
  <2>. QED
    BY <2>1, ReferredStep, QuietReferred
<1>3. Loops'
  <2>1. UNCHANGED vars => Loops'
    BY DEF vars, Loops
  <2>. QED
    BY <2>1, LoopsStep
<1>. QED
  BY <1>1, <1>2, <1>3, RuntimeStep

(* Types, and no dangling reference: what the queue of Qt and the          *)
(* connections of qt.connect name lives and is kept, whatever the script   *)
(* forgets and whenever the garbage collector runs (qtlua_connect's        *)
(* luaL_ref, the __gc of network.cc, timers.cc and qtlua.cc).              *)
THEOREM TypeCorrect == Spec => []TypeOK
<1>. DEFINE All == Outcome /\ Referred /\ Runtime /\ Loops
<1>1. Init => All
  BY AllInit
<1>2. All /\ [Next]_vars => All'
  BY AllStep
<1>3. All => TypeOK
  BY TypesHold
<1>. HIDE DEF All
<1>. QED
  BY <1>1, <1>2, <1>3, PTL DEF Spec

(* From the socket to the handler no byte is lost, doubled or overtaken,   *)
(* every signal leads to one call of the function that was connected to it,*)
(* and the garbage collector stops no timer that somebody waits for: for   *)
(* any script, in loops inside handlers too, and with reads of any size    *)
(* (qtproxy.readyRead, DynamicObject::qt_metacall, tcp_socket_read).       *)
THEOREM NothingLostCorrect == Spec => []NothingLost
<1>. DEFINE All == Outcome /\ Referred /\ Runtime /\ Loops
<1>1. Init => All
  BY AllInit
<1>2. All /\ [Next]_vars => All'
  BY AllStep
<1>3. All => NothingLost
  <2>1. Runtime => Lossless
    BY DEF Runtime, Traffic
  <2>2. Referred => TimersRun
    BY DEF Referred
  <2>. QED
    BY <2>1, <2>2, CountedOnce DEF NothingLost
<1>. HIDE DEF All
<1>. QED
  BY <1>1, <1>2, <1>3, PTL DEF Spec
=============================================================================
