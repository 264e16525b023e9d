------------------------------- MODULE QtLua --------------------------------
(***************************************************************************)
(* The interpreter of ATF: a Lua state inside a Qt event loop.  main.cc and*)
(* lua_interpreter.cc load the script and then run the loop; qtlua.cc and  *)
(* qtdynamic.cc turn signals of Qt objects and of Lua objects into queued  *)
(* calls of Lua functions; timers.cc and network.cc give Lua objects that  *)
(* its garbage collector deletes.  The script is any Lua code that uses    *)
(* them the way the framework does: a TCP connection to SDL with a handler *)
(* for its input (tcp_mobile_adapter.lua), RunAfter (testbase.lua), a      *)
(* WebSocket that is opened, and quit.                                     *)
(*                                                                         *)
(* Lua has one thread.  stack tells who runs: Lua code that is loaded      *)
(* ("load") or a handler ("slot"); a loop of Qt, of app.exec ("exec") or of*)
(* web_socket_open ("open"); or a handler that never returns ("stuck").    *)
(***************************************************************************)
EXTENDS Naturals, Sequences, SequencesExt, FiniteSets

CONSTANTS
  Timers,    \* calls of RunAfter, numbered from 1
  Codes,     \* codes other than success that quit is called with
  ReadSize,  \* bytes one read of the socket takes (81920)
  MaxBytes,  \* bound: bytes SDL sends
  MaxOps,    \* bound: operations of the script
  MaxOpens,  \* bound: attempts to open the WebSocket
  MaxBeats,  \* bound: timeouts of the heartbeat
  Oddities   \* what the script may do wrong: "error", "close"

ASSUME QtLuaAssumption ==
  /\ Codes \cup Timers \subseteq Nat \ {0}
  /\ ReadSize \in Nat \ {0}
  /\ {MaxBytes, MaxOps, MaxOpens, MaxBeats} \subseteq Nat
  /\ Oddities \subseteq {"error", "close"}

VARIABLES
  stack,     \* who runs, the bottom first
  posted,    \* events of Qt's queue: calls of slots
  batch,     \* how many of them belong to the round that is under way
  quitNow,   \* Qt: its loops are told to end
  interp,    \* LuaInterpreter: quitCalled, retCode; and the exit status
  objects,   \* Qt objects that live
  meta,      \* what qt.connect keeps
  held,      \* objects the script's own tables refer to
  socket,    \* the TCP socket: its state and the bytes it has not given out
  active,    \* timers that run
  ws,        \* the WebSocket: state, and whether its loop is told to end
  arrived, got,         \* history: bytes of SDL, bytes the handler was given
  raised, ran,          \* history: per slot, signals and calls
  wanted,               \* history: timers that were started and not stopped
  failed,               \* history: a reason for the program to report failure
  nOps, nOpens

vars == <<stack, posted, batch, quitNow, interp, objects, meta, held, socket,
          active, ws, arrived, got, raised, ran, wanted,
          failed, nOps, nOpens>>

(* Objects: the socket, the qtproxy of its adapter and the receiver of its *)
(* input; per RunAfter a timer and the receiver of its timeout; the same   *)
(* for the heartbeat of a session (heartbeat_monitor.lua).                 *)
Sock == <<"socket", 0>>
Proxy == <<"qtproxy", 0>>
Sink == <<"d", 0>>
Timer(t) == <<"timer", t>>
TimerD(t) == <<"timerd", t>>
Beat == 0
AllTimers == Timers \cup {Beat}
Objects == {Sock, Proxy, Sink} \cup {<<k, t>> : k \in {"timer", "timerd"}, t \in AllTimers}

Slots == {<<Proxy, "readyRead">>, <<Proxy, "connected">>, <<Sink, "inputData">>}
         \cup {<<TimerD(t), "timeout">> : t \in AllTimers}

Running == IF stack = <<>> THEN "exited" ELSE Last(stack)
InLua == Running \in {"load", "slot"}

(* loop.exec() of web_socket_open runs whatever app.exec() would run.      *)
InLoop == Running \in {"exec", "open"}

Exited == stack = <<>>
Stuck == Running = "stuck"

historyVars == <<arrived, got, raised, ran, wanted, failed>>

-----------------------------------------------------------------------------
(* Signals and slots.                                                      *)

(* What a sequence has at some of its places, in its order.                *)
Picked(s, places) ==
  LET upto[i \in 0..Len(s)] ==
        IF i = 0 THEN <<>>
        ELSE IF i \in places THEN Append(upto[i - 1], s[i]) ELSE upto[i - 1]
  IN  upto[Len(s)]

(* DynamicObject::slotIndices and slotList: a slot has one index per       *)
(* receiver, however often it is connected.                                *)
IsKnown(q, to, slot) == slot \in ToSet(q.slots[to])

SlotId(q, to, slot) ==
  IF IsKnown(q, to, slot)
  THEN CHOOSE i \in DOMAIN q.slots[to] : q.slots[to][i] = slot
  ELSE Len(q.slots[to]) + 1

(* Mutant: the receiver is not put into the registry of Lua.               *)
RegisteredNot(q, to) == q.registry

(* luaL_ref keeps the receiver, and what its functions use, for good.      *)
Registered(q, to) == q.registry \cup {to}

(* connectDynamicSlot, connectDynamicSignalToDynamicSlot: a connection is  *)
(* always a queued one.                                                    *)
ConnectDynamic(q, from, signal, to, slot) ==
  [q EXCEPT
    !.slots[to] = IF IsKnown(q, to, slot) THEN @ ELSE Append(@, slot),
    !.connections = Append(@, [from |-> from, signal |-> signal, to |-> to,
                               id |-> SlotId(q, to, slot)])]

(* qtlua_connect.                                                          *)
Connect(q, from, signal, to, slot) ==
  [ConnectDynamic(q, from, signal, to, slot) EXCEPT !.registry = Registered(q, to)]

(* QByteArrayMarshaller, there and back: bytes with their number.          *)
Marshal(bytes) == [i \in 1..Len(bytes) |-> bytes[i]]

(* QMetaObject::activate: an event for every connection, in the order of   *)
(* the connections.                                                        *)
Activated(from, signal, arg) ==
  LET all == meta.connections
      cs == Picked(all, {i \in DOMAIN all : all[i].from = from /\ all[i].signal = signal})
  IN  [i \in DOMAIN cs |-> [to |-> cs[i].to, id |-> cs[i].id, arg |-> Marshal(arg)]]

(* DynamicSlot::call looks for the function by the name of the slot.       *)
SlotOf(e) == <<e.to, meta.slots[e.to][e.id]>>

(* History: the slots the connections of a signal name.                    *)
Expected(from, signal) ==
  CASE from = Sock -> {<<Proxy, signal>>}
    [] from = Proxy -> {<<Sink, signal>>}
    [] OTHER -> {<<TimerD(from[2]), signal>>}
Raising(from, signal, n) ==
  raised' = [s \in Slots |-> raised[s] + IF s \in Expected(from, signal) THEN n ELSE 0]

Emit(from, signal, args) ==
  /\ posted' = posted \o FlattenSeq([i \in DOMAIN args |-> Activated(from, signal, args[i])])
  /\ Raising(from, signal, Len(args))

-----------------------------------------------------------------------------
(* Operations of the script, in Lua code that runs.                        *)

Op ==
  /\ InLua
  /\ nOps < MaxOps
  /\ nOps' = nOps + 1

(* network.TcpClient(), qt.dynamic(): Tcp.Connection, OnInputData and      *)
(* OnConnected.  The function readyRead refers to the socket.              *)
NewTcp ==
  /\ Op
  /\ socket.state = "none"
  /\ objects' = objects \cup {Sock, Proxy, Sink}
  /\ held' = held \cup {Sock, Proxy}
  /\ meta' =
       LET a == Connect(meta, Sock, "readyRead", Proxy, "readyRead")
           b == Connect(a, Proxy, "inputData", Sink, "inputData")
       IN  Connect(b, Sock, "connected", Proxy, "connected")
  /\ socket' = [socket EXCEPT !.state = "new"]
  /\ UNCHANGED <<stack, posted, batch, quitNow, interp, active, ws, historyVars, nOpens>>

(* tcp_socket_connect waits without a loop.  When the time is over the last*)
(* attempt goes on.                                                        *)
TcpConnect ==
  /\ Op
  /\ socket.state \in {"new", "closed"}
  /\ \/ /\ socket' = [socket EXCEPT !.state = "up"]
        /\ Emit(Sock, "connected", <<<<>>>>)
     \/ /\ socket' = [socket EXCEPT !.state = "connecting"]
        /\ UNCHANGED <<posted, raised>>
  /\ UNCHANGED <<stack, batch, quitNow, interp, objects, meta, held, active, ws,
                 arrived, got, ran, wanted, failed, nOpens>>

(* tcp_socket_close: bytes that were not read are gone.                    *)
TcpClose ==
  /\ Op
  /\ "close" \in Oddities
  /\ socket.state \in {"connecting", "up"}
  /\ socket' = [state |-> "closed", bytes |-> <<>>]
  /\ arrived' = SubSeq(arrived, 1, Len(arrived) - Len(socket.bytes))
  /\ UNCHANGED <<stack, posted, batch, quitNow, interp, objects, meta, held, active, ws,
                 got, raised, ran, wanted, failed, nOpens>>

(* The script forgets its connection.                                      *)
Forget ==
  /\ Op
  /\ Sock \in held
  /\ held' = held \ {Sock, Proxy}
  /\ UNCHANGED <<stack, posted, batch, quitNow, interp, objects, meta, socket, active, ws,
                 historyVars, nOpens>>

(* Mutant: nothing refers to the timer.                                    *)
KeptNot(t) == held

(* self.timers[timer] = true; nothing ever takes it out, since the slot is *)
(* called with its receiver and not with the timer.                        *)
Kept(t) == held \cup {Timer(t)}

(* runAfter: timers.Timer(), setSingleShot, start.                         *)
RunAfter(t) ==
  /\ Op
  /\ ran[<<TimerD(t), "timeout">>] = 0
  /\ {Timer(t), TimerD(t)} \cap objects = {}
  /\ objects' = objects \cup {Timer(t), TimerD(t)}
  /\ held' = Kept(t)
  /\ meta' = Connect(meta, Timer(t), "timeout", TimerD(t), "timeout")
  /\ active' = active \cup {t}
  /\ wanted' = wanted \cup {t}
  /\ UNCHANGED <<stack, posted, batch, quitNow, interp, socket, ws, arrived, got, raised, ran,
                 failed, nOpens>>

(* HeartBeatMonitor: its qtproxy gets a function that refers to the timer. *)
NewBeat ==
  /\ Op
  /\ {Timer(Beat), TimerD(Beat)} \cap objects = {}
  /\ objects' = objects \cup {Timer(Beat), TimerD(Beat)}
  /\ held' = held \cup {Timer(Beat), TimerD(Beat)}
  /\ UNCHANGED <<stack, posted, batch, quitNow, interp, meta, socket, active, ws, historyVars,
                 nOpens>>

(* StartHeartbeat: connected once (heartbeatToSDLTimerRegistered); start.  *)
StartBeat ==
  /\ Op
  /\ TimerD(Beat) \in held
  /\ meta' = IF TimerD(Beat) \in meta.registry THEN meta
             ELSE Connect(meta, Timer(Beat), "timeout", TimerD(Beat), "timeout")
  /\ active' = active \cup {Beat}
  /\ wanted' = wanted \cup {Beat}
  /\ UNCHANGED <<stack, posted, batch, quitNow, interp, objects, held, socket, ws, arrived, got,
                 raised, ran, failed, nOpens>>

(* StopHeartbeat: timer_stop.  A timeout that is posted stays.             *)
StopBeat ==
  /\ Op
  /\ Timer(Beat) \in held
  /\ Beat \in active
  /\ active' = active \ {Beat}
  /\ wanted' = wanted \ {Beat}
  /\ UNCHANGED <<stack, posted, batch, quitNow, interp, objects, meta, held, socket, ws, arrived,
                 got, raised, ran, failed, nOpens>>

(* The script forgets its session.                                         *)
ForgetBeat ==
  /\ Op
  /\ Timer(Beat) \in held
  /\ held' = held \ {Timer(Beat), TimerD(Beat)}
  /\ UNCHANGED <<stack, posted, batch, quitNow, interp, objects, meta, socket, active, ws,
                 historyVars, nOpens>>

(* Mutant: quit without a code means success.                              *)
RetCodeForgets(c) == c

(* lua_isnumber(L, 1): quit without a code leaves the code alone.  Here 0  *)
(* stands for no code; no script calls quit(0), which would set it.        *)
RetCode(c) == IF c = 0 THEN interp.retCode ELSE c

(* app_quit.  Lua goes on after it.                                        *)
Quit(c) ==
  /\ Op
  /\ interp' = [interp EXCEPT !.quitCalled = TRUE, !.retCode = RetCode(c)]
  /\ quitNow' = TRUE
  /\ failed' = (failed \/ c # 0)
  /\ UNCHANGED <<stack, posted, batch, objects, meta, held, socket, active, ws, arrived, got,
                 raised, ran, wanted, nOpens>>

(* web_socket_open: open, then a loop of its own until the socket is       *)
(* connected or disconnected.  One at a time.                              *)
WsOpen ==
  /\ Op
  /\ ws.state = "idle"
  /\ "open" \notin ToSet(stack)
  /\ nOpens < MaxOpens
  /\ nOpens' = nOpens + 1
  /\ ws' = [state |-> "opening", done |-> FALSE]
  /\ stack' = Append(stack, "open")
  /\ UNCHANGED <<posted, batch, quitNow, interp, objects, meta, held, socket, active,
                 historyVars>>

(* web_socket_close.                                                       *)
WsClose ==
  /\ Op
  /\ ws.state = "up"
  /\ "open" \notin ToSet(stack)
  /\ ws' = [ws EXCEPT !.state = "idle"]
  /\ UNCHANGED <<stack, posted, batch, quitNow, interp, objects, meta, held, socket, active,
                 historyVars, nOpens>>

EndOfProgram(status) ==
  /\ stack' = <<>>
  /\ interp' = [interp EXCEPT !.status = status]

(* An error in Lua.  In the loop of app.exec nothing catches it: panic,    *)
(* abort, abrt_handler.  While the script is loaded luaL_dofile catches it.*)
LuaError ==
  /\ Op
  /\ "error" \in Oddities
  /\ \/ Head(stack) = "exec" /\ EndOfProgram(1) /\ failed' = TRUE
     \/ /\ Head(stack) = "load"
        /\ EndOfProgram(IF interp.quitCalled THEN interp.retCode ELSE 1)
        /\ failed' = (failed \/ ~interp.quitCalled)
  /\ UNCHANGED <<posted, batch, quitNow, objects, meta, held, socket, active, ws, arrived, got,
                 raised, ran, wanted, nOpens>>

(* A handler returns to the loop that called it.                           *)
SlotReturns ==
  /\ Running = "slot"
  /\ stack' = Front(stack)
  /\ UNCHANGED <<posted, batch, quitNow, interp, objects, meta, held, socket, active, ws,
                 historyVars, nOps, nOpens>>

(* Mutant: main goes into the loop whatever the script did.                *)
MainStopsNever == FALSE

(* main: no loop after a call of quit.                                     *)
MainStops == interp.quitCalled

(* LuaInterpreter::load returns to main.  exec forgets an earlier exit.    *)
LoadReturns ==
  /\ Running = "load"
  /\ \/ /\ MainStops
        /\ EndOfProgram(interp.retCode)
        /\ UNCHANGED quitNow
     \/ /\ ~MainStops
        /\ stack' = <<"exec">>
        /\ quitNow' = FALSE
        /\ UNCHANGED interp
  /\ UNCHANGED <<posted, batch, objects, meta, held, socket, active, ws, historyVars, nOps,
                 nOpens>>

-----------------------------------------------------------------------------
(* The garbage collector.                                                  *)

Roots == held \cup meta.registry
Reachable ==
  Roots \cup (IF Proxy \in Roots THEN {Sock} ELSE {})
        \cup (IF TimerD(Beat) \in Roots THEN {Timer(Beat)} ELSE {})

(* ~QObject removes the events and the connections of an object.           *)
Purged(q, o) == Picked(q, {i \in DOMAIN q : q[i].to # o})
Detached(cs, o) == Picked(cs, {i \in DOMAIN cs : cs[i].from # o /\ cs[i].to # o})

(* __gc deletes the Qt object, and Qt its connections and its events.      *)
Collect(o) ==
  /\ InLua
  /\ o \in objects \ Reachable
  /\ objects' = objects \ {o}
  /\ posted' = Purged(posted, o)
  /\ batch' = Len(Purged(SubSeq(posted, 1, batch), o))
  /\ meta' = [meta EXCEPT !.connections = Detached(@, o), !.slots[o] = <<>>]
  /\ active' = {t \in active : Timer(t) # o}
  /\ socket' = IF o = Sock THEN [state |-> "none", bytes |-> <<>>] ELSE socket
  /\ UNCHANGED <<stack, quitNow, interp, held, ws, historyVars, nOps, nOpens>>

-----------------------------------------------------------------------------
(* The loops of Qt.                                                        *)

(* sendPostedEvents takes what is posted when it begins.                   *)
LoopGoesOn == InLoop /\ batch = 0 /\ ~quitNow /\ ~(Running = "open" /\ ws.done)
NextRound ==
  /\ LoopGoesOn
  /\ posted # <<>>
  /\ batch' = Len(posted)
  /\ UNCHANGED <<stack, posted, quitNow, interp, objects, meta, held, socket, active, ws,
                 historyVars, nOps, nOpens>>

Takes(e, slot) ==
  /\ InLoop
  /\ batch > 0
  /\ e = Head(posted)
  /\ SlotOf(e)[2] = slot
  /\ batch' = batch - 1
  /\ ran' = [ran EXCEPT ![SlotOf(e)] = @ + 1]

(* A function of the script that the framework calls.                      *)
CallSlot(slot) ==
  /\ Takes(Head(posted), slot)
  /\ posted' = Tail(posted)
  /\ got' = IF slot = "inputData" THEN got \o Head(posted).arg ELSE got
  /\ stack' = Append(stack, "slot")
  /\ UNCHANGED <<quitNow, interp, objects, meta, held, socket, active, ws, arrived, raised,
                 wanted, failed, nOps, nOpens>>

(* Mutant: readyRead reads once.                                           *)
PiecesOne(bytes) ==
  IF bytes = <<>> THEN <<>> ELSE <<SubSeq(bytes, 1, IF Len(bytes) < ReadSize THEN Len(bytes) ELSE ReadSize)>>

(* tcp_socket_read until there is nothing left.                            *)
Pieces(bytes) ==
  [i \in 1..((Len(bytes) + ReadSize - 1) \div ReadSize) |->
     SubSeq(bytes, (i - 1) * ReadSize + 1,
            IF i * ReadSize < Len(bytes) THEN i * ReadSize ELSE Len(bytes))]

(* qtproxy.readyRead emits a signal of its own for every piece.            *)
ReadyRead ==
  /\ Takes(Head(posted), "readyRead")
  /\ socket.state # "closed"
  /\ LET ps == Pieces(socket.bytes)
         read == Len(FlattenSeq(ps))
     IN  /\ posted' = Tail(posted)
                      \o FlattenSeq([i \in DOMAIN ps |-> Activated(Proxy, "inputData", ps[i])])
         /\ Raising(Proxy, "inputData", Len(ps))
         /\ socket' = [socket EXCEPT !.bytes = SubSeq(@, read + 1, Len(@))]
  /\ UNCHANGED <<stack, quitNow, interp, objects, meta, held, active, ws, arrived, got,
                 wanted, failed, nOps, nOpens>>

(* tcp_socket_read pushes nothing for a socket that is not open, so its    *)
(* result is its argument: never '', and the loop of readyRead never ends. *)
ReadyReadClosed ==
  /\ Takes(Head(posted), "readyRead")
  /\ socket.state = "closed"
  /\ posted' = Tail(posted)
  /\ stack' = Append(stack, "stuck")
  /\ UNCHANGED <<quitNow, interp, objects, meta, held, socket, active, ws, arrived, got, raised,
                 wanted, failed, nOps, nOpens>>

(* Bytes of SDL: readyRead, once for what came together.                   *)
DataArrives ==
  /\ LoopGoesOn
  /\ socket.state = "up"
  /\ \E n \in 1..(MaxBytes - Len(arrived)), b \in {0, 1} :
       LET bytes == [i \in 1..n |-> IF i = 1 THEN b ELSE 1] IN
         /\ socket' = [socket EXCEPT !.bytes = @ \o bytes]
         /\ arrived' = arrived \o bytes
  /\ Emit(Sock, "readyRead", <<<<>>>>)
  /\ UNCHANGED <<stack, batch, quitNow, interp, objects, meta, held, active, ws, got, ran,
                 wanted, failed, nOps, nOpens>>

(* The attempt that tcp_socket_connect left behind succeeds.               *)
ConnectsLate ==
  /\ LoopGoesOn
  /\ socket.state = "connecting"
  /\ socket' = [socket EXCEPT !.state = "up"]
  /\ Emit(Sock, "connected", <<<<>>>>)
  /\ UNCHANGED <<stack, batch, quitNow, interp, objects, meta, held, active, ws, arrived, got,
                 ran, wanted, failed, nOps, nOpens>>

(* QTimer: timeout() is queued like any other signal.  RunAfter's timer is *)
(* a single shot.                                                          *)
TimerFires(t) ==
  /\ LoopGoesOn
  /\ t \in active
  /\ t = Beat => raised[<<TimerD(t), "timeout">>] < MaxBeats
  /\ active' = active \ (Timers \cap {t})
  /\ wanted' = wanted \ (Timers \cap {t})
  /\ Emit(Timer(t), "timeout", <<<<>>>>)
  /\ UNCHANGED <<stack, batch, quitNow, interp, objects, meta, held, socket, ws, arrived, got,
                 ran, failed, nOps, nOpens>>

(* connected() or disconnected() of the WebSocket.                         *)
WsAnswers ==
  /\ LoopGoesOn
  /\ \/ ws.state = "opening" /\ \E s \in {"up", "idle"} : ws' = [state |-> s, done |-> TRUE]
     \/ ws.state = "up" /\ ws' = [state |-> "idle", done |-> TRUE]
  /\ UNCHANGED <<stack, posted, batch, quitNow, interp, objects, meta, held, socket, active,
                 historyVars, nOps, nOpens>>

(* The loop of web_socket_open has ended: connected, or the time is over.  *)
(* After quit further loops end at once, until the time is over.           *)
LoopEnds == batch = 0 /\ (quitNow \/ (Running = "open" /\ ws.done))
OpenReturns ==
  /\ Running = "open"
  /\ LoopEnds
  /\ stack' = Front(stack)
  /\ ws' = [ws EXCEPT !.done = FALSE, !.state = IF @ = "opening" THEN "idle" ELSE @]
  /\ UNCHANGED <<posted, batch, quitNow, interp, objects, meta, held, socket, active,
                 historyVars, nOps, nOpens>>

OpenAgain ==
  /\ Running = "open"
  /\ LoopEnds
  /\ ~quitNow
  /\ ws.state # "up"
  /\ nOpens < MaxOpens
  /\ nOpens' = nOpens + 1
  /\ ws' = [state |-> "opening", done |-> FALSE]
  /\ UNCHANGED <<stack, posted, batch, quitNow, interp, objects, meta, held, socket, active,
                 historyVars, nOps>>

(* app.exec() returns to main with the code of the last exit.              *)
ExecReturns ==
  /\ Running = "exec"
  /\ LoopEnds
  /\ EndOfProgram(interp.retCode)
  /\ UNCHANGED <<posted, batch, quitNow, objects, meta, held, socket, active, ws, historyVars,
                 nOps, nOpens>>

-----------------------------------------------------------------------------
Init ==
  /\ stack = <<"load">> /\ posted = <<>> /\ batch = 0
  /\ quitNow = FALSE
  /\ interp = [quitCalled |-> FALSE, retCode |-> 0, status |-> 0]
  /\ objects = {} /\ held = {} /\ active = {}
  /\ meta = [slots |-> [o \in Objects |-> <<>>], registry |-> {},
             connections |-> <<>>]
  /\ socket = [state |-> "none", bytes |-> <<>>]
  /\ ws = [state |-> "idle", done |-> FALSE]
  /\ arrived = <<>> /\ got = <<>>
  /\ raised = [s \in Slots |-> 0] /\ ran = [s \in Slots |-> 0]
  /\ wanted = {} /\ failed = FALSE
  /\ nOps = 0 /\ nOpens = 0

Script ==
  \/ NewTcp \/ TcpConnect \/ TcpClose \/ Forget
  \/ \E t \in Timers : RunAfter(t)
  \/ NewBeat \/ StartBeat \/ StopBeat \/ ForgetBeat
  \/ \E c \in Codes \cup {0} : Quit(c)
  \/ WsOpen \/ WsClose \/ LuaError

Loop ==
  \/ NextRound
  \/ \E slot \in {"connected", "inputData", "timeout"} : CallSlot(slot)
  \/ ReadyRead \/ ReadyReadClosed
  \/ \E t \in AllTimers : TimerFires(t)
  \/ SlotReturns \/ LoadReturns \/ OpenReturns \/ ExecReturns

World == DataArrives \/ ConnectsLate \/ WsAnswers \/ OpenAgain \/ \E o \in Objects : Collect(o)

Next == Script \/ Loop \/ World

(* Functions of the script return, the loop handles what is posted and     *)
(* runs the timers that are due.  Nothing is assumed of SDL, of the other  *)
(* end of the WebSocket or of the garbage collector.                       *)
Fairness == WF_vars(Loop) /\ \A t \in AllTimers : WF_vars(TimerFires(t))

Spec == Init /\ [][Next]_vars /\ Fairness

-----------------------------------------------------------------------------
(* Types; what the queue and the connections refer to lives, and is kept.  *)
TypeOK ==
  /\ \A i \in DOMAIN stack : stack[i] \in {"load", "exec", "slot", "open", "stuck"}
  /\ \A i \in DOMAIN posted : posted[i].to \in objects
  /\ batch \in 0..Len(posted)
  /\ quitNow \in BOOLEAN /\ failed \in BOOLEAN
  /\ interp \in [quitCalled : BOOLEAN, retCode : Codes \cup {0}, status : Codes \cup {0, 1}]
  /\ objects \subseteq Objects /\ held \subseteq objects /\ meta.registry \subseteq objects
  /\ \A i \in DOMAIN meta.connections : meta.connections[i].to \in meta.registry
  /\ socket.state \in {"none", "new", "connecting", "up", "closed"}
  /\ active \subseteq {t \in AllTimers : Timer(t) \in objects} /\ wanted \subseteq AllTimers
  /\ ws \in [state : {"idle", "opening", "up"}, done : BOOLEAN]

(* The bytes in the events of a queue that are on their way to the handler.*)
InTransit(q) ==
  LET upto[i \in 0..Len(q)] ==
        IF i = 0 THEN <<>> ELSE upto[i - 1] \o (IF q[i].to = Sink THEN q[i].arg ELSE <<>>)
  IN  upto[Len(q)]

(* Every byte SDL sent and the script did not throw away by closing the    *)
(* socket is in exactly one place: given to the handler, in an event on the*)
(* way to it, or in the socket; and in the order in which it was sent,     *)
(* through loops inside handlers and a script that forgot the connection.  *)
Lossless == arrived = got \o InTransit(posted) \o socket.bytes

(* A signal leads to one call of the function that the script named when it*)
(* connected the two (slotIndices, slotList, qt_metacall), no other.       *)
CalledOnce ==
  \A s \in Slots : raised[s] = ran[s] + Cardinality({i \in DOMAIN posted : SlotOf(posted[i]) = s})

(* A run that failed never exits with success: not when handlers that were *)
(* already due call quit again, not after an error in a handler.           *)
FailureKept == Exited /\ failed => interp.status # 0

(* The garbage collector stops no timer: one that was started runs until it*)
(* is stopped or, as a single shot, has fired, whatever the script forgets.*)
TimersRun == wanted \subseteq active

(* Once quit is called the program ends, wherever the call came from: the  *)
(* script while it is loaded, a handler, a handler inside the loop of      *)
(* web_socket_open.  Excepted is the loop of readyRead on a closed socket. *)
QuitEnds == interp.quitCalled ~> (Exited \/ Stuck)

(* What RunAfter was given runs, although the script keeps no reference to *)
(* the timer or to the receiver of its signal.                             *)
RunAfterFires ==
  \A t \in Timers : (Timer(t) \in objects) ~>
    (ran[<<TimerD(t), "timeout">>] > 0 \/ quitNow \/ Exited \/ Stuck)

(* Data do not stay in the socket or in the queue: one readyRead() is      *)
(* enough for all that is there.                                           *)
DataHandled == []<>(got = arrived \/ quitNow \/ Exited \/ Stuck)

(* From the socket to the handler nothing is lost or doubled: not a byte,  *)
(* not a call, and not a timer that somebody waits for.                    *)
NothingLost == Lossless /\ CalledOnce /\ TimersRun

(* The event loop serves everybody: RunAfter functions are called and      *)
(* received data are handled, also while a handler runs a loop of its own. *)
Served == RunAfterFires /\ DataHandled
=============================================================================
