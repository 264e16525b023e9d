------------------------------ MODULE RemoteHMI ------------------------------
(***************************************************************************)
(* The HMI connection of remote mode.  In ATF, HmiAdapterClient            *)
(* (hmi_adapter_client.cc) is used by the main thread and by a listener    *)
(* thread that polls; both make synchronous RPC calls through RemoteClient.*)
(* In the remote adapter server one RPC worker serves the calls with the   *)
(* MessageBroker (message_broker.cpp), whose io threads keep the WebSocket *)
(* to SDL.  SDL is external: it listens or not, sends messages, and answers*)
(* a close.                                                                *)
(*                                                                         *)
(* The messages of the script are numbered 1, 2, ... and so are those of   *)
(* SDL; 0 is the empty string.  There is one endpoint.  The two io threads *)
(* are one process, io: each handler starts the next operation.            *)
(***************************************************************************)
EXTENDS Integers, Sequences, SequencesExt

CONSTANTS
  MaxWrites,     \* bound: messages the script writes
  MaxReads,      \* bound: messages SDL sends
  MaxOpens,      \* bound: calls of connect
  MaxStops,      \* bound: number of times SDL stops
  MaxBacklog,    \* bound: calls at the server before the listener polls again
  MayDelete,     \* whether the script lets go of the HmiAdapterClient
  MayDie,        \* whether the remote adapter server may die
  Racy           \* whether a thread switch happens inside of GetSession

ASSUME BoundAssumption ==
  /\ {MaxWrites, MaxReads, MaxOpens, MaxStops, MaxBacklog} \subseteq Nat
  /\ {MayDelete, MayDie, Racy} \subseteq BOOLEAN

VARIABLES
  main,          \* main thread: "script", in the destructor "join" or "close", "gone"
  listener,      \* listener thread: "none", "loop", "ended"
  connected,     \* is_connected_
  call,          \* call[t]: the RPC call of thread t
  emitted,       \* textMessageReceived signals: [msg, by], in the order of Qt
  disconnects,   \* number of disconnected signals
  rpcUp,         \* whether the server lives
  rpcs,          \* calls the worker has not served
  job,           \* the call the worker is in the middle of
  context,       \* whether listener_context_ has the endpoint
  pend,          \* MessageBroker.msg_queue_ of the endpoint
  io,            \* what the io threads wait for or do
  session,       \* session_ of the listener: "none", "dummy", "real"
  ws,            \* the WebSocket of the real session
  closing,       \* a close frame was sent
  inq,           \* WebsocketSession.msg_queue_
  sdlUp, peer,   \* SDL listens; SDL's end of the WebSocket is alive
  written,       \* messages that SDL got
  nWrite, nRead, nOpen, nStop

client == <<main, listener, connected, emitted, disconnects>>
socket == <<io, session, ws, closing, inq, peer>>
counts == <<nWrite, nRead, nOpen, nStop>>
vars == <<client, call, rpcUp, rpcs, job, context, pend, socket, sdlUp, written, counts>>

Threads == {"main", "listener"}
Idle == [state |-> "idle", op |-> "none", msg |-> 0, code |-> "none"]
NoJob == [op |-> "none", msg |-> 0, from |-> "nobody"]

-----------------------------------------------------------------------------
(* RPC calls                                                               *)

(* RemoteClient::content_call: without a connection it returns at once.    *)
Call(t, op, m) ==
  /\ call[t].state = "idle"
  /\ \/ /\ rpcUp
        /\ rpcs' = Append(rpcs, [op |-> op, msg |-> m, from |-> t])
        /\ call' = [call EXCEPT ![t] = [Idle EXCEPT !.state = "waiting", !.op = op]]
     \/ /\ ~rpcUp
        /\ call' = [call EXCEPT ![t] = [Idle EXCEPT !.state = "answered", !.op = op,
                                                    !.code = "NO_CONNECTION"]]
        /\ UNCHANGED rpcs

(* The worker answers call j; nobody waits for one that timed out.         *)
Answer(j, m, code) ==
  call' = IF j.from = "nobody" THEN call
          ELSE [call EXCEPT ![j.from] = [state |-> "answered", op |-> j.op,
                                         msg |-> m, code |-> code]]

Forsaken(t, j) == IF j.from = t THEN [j EXCEPT !.from = "nobody"] ELSE j

(* Mutant: calls wait for ever.                                            *)
TimeoutNever(t) == FALSE /\ UNCHANGED vars

(* rpc::timeout after 10 s, which pass only when the worker is stuck or    *)
(* dead.  The call stays with the server.                                  *)
Timeout(t) ==
  /\ call[t].state = "waiting"
  /\ ~rpcUp \/ job.op \in {"open", "reopen", "close"}
  /\ call' = [call EXCEPT ![t] = [@ EXCEPT !.state = "answered", !.code = "TIMEOUT_EXPIRED"]]
  /\ rpcs' = [i \in 1..Len(rpcs) |-> Forsaken(t, rpcs[i])]
  /\ job' = Forsaken(t, job)
  /\ UNCHANGED <<client, rpcUp, context, pend, socket, sdlUp, written, counts>>

-----------------------------------------------------------------------------
(* HmiAdapterClient, main thread                                           *)

Connect ==
  /\ main = "script"
  /\ nOpen < MaxOpens
  /\ Call("main", IF connected \/ listener # "none" THEN "reopen" ELSE "open", 0)
  /\ nOpen' = nOpen + 1
  /\ UNCHANGED <<client, rpcUp, job, context, pend, socket, sdlUp, written,
                 nWrite, nRead, nStop>>

(* connect goes on: the first time it starts the listener.                 *)
OpenReturns ==
  /\ call["main"].state = "answered"
  /\ call["main"].op \in {"open", "reopen"}
  /\ IF call["main"].op = "open" /\ call["main"].code = "SUCCESS"
     THEN connected' = TRUE /\ listener' = "loop"
     ELSE UNCHANGED <<connected, listener>>
  /\ call' = [call EXCEPT !["main"] = Idle]
  /\ UNCHANGED <<main, emitted, disconnects, rpcUp, rpcs, job, context, pend, socket,
                 sdlUp, written, counts>>

(* send.                                                                   *)
Send ==
  /\ main = "script"
  /\ connected
  /\ nWrite < MaxWrites
  /\ Call("main", "send", nWrite + 1)
  /\ nWrite' = nWrite + 1
  /\ UNCHANGED <<client, rpcUp, job, context, pend, socket, sdlUp, written,
                 nRead, nOpen, nStop>>

(* The destructor: exit_signal_ is set, the listener is joined,            *)
Delete ==
  /\ MayDelete
  /\ main = "script" /\ call["main"].state = "idle"
  /\ main' = "join"
  /\ UNCHANGED <<listener, connected, emitted, disconnects, call, rpcUp, rpcs, job,
                 context, pend, socket, sdlUp, written, counts>>

(* and the endpoint is closed.                                             *)
CloseHandle ==
  /\ main = "join"
  /\ listener # "loop"
  /\ \/ /\ connected
        /\ main' = "close"
        /\ Call("main", "close", 0)
     \/ /\ ~connected
        /\ main' = "gone"
        /\ UNCHANGED <<call, rpcs>>
  /\ UNCHANGED <<listener, connected, emitted, disconnects, rpcUp, job, context,
                 pend, socket, sdlUp, written, counts>>

CloseReturns ==
  /\ main = "close"
  /\ call["main"].state = "answered"
  /\ main' = "gone"
  /\ call' = [call EXCEPT !["main"] = Idle]
  /\ UNCHANGED <<listener, connected, emitted, disconnects, rpcUp, rpcs, job, context,
                 pend, socket, sdlUp, written, counts>>

-----------------------------------------------------------------------------
(* HmiAdapterClient, listener thread, and what both threads do             *)

(* receive, every 25 ms until exit_signal_ is set.                         *)
Receive ==
  /\ listener = "loop"
  /\ main = "script"
  /\ connected
  /\ Len(rpcs) < MaxBacklog
  /\ Call("listener", "receive", 0)
  /\ UNCHANGED <<client, rpcUp, job, context, pend, socket, sdlUp, written, counts>>

ListenerEnds ==
  /\ listener = "loop"
  /\ main = "join"
  /\ call["listener"].state = "idle"
  /\ listener' = "ended"
  /\ UNCHANGED <<main, connected, emitted, disconnects, call, rpcUp, rpcs, job, context,
                 pend, socket, sdlUp, written, counts>>

(* send and receive go on: a message that came with SUCCESS is emitted,    *)
(* connectionLost is entered with NO_CONNECTION, other codes are ignored.  *)
DataReturns(t) ==
  LET c == call[t]
  IN /\ c.state = "answered"
     /\ c.op \in {"send", "receive"}
     /\ emitted' = IF c.code = "SUCCESS" /\ c.msg # 0
                   THEN Append(emitted, [msg |-> c.msg, by |-> t]) ELSE emitted
     /\ call' = [call EXCEPT ![t] =
                  IF c.code = "NO_CONNECTION" /\ connected
                  THEN [c EXCEPT !.state = "losing"] ELSE Idle]
     /\ UNCHANGED <<main, listener, connected, disconnects, rpcUp, rpcs, job, context,
                    pend, socket, sdlUp, written, counts>>

(* connectionLost, after the test of is_connected_.                        *)
ConnectionLost(t) ==
  /\ call[t].state = "losing"
  /\ connected' = FALSE
  /\ disconnects' = disconnects + 1
  /\ call' = [call EXCEPT ![t] = Idle]
  /\ UNCHANGED <<main, listener, emitted, rpcUp, rpcs, job, context, pend, socket,
                 sdlUp, written, counts>>

-----------------------------------------------------------------------------
(* MessageBroker, the RPC worker                                           *)

(* The worker is free and j is the next call.                              *)
Takes(j) ==
  /\ rpcUp
  /\ job = NoJob
  /\ rpcs # <<>>
  /\ j = Head(rpcs)
  /\ rpcs' = Tail(rpcs)

(* MakeContext and WebsocketListener::Run.                                 *)
MakeContext ==
  /\ context' = TRUE
  /\ io' = "resolve"
  /\ session' = "none"
  /\ ws' = "none"
  /\ closing' = FALSE
  /\ inq' = <<>>
  /\ peer' = FALSE

(* OpenConnection of an endpoint that is not open.                         *)
Open(j) ==
  /\ Takes(j)
  /\ j.op \in {"open", "reopen"}
  /\ ~context
  /\ MakeContext
  /\ Answer(j, 0, "SUCCESS")
  /\ UNCHANGED <<client, rpcUp, job, pend, sdlUp, written, counts>>

(* CloseConnection, alone or in OpenConnection, to the join: Stop cancels  *)
(* the resolver and closes the session if there is one.  A client closes   *)
(* only an endpoint that it opened.                                        *)
Stop(j) ==
  /\ Takes(j)
  /\ j.op \in {"open", "reopen", "close"}
  /\ context
  /\ job' = j
  /\ io' = IF io = "resolve" THEN "idle" ELSE io
  /\ closing' = (session = "real" /\ ws = "open")
  /\ UNCHANGED <<client, call, rpcUp, context, pend, session, ws, inq, peer, sdlUp,
                 written, counts>>

(* Mutant: the endpoint is erased after it was made again.                 *)
JoinErases ==
  /\ rpcUp
  /\ job.op \in {"open", "reopen", "close"}
  /\ io = "idle"
  /\ pend' = <<>>
  /\ job' = NoJob
  /\ Answer(job, 0, "SUCCESS")
  /\ context' = FALSE
  /\ session' = "none" /\ ws' = "none" /\ closing' = FALSE
  /\ inq' = <<>> /\ peer' = FALSE
  /\ UNCHANGED <<io, client, rpcUp, rpcs, sdlUp, written, counts>>

(* The io threads are joined when they have nothing left to do.            *)
Join ==
  /\ rpcUp
  /\ job.op \in {"open", "reopen", "close"}
  /\ io = "idle"
  /\ pend' = <<>>
  /\ job' = NoJob
  /\ Answer(job, 0, "SUCCESS")
  /\ \/ /\ job.op = "close"
        /\ context' = FALSE
        /\ session' = "none" /\ ws' = "none" /\ closing' = FALSE
        /\ inq' = <<>> /\ peer' = FALSE
        /\ UNCHANGED io
     \/ /\ job.op # "close"
        /\ MakeContext
  /\ UNCHANGED <<client, rpcUp, rpcs, sdlUp, written, counts>>

(* GetSession without a session, between its test and its assignment.      *)
GetSession(j) ==
  /\ Racy
  /\ Takes(j)
  /\ j.op \in {"send", "receive"}
  /\ context /\ session = "none"
  /\ job' = j
  /\ UNCHANGED <<client, call, rpcUp, context, pend, socket, sdlUp, written, counts>>

(* The worker is to serve j with session s: GetSession returns session_,   *)
(* and a dummy when it found none.                                         *)
Served(j, s) ==
  \/ /\ Takes(j)
     /\ context /\ ~(Racy /\ session = "none")
     /\ s = (IF session = "none" THEN "dummy" ELSE session)
     /\ UNCHANGED job
  \/ /\ rpcUp
     /\ job.op \in {"send", "receive"} /\ j = job
     /\ s = "dummy"
     /\ job' = NoJob
     /\ UNCHANGED rpcs

IsOpen(s) == s = "real" /\ ws = "open"

(* Mutant: the message stays in the queue.                                 *)
GetMessageKeeps(s) ==
  [msg |-> IF s = "real" /\ inq # <<>> THEN Head(inq) ELSE 0, rest |-> inq]

(* WebsocketSession::GetMessage: the front of the queue, or nothing.       *)
GetMessage(s) ==
  IF s = "real" /\ inq # <<>> THEN [msg |-> Head(inq), rest |-> Tail(inq)]
  ELSE [msg |-> 0, rest |-> inq]

NoConnection(j) ==
  /\ Takes(j)
  /\ j.op \in {"send", "receive"}
  /\ ~context
  /\ Answer(j, 0, "NO_CONNECTION")
  /\ UNCHANGED <<client, rpcUp, job, context, pend, socket, sdlUp, written, counts>>

(* Mutant: what cannot be written is not kept.                             *)
SendClosedDrops(j, s) ==
  /\ Served(j, s)
  /\ j.op = "send"
  /\ ~IsOpen(s)
  /\ session' = s
  /\ Answer(j, 0, "WRITE_FAILURE")
  /\ UNCHANGED <<client, rpcUp, context, pend, io, ws, closing, inq, peer, sdlUp, written,
                 counts>>

(* MessageBroker::Send while the WebSocket is not open.                    *)
SendClosed(j, s) ==
  /\ Served(j, s)
  /\ j.op = "send"
  /\ ~IsOpen(s)
  /\ session' = s
  /\ pend' = Append(pend, j.msg)
  /\ Answer(j, 0, "WRITE_FAILURE")
  /\ UNCHANGED <<client, rpcUp, context, io, ws, closing, inq, peer, sdlUp, written,
                 counts>>

(* MessageBroker::Send.  When SDL's end is gone the write fails, or is not *)
(* yet known to fail.                                                      *)
SendOpen(j, s) ==
  /\ Served(j, s)
  /\ j.op = "send"
  /\ IsOpen(s)
  /\ session' = s
  /\ inq' = GetMessage(s).rest
  /\ \/ /\ written' = IF peer THEN Append(written, j.msg) ELSE written
        /\ Answer(j, GetMessage(s).msg, "SUCCESS")
        /\ UNCHANGED ws
     \/ /\ ~peer
        /\ ws' = "failed"
        /\ Answer(j, GetMessage(s).msg, "WRITE_FAILURE")
        /\ UNCHANGED written
  /\ UNCHANGED <<client, rpcUp, context, pend, io, closing, peer, sdlUp, counts>>

(* FlushPendingMsg: the messages leave the queue one by one until a write  *)
(* fails.                                                                  *)
FlushPendingMsg(s) ==
  \/ /\ pend = <<>> \/ ~IsOpen(s)
     /\ UNCHANGED <<pend, ws, written>>
  \/ /\ pend # <<>> /\ IsOpen(s) /\ peer
     /\ written' = written \o pend
     /\ pend' = <<>>
     /\ UNCHANGED ws
  \/ /\ pend # <<>> /\ IsOpen(s) /\ ~peer
     /\ \E n \in 0..Len(pend) :
          /\ pend' = SubSeq(pend, n + 1, Len(pend))
          /\ ws' = IF n < Len(pend) THEN "failed" ELSE ws
     /\ UNCHANGED written

(* MessageBroker::Receive.                                                 *)
ReceiveNext(j, s) ==
  /\ Served(j, s)
  /\ j.op = "receive"
  /\ session' = s
  /\ FlushPendingMsg(s)
  /\ inq' = GetMessage(s).rest
  /\ Answer(j, GetMessage(s).msg, "SUCCESS")
  /\ UNCHANGED <<client, rpcUp, context, io, closing, peer, sdlUp, counts>>

Worker ==
  \/ \E j \in ToSet(rpcs) : \/ Open(j) \/ Stop(j) \/ GetSession(j)
                            \/ NoConnection(j)
  \/ Join
  \/ \E j \in ToSet(rpcs) \cup {job}, s \in {"dummy", "real"} :
        SendClosed(j, s) \/ SendOpen(j, s) \/ ReceiveNext(j, s)

-----------------------------------------------------------------------------
(* WebsocketListener and WebsocketSession, the io threads                  *)

ioUnchanged == <<client, call, rpcUp, rpcs, job, context, pend, sdlUp, written>>

(* OnResolve, to the connect.                                              *)
OnResolve ==
  /\ io = "resolve"
  /\ io' = "connect"
  /\ UNCHANGED <<ioUnchanged, session, ws, closing, inq, peer, counts>>

(* connect fails: DoResolve again.                                         *)
ConnectFails ==
  /\ io = "connect" /\ ~sdlUp
  /\ io' = "resolve"
  /\ UNCHANGED <<ioUnchanged, session, ws, closing, inq, peer, counts>>

(* connect succeeds: session_ is set, Run begins the handshake.            *)
Connected ==
  /\ io = "connect" /\ sdlUp
  /\ io' = "handshake"
  /\ session' = "real"
  /\ ws' = "handshake"
  /\ peer' = TRUE
  /\ UNCHANGED <<ioUnchanged, closing, inq, counts>>

(* WebsocketSession::Run: AsyncRead is called even when the handshake has  *)
(* failed, and fails too.  A session that GetSession replaced meanwhile is *)
(* gone.                                                                   *)
Run ==
  /\ io = "handshake"
  /\ IF session = "real" /\ peer THEN io' = "read" /\ ws' = "open"
     ELSE io' = "idle" /\ ws' = "failed"
  /\ UNCHANGED <<ioUnchanged, session, closing, inq, peer, counts>>

(* OnRead: a message of SDL.                                               *)
OnRead ==
  /\ io = "read" /\ ws = "open" /\ peer
  /\ nRead < MaxReads
  /\ nRead' = nRead + 1
  /\ inq' = Append(inq, nRead + 1)
  /\ UNCHANGED <<ioUnchanged, io, session, ws, closing, peer, nWrite, nOpen, nStop>>

(* OnRead with an error code: there is no further read.                    *)
OnReadFails ==
  /\ io = "read" /\ (~peer \/ ws = "failed")
  /\ io' = "idle"
  /\ ws' = "failed"
  /\ UNCHANGED <<ioUnchanged, session, closing, inq, peer, counts>>

(* SDL answers the close frame: OnClose and OnRead end.                    *)
OnClose ==
  /\ io = "read" /\ closing /\ peer
  /\ io' = "idle"
  /\ ws' = "failed"
  /\ peer' = FALSE
  /\ UNCHANGED <<ioUnchanged, session, closing, inq, counts>>

IO == OnResolve \/ ConnectFails \/ Connected \/ Run \/ OnReadFails \/ OnClose

-----------------------------------------------------------------------------
(* The environment                                                         *)

SDLStart ==
  /\ ~sdlUp
  /\ sdlUp' = TRUE
  /\ UNCHANGED <<client, call, rpcUp, rpcs, job, context, pend, socket, written, counts>>

SDLStop ==
  /\ sdlUp
  /\ nStop < MaxStops
  /\ nStop' = nStop + 1
  /\ sdlUp' = FALSE
  /\ peer' = FALSE
  /\ UNCHANGED <<client, call, rpcUp, rpcs, job, context, pend, io, session, ws, closing,
                 inq, written, nWrite, nRead, nOpen>>

(* The remote adapter server dies with everything it had.                  *)
ServerDies ==
  /\ MayDie /\ rpcUp
  /\ rpcUp' = FALSE
  /\ rpcs' = <<>>
  /\ job' = NoJob
  /\ context' = FALSE
  /\ pend' = <<>>
  /\ io' = "idle" /\ session' = "none" /\ ws' = "none" /\ closing' = FALSE
  /\ inq' = <<>> /\ peer' = FALSE
  /\ UNCHANGED <<client, call, sdlUp, written, counts>>

-----------------------------------------------------------------------------
Init ==
  /\ main = "script"
  /\ listener = "none"
  /\ connected = FALSE
  /\ call = [t \in Threads |-> Idle]
  /\ emitted = <<>>
  /\ disconnects = 0
  /\ rpcUp = TRUE
  /\ rpcs = <<>>
  /\ job = NoJob
  /\ context = FALSE
  /\ pend = <<>>
  /\ io = "idle"
  /\ session = "none"
  /\ ws = "none"
  /\ closing = FALSE
  /\ inq = <<>>
  /\ sdlUp \in BOOLEAN
  /\ peer = FALSE
  /\ written = <<>>
  /\ nWrite = 0 /\ nRead = 0 /\ nOpen = 0 /\ nStop = 0

Main == OpenReturns \/ CloseHandle \/ CloseReturns
Listening == Receive \/ ListenerEnds
Returns(t) == DataReturns(t) \/ ConnectionLost(t)

Next ==
  \/ Connect \/ Send \/ Delete
  \/ Main
  \/ Listening
  \/ \E t \in Threads : Returns(t) \/ Timeout(t)
  \/ Worker
  \/ IO \/ OnRead
  \/ SDLStart \/ SDLStop \/ ServerDies

Spec == Init /\ [][Next]_vars

(* Threads are scheduled, calls time out, sockets make progress, and SDL   *)
(* answers a close frame.  Nothing makes SDL start or send.                *)
Fairness ==
  /\ WF_vars(Main)
  /\ WF_vars(Listening)
  /\ \A t \in Threads : WF_vars(Returns(t)) /\ WF_vars(Timeout(t))
  /\ WF_vars(Worker)
  /\ WF_vars(IO)

FairSpec == Spec /\ Fairness

-----------------------------------------------------------------------------
(* Properties                                                              *)

(* Every variable keeps its type; a thread has at most one call with the   *)
(* server, and has one there exactly while it waits for its answer.        *)
Request == [op : {"open", "reopen", "send", "receive", "close"}, msg : 0..MaxWrites,
            from : Threads \cup {"nobody"}]
TypeOK ==
  /\ main \in {"script", "join", "close", "gone"}
  /\ listener \in {"none", "loop", "ended"}
  /\ {connected, rpcUp, context, closing, sdlUp, peer} \subseteq BOOLEAN
  /\ \A t \in Threads :
       /\ call[t].state \in {"idle", "waiting", "answered", "losing"}
       /\ rpcUp => (call[t].state = "waiting" <=>
                      \/ job.from = t
                      \/ \E i \in 1..Len(rpcs) : rpcs[i].from = t)
  /\ rpcs \in Seq(Request)
  /\ job \in Request \cup {NoJob}
  /\ io \in {"idle", "resolve", "connect", "handshake", "read"}
  /\ session \in {"none", "dummy", "real"}
  /\ ws \in {"none", "handshake", "open", "failed"}
  /\ pend \in Seq(1..MaxWrites) /\ inq \in Seq(1..MaxReads)

(* Whatever calls time out, threads interleave and sessions are replaced:  *)
(* a message of SDL is emitted once at most, in SDL's order by each thread,*)
(* and a message of the script reaches SDL once at most.                   *)
OnceEach ==
  /\ \A i, k \in 1..Len(emitted) :
       i < k => /\ emitted[i].msg # emitted[k].msg
                /\ emitted[i].by = emitted[k].by => emitted[i].msg < emitted[k].msg
  /\ \A i, k \in 1..Len(written) : i < k => written[i] # written[k]

(* The client is told that the connection is lost only when the server is  *)
(* gone: as long as the server lives it has an open endpoint for a client  *)
(* that believes to be connected, through reconnects and timeouts.         *)
LostMeansGone == disconnects > 0 => ~rpcUp

(* One connection to an SDL that stays up, and GetSession has not put a    *)
(* dummy in the place of the session that OnResolve made between its test  *)
(* and its assignment: then nothing passes until the next connect.         *)
Replaced == session = "dummy" /\ ws # "none"
Undisturbed == rpcUp /\ main = "script" /\ nOpen <= 1 /\ nStop = 0 /\ ~Replaced

(* A message of SDL in the session's queue is emitted.                     *)
AllReceived ==
  \A m \in 1..MaxReads :
     m \in ToSet(inq) ~> ((\E i \in 1..Len(emitted) : emitted[i].msg = m) \/ ~Undisturbed)

(* If SDL listens, every message the script sent reaches it, also those    *)
(* sent before the WebSocket was open.                                     *)
AllWritten ==
  <>[]sdlUp => \A m \in 1..MaxWrites : nWrite >= m ~> (m \in ToSet(written) \/ ~Undisturbed)

(* The destructor of HmiAdapterClient ends, even when the worker never     *)
(* comes back from a join or the server is dead.                           *)
DestroyReturns == main = "join" ~> main = "gone"

(* WebsocketListener::Stop, "Stop the io_context object's event processing *)
(* loop and close the WebSocket connection": the worker, which joins the io*)
(* threads after it, comes back if SDL listens.                            *)
StopReturns == <>[]sdlUp => (job # NoJob ~> job = NoJob)

(* Every thread keeps its protocol of one call at a time, and no message   *)
(* of either side is duplicated, whatever times out, is replaced or dies.  *)
NoDuplicates == TypeOK /\ OnceEach

(* On one connection to an SDL that stays up the client and SDL hear       *)
(* everything the other side says, whichever thread carries it and wherever*)
(* the threads switch, unless a racing GetSession has replaced the session.*)
Delivery == AllReceived /\ AllWritten
=============================================================================
