--------------------------- MODULE RemoteHMIProofs ---------------------------
(***************************************************************************)
(* Proofs about RemoteHMI, for any number of messages, reconnects, SDL     *)
(* stops, and whether or not the server may die and GetSession races.      *)
(*                                                                         *)
(* The argument follows a message on its way.  A message of the script is  *)
(* in one place only: in a call, in the queue of the broker, or at SDL     *)
(* (Unsent, Gone, WrittenOnce).  A message of SDL is in the queue of the   *)
(* session, in one answer, or emitted, and what is emitted or answered is  *)
(* older than what is queued (EmittedOnce).  That the client never loses a *)
(* living server rests on the order of the calls: close is the last call a *)
(* client makes (CloseLast), so the endpoint is open for all others        *)
(* (EndpointOpen).                                                         *)
(***************************************************************************)
EXTENDS RemoteHMI, TLAPS

Ops == {"open", "reopen", "send", "receive", "close"}
CallRecord ==
  [state : {"idle", "waiting", "answered", "losing"}, op : Ops \cup {"none"}, msg : Nat,
   code : {"none", "SUCCESS", "NO_CONNECTION", "TIMEOUT_EXPIRED", "WRITE_FAILURE"}]

(* TypeOK without the protocol of the calls, and the types of the rest.    *)
CallTypes ==
  /\ call \in [Threads -> CallRecord]
  /\ rpcs \in Seq(Request)
  /\ job \in Request \cup {NoJob}
  /\ nWrite \in 0..MaxWrites
ControlTypes ==
  /\ main \in {"script", "join", "close", "gone"}
  /\ listener \in {"none", "loop", "ended"}
  /\ disconnects \in Nat
FlagTypes == {connected, rpcUp, context, closing, sdlUp, peer} \subseteq BOOLEAN
SocketTypes ==
  /\ io \in {"idle", "resolve", "connect", "handshake", "read"}
  /\ session \in {"none", "dummy", "real"}
  /\ ws \in {"none", "handshake", "open", "failed"}
Emission == [msg : 1..MaxReads, by : Threads]
ReadTypes ==
  /\ nRead \in 0..MaxReads
  /\ inq \in Seq(1..MaxReads)
  /\ emitted \in Seq(Emission)

(* A thread that waits has one call at the server, others have none.       *)
OneCall ==
  rpcUp => \A t \in Threads :
     /\ call[t].state = "waiting" <=>
          job.from = t \/ \E i \in 1..Len(rpcs) : rpcs[i].from = t
     /\ \A i \in 1..Len(rpcs) : rpcs[i].from = t =>
          job.from # t /\ \A k \in 1..Len(rpcs) : rpcs[k].from = t => i = k

(* No call follows the close of the destructor.                            *)
CloseLast ==
  rpcUp =>
    /\ job.op = "close" => main \in {"close", "gone"} /\ rpcs = <<>>
    /\ \A i \in 1..Len(rpcs) :
         rpcs[i].op = "close" => main \in {"close", "gone"} /\ i = Len(rpcs)

(* The endpoint is open for every call that needs it.                      *)
Opened ==
  \/ connected
  \/ /\ call["main"].state = "answered"
     /\ call["main"].op = "open" /\ call["main"].code = "SUCCESS"
EndpointOpen ==
  rpcUp =>
    /\ Opened /\ main \in {"script", "join"} => context
    /\ \A i \in 1..Len(rpcs) : rpcs[i].op \in {"send", "receive"} => context

NotLost ==
  rpcUp =>
    /\ disconnects = 0
    /\ \A t \in Threads : /\ call[t].state # "losing"
                          /\ call[t].state = "answered" => call[t].code # "NO_CONNECTION"

(* The messages in calls are different ones.                               *)
Unsent ==
  /\ \A i \in 1..Len(rpcs) : rpcs[i].op = "send" =>
       /\ rpcs[i].msg \in 1..nWrite
       /\ \A k \in 1..Len(rpcs) : rpcs[k].op = "send" /\ rpcs[k].msg = rpcs[i].msg => i = k
       /\ job.op = "send" => job.msg # rpcs[i].msg
  /\ job.op = "send" => job.msg \in 1..nWrite

(* A message that has left its call is in the queue of the broker or at    *)
(* SDL, once.                                                              *)
Absent(m) ==
  /\ m \in 1..nWrite
  /\ \A i \in 1..Len(rpcs) : rpcs[i].op = "send" => rpcs[i].msg # m
  /\ job.op = "send" => job.msg # m
Gone == {m \in Nat : Absent(m)}
WrittenOnce ==
  /\ pend \in Seq(1..MaxWrites) /\ written \in Seq(1..MaxWrites)
  /\ \A i \in 1..Len(pend) : pend[i] \in Gone
  /\ \A i \in 1..Len(written) : written[i] \in Gone
  /\ \A i, k \in 1..Len(pend) : i # k => pend[i] # pend[k]
  /\ \A i, k \in 1..Len(written) : i # k => written[i] # written[k]
  /\ \A i \in 1..Len(pend), k \in 1..Len(written) : pend[i] # written[k]

(* What is emitted or on the way to it is older than what is in the queue. *)
Holds(t) == call[t].state = "answered" /\ call[t].code = "SUCCESS" /\ call[t].msg # 0
EmittedOnce ==
  /\ \A i \in 1..Len(inq) :
       inq[i] <= nRead /\ \A k \in 1..Len(inq) : i < k => inq[i] < inq[k]
  /\ \A t \in Threads : Holds(t) =>
       /\ call[t].msg \in 1..nRead
       /\ \A i \in 1..Len(inq) : call[t].msg < inq[i]
       /\ \A u \in Threads : Holds(u) /\ u # t => call[u].msg # call[t].msg
       /\ \A i \in 1..Len(emitted) :
            /\ emitted[i].msg # call[t].msg
            /\ emitted[i].by = t => emitted[i].msg < call[t].msg
  /\ \A i \in 1..Len(emitted) :
       /\ emitted[i].msg <= nRead
       /\ \A k \in 1..Len(inq) : emitted[i].msg < inq[k]
       /\ \A k \in 1..Len(emitted) : i < k =>
            /\ emitted[i].msg # emitted[k].msg
            /\ emitted[i].by = emitted[k].by => emitted[i].msg < emitted[k].msg

Inv ==
  /\ CallTypes /\ ControlTypes /\ FlagTypes /\ SocketTypes /\ ReadTypes
  /\ OneCall /\ CloseLast /\ EndpointOpen /\ NotLost
  /\ Unsent /\ WrittenOnce /\ EmittedOnce

-----------------------------------------------------------------------------
(* What a step may do to the calls.                                        *)

MakesCall(t, op, m) ==
  /\ Call(t, op, m)
  /\ UNCHANGED <<rpcUp, job>>
  /\ \/ op = "close" /\ main = "join" /\ main' = "close"
     \/ /\ op # "close" /\ main = "script" /\ UNCHANGED main
        /\ op \in {"send", "receive"} => connected
Returned(t) ==
  /\ call[t].state \in {"answered", "losing"}
  /\ \/ call' = [call EXCEPT ![t] = Idle]
     \/ call' = [call EXCEPT ![t] = [call[t] EXCEPT !.state = "losing"]]
  /\ UNCHANGED <<rpcUp, rpcs, job>>
Lapses(t) ==
  /\ call[t].state = "waiting"
  /\ call' = [call EXCEPT ![t] = [@ EXCEPT !.state = "answered", !.code = "TIMEOUT_EXPIRED"]]
  /\ rpcs' = [i \in 1..Len(rpcs) |-> Forsaken(t, rpcs[i])]
  /\ job' = Forsaken(t, job)
  /\ UNCHANGED rpcUp
Starts(j) == Takes(j) /\ job' = j /\ UNCHANGED <<rpcUp, call>>
Codes == {"SUCCESS", "NO_CONNECTION", "WRITE_FAILURE"}
Finishes(j, m, code) ==
  /\ rpcUp /\ UNCHANGED rpcUp
  /\ \/ Takes(j) /\ UNCHANGED job
     \/ j = job /\ job # NoJob /\ job' = NoJob /\ UNCHANGED rpcs
  /\ Answer(j, m, code)
Dead == ~rpcUp' /\ rpcs' = <<>> /\ job' = NoJob /\ UNCHANGED call

CallStep ==
  \/ \E t \in Threads, op \in Ops, m \in 0..MaxWrites :
       MakesCall(t, op, m) /\ (op = "send" => m = nWrite + 1 /\ nWrite' = m)
                           /\ (op # "send" => nWrite' = nWrite)
  \/ \E t \in Threads : (Returned(t) \/ Lapses(t)) /\ UNCHANGED nWrite
  \/ \E j \in Request : Starts(j) /\ UNCHANGED nWrite
  \/ \E j \in Request, m \in Nat, code \in Codes : Finishes(j, m, code) /\ UNCHANGED nWrite
  \/ Dead /\ UNCHANGED nWrite
  \/ UNCHANGED <<rpcUp, call, rpcs, job, nWrite>>

(* The bounds are numbers.                                                 *)
LEMMA Bounds == MaxWrites \in Nat /\ MaxReads \in Nat
  BY BoundAssumption

(* GetMessage returns a number.                                            *)
LEMMA GetMessageType ==
  ASSUME ReadTypes, NEW s
  PROVE  GetMessage(s).msg \in Nat /\ GetMessage(s).rest \in Seq(1..MaxReads)
<1>1. CASE s = "real" /\ inq # <<>>
  <2>1. GetMessage(s) = [msg |-> Head(inq), rest |-> Tail(inq)]
    BY <1>1 DEF GetMessage
  <2>2. Head(inq) \in 1..MaxReads /\ Tail(inq) \in Seq(1..MaxReads)
    BY <1>1, Bounds DEF ReadTypes
  <2>. QED
    BY <2>1, <2>2
<1>2. CASE ~(s = "real" /\ inq # <<>>)
  <2>1. GetMessage(s) = [msg |-> 0, rest |-> inq]
    BY <1>2 DEF GetMessage
  <2>. QED
    BY <2>1 DEF ReadTypes
<1>. QED
  BY <1>1, <1>2

(* The call a worker takes from its queue or is in the middle of.          *)
LEMMA ServedFinishes ==
  ASSUME CallTypes, NEW j \in ToSet(rpcs) \cup {job}, NEW s, Served(j, s),
         NEW m \in Nat, NEW code \in Codes, Answer(j, m, code), UNCHANGED rpcUp
  PROVE  j \in Request /\ Finishes(j, m, code)
<1>1. CASE Takes(j) /\ UNCHANGED job
  <2>1. j \in Request
    BY <1>1 DEF Takes, CallTypes
  <2>2. rpcUp
    BY <1>1 DEF Takes
  <2>. QED
    BY <1>1, <2>1, <2>2 DEF Finishes
<1>2. CASE /\ rpcUp
           /\ job.op \in {"send", "receive"} /\ j = job
           /\ job' = NoJob
           /\ UNCHANGED rpcs
  <2>1. job # NoJob
    BY <1>2 DEF NoJob
  <2>2. j \in Request
    BY <1>2, <2>1 DEF CallTypes
  <2>. QED
    BY <1>2, <2>1, <2>2 DEF Finishes
<1>. QED
  BY <1>1, <1>2 DEF Served

(* Every step is one of these as far as the calls are concerned.           *)
LEMMA StepsOfCalls ==
  ASSUME CallTypes, ReadTypes, Next
  PROVE  CallStep
<1>1. CASE Connect
  <2>1. PICK op \in {"reopen", "open"} : Call("main", op, 0)
    BY <1>1 DEF Connect
  <2>2. MakesCall("main", op, 0) /\ UNCHANGED nWrite
    BY <1>1, <2>1 DEF Connect, MakesCall, client
  <2>. QED
    BY <2>2, Bounds DEF CallStep, Ops, Threads
<1>2. CASE Send
  <2>1. nWrite + 1 \in 0..MaxWrites /\ nWrite' = nWrite + 1
    BY <1>2, Bounds DEF Send, CallTypes
  <2>2. MakesCall("main", "send", nWrite + 1)
    BY <1>2 DEF Send, MakesCall, client
  <2>. QED
    BY <2>1, <2>2 DEF CallStep, Ops, Threads
<1>3. CASE CloseHandle
  <2>1. UNCHANGED <<rpcUp, job, nWrite>>
    BY <1>3 DEF CloseHandle, counts
  <2>2. CASE Call("main", "close", 0) /\ main' = "close"
    BY <1>3, <2>1, <2>2, Bounds DEF CloseHandle, MakesCall, CallStep, Ops, Threads
  <2>3. CASE UNCHANGED <<call, rpcs>>
    BY <2>1, <2>3 DEF CallStep
  <2>. QED
    BY <1>3, <2>2, <2>3 DEF CloseHandle
<1>4. CASE Receive
  <2>1. MakesCall("listener", "receive", 0) /\ UNCHANGED nWrite
    BY <1>4 DEF Receive, MakesCall, client, counts
  <2>. QED
    BY <2>1, Bounds DEF CallStep, Ops, Threads
<1>5. CASE OpenReturns \/ CloseReturns
  <2>1. Returned("main") /\ UNCHANGED nWrite
    BY <1>5 DEF OpenReturns, CloseReturns, Returned, counts
  <2>. QED
    BY <2>1 DEF CallStep, Threads
<1>6. ASSUME NEW t \in Threads, Returns(t)
      PROVE  CallStep
  <2>1. Returned(t) /\ UNCHANGED nWrite
    BY <1>6 DEF Returns, DataReturns, ConnectionLost, Returned, counts
  <2>. QED
    BY <2>1 DEF CallStep
<1>7. ASSUME NEW t \in Threads, Timeout(t)
      PROVE  CallStep
  <2>1. Lapses(t) /\ UNCHANGED nWrite
    BY <1>7 DEF Timeout, Lapses, counts
  <2>. QED
    BY <2>1 DEF CallStep
<1>8. ASSUME NEW j \in ToSet(rpcs), Open(j) \/ NoConnection(j)
      PROVE  CallStep
  <2>1. j \in Request /\ rpcUp /\ Takes(j)
    BY <1>8 DEF Open, NoConnection, Takes, CallTypes
  <2>2. PICK code \in Codes : Answer(j, 0, code)
    BY <1>8 DEF Open, NoConnection, Codes
  <2>3. UNCHANGED <<rpcUp, job, nWrite>>
    BY <1>8 DEF Open, NoConnection, counts
  <2>4. Finishes(j, 0, code)
    BY <2>1, <2>2, <2>3 DEF Finishes
  <2>. QED
    BY <2>1, <2>3, <2>4 DEF CallStep
<1>9. ASSUME NEW j \in ToSet(rpcs), Stop(j) \/ GetSession(j)
      PROVE  CallStep
  <2>1. j \in Request
    BY <1>9 DEF Stop, GetSession, Takes, CallTypes
  <2>2. Starts(j) /\ UNCHANGED nWrite
    BY <1>9 DEF Stop, GetSession, Starts, counts
  <2>. QED
    BY <2>1, <2>2 DEF CallStep
<1>10. CASE Join
  <2>1. job \in Request /\ job # NoJob
    BY <1>10 DEF Join, CallTypes, NoJob
  <2>2. Finishes(job, 0, "SUCCESS") /\ UNCHANGED nWrite
    BY <1>10, <2>1 DEF Join, Finishes, counts
  <2>. QED
    BY <2>1, <2>2 DEF CallStep, Codes
<1>11. ASSUME NEW j \in ToSet(rpcs) \cup {job}, NEW s \in {"dummy", "real"},
              SendClosed(j, s) \/ SendOpen(j, s) \/ ReceiveNext(j, s)
       PROVE  CallStep
  <2>1. Served(j, s) /\ UNCHANGED <<rpcUp, nWrite>>
    BY <1>11 DEF SendClosed, SendOpen, ReceiveNext, counts
  <2>2. GetMessage(s).msg \in Nat
    BY GetMessageType
  <2>3. PICK m \in Nat, code \in Codes : Answer(j, m, code)
    BY <1>11, <2>2 DEF SendClosed, SendOpen, ReceiveNext, Codes
  <2>4. j \in Request /\ Finishes(j, m, code)
    BY <2>1, <2>3, ServedFinishes
  <2>. QED
    BY <2>1, <2>4 DEF CallStep
<1>12. CASE ServerDies
  BY <1>12 DEF ServerDies, CallStep, Dead, counts
<1>13. CASE Delete \/ ListenerEnds \/ IO \/ OnRead \/ SDLStart \/ SDLStop
  BY <1>13 DEF CallStep, Delete, ListenerEnds, IO, OnRead, SDLStart, SDLStop, OnResolve,
               ConnectFails, Connected, Run, OnReadFails, OnClose, ioUnchanged, counts
<1>. QED
  BY <1>1, <1>2, <1>3, <1>4, <1>5, <1>6, <1>7, <1>8, <1>9, <1>10, <1>11, <1>12, <1>13
     DEF Next, Main, Listening, Worker

(* The queue after its head is taken.                                      *)
LEMMA AfterTakes ==
  ASSUME CallTypes, NEW j, Takes(j)
  PROVE  /\ j = rpcs[1] /\ j \in Request /\ job = NoJob /\ rpcUp
         /\ Len(rpcs) \in Nat /\ Len(rpcs) >= 1
         /\ rpcs' \in Seq(Request) /\ Len(rpcs') = Len(rpcs) - 1
         /\ \A i \in 1..Len(rpcs') : i + 1 \in 1..Len(rpcs) /\ rpcs'[i] = rpcs[i + 1]
  BY DEF Takes, CallTypes

(* The answer to a call is a call record.                                  *)
LEMMA AnswerType ==
  ASSUME CallTypes, NEW j \in Request, NEW m \in Nat, NEW code \in Codes, Answer(j, m, code)
  PROVE  call' \in [Threads -> CallRecord]
<1>1. CASE j.from = "nobody"
  BY <1>1 DEF Answer, CallTypes
<1>2. CASE j.from # "nobody"
  <2>1. j.from \in Threads /\ j.op \in Ops
    BY <1>2 DEF Request, Ops
  <2>2. [state |-> "answered", op |-> j.op, msg |-> m, code |-> code] \in CallRecord
    BY <2>1 DEF CallRecord, Codes
  <2>3. call' = [call EXCEPT ![j.from] = [state |-> "answered", op |-> j.op, msg |-> m,
                                          code |-> code]]
    BY <1>2 DEF Answer
  <2>. QED
    BY <2>1, <2>2, <2>3 DEF CallTypes
<1>. QED
  BY <1>1, <1>2

(* A new call in the queue.                                                *)
LEMMA AfterCall ==
  ASSUME CallTypes, NEW t \in Threads, NEW op \in Ops, NEW m \in 0..MaxWrites, Call(t, op, m)
  PROVE  /\ call' \in [Threads -> CallRecord]
         /\ \A u \in Threads : u # t => call'[u] = call[u]
         /\ call[t].state = "idle" /\ call'[t].op = op /\ call'[t].msg = 0
         /\ \/ /\ rpcUp /\ rpcs' = Append(rpcs, [op |-> op, msg |-> m, from |-> t])
               /\ rpcs' \in Seq(Request) /\ Len(rpcs') = Len(rpcs) + 1
               /\ rpcs'[Len(rpcs) + 1] = [op |-> op, msg |-> m, from |-> t]
               /\ \A i \in 1..Len(rpcs) : rpcs'[i] = rpcs[i]
               /\ call'[t].state = "waiting"
            \/ ~rpcUp /\ rpcs' = rpcs /\ call'[t].state = "answered"
<1>1. [op |-> op, msg |-> m, from |-> t] \in Request
  BY DEF Request, Ops
<1>2. Idle \in CallRecord
  BY DEF Idle, CallRecord
<1>3. /\ [Idle EXCEPT !.state = "waiting", !.op = op] \in CallRecord
      /\ [Idle EXCEPT !.state = "answered", !.op = op, !.code = "NO_CONNECTION"] \in CallRecord
  BY DEF Idle, CallRecord
<1>4. CASE /\ rpcUp
           /\ rpcs' = Append(rpcs, [op |-> op, msg |-> m, from |-> t])
           /\ call' = [call EXCEPT ![t] = [Idle EXCEPT !.state = "waiting", !.op = op]]
  <2>1. /\ rpcs' \in Seq(Request) /\ Len(rpcs') = Len(rpcs) + 1
        /\ rpcs'[Len(rpcs) + 1] = [op |-> op, msg |-> m, from |-> t]
        /\ \A i \in 1..Len(rpcs) : rpcs'[i] = rpcs[i]
    BY <1>1, <1>4 DEF CallTypes
  <2>2. /\ call' \in [Threads -> CallRecord]
        /\ \A u \in Threads : u # t => call'[u] = call[u]
        /\ call'[t] = [Idle EXCEPT !.state = "waiting", !.op = op]
    BY <1>3, <1>4 DEF CallTypes
  <2>3. call'[t].state = "waiting" /\ call'[t].op = op /\ call'[t].msg = 0
    BY <2>2 DEF Idle
  <2>. QED
    BY <1>4, <2>1, <2>2, <2>3 DEF Call
<1>5. CASE /\ ~rpcUp
           /\ call' = [call EXCEPT ![t] = [Idle EXCEPT !.state = "answered", !.op = op,
                                                       !.code = "NO_CONNECTION"]]
           /\ UNCHANGED rpcs
  <2>2. /\ call' \in [Threads -> CallRecord]
        /\ \A u \in Threads : u # t => call'[u] = call[u]
        /\ call'[t] = [Idle EXCEPT !.state = "answered", !.op = op, !.code = "NO_CONNECTION"]
    BY <1>3, <1>5 DEF CallTypes
  <2>3. call'[t].state = "answered" /\ call'[t].op = op /\ call'[t].msg = 0
    BY <2>2 DEF Idle
  <2>. QED
    BY <1>5, <2>2, <2>3 DEF Call
<1>. QED
  BY <1>4, <1>5 DEF Call

(* A call that times out is taken from its thread, not from the server.    *)
LEMMA AfterLapse ==
  ASSUME CallTypes, NEW t \in Threads, Lapses(t)
  PROVE  /\ call' \in [Threads -> CallRecord]
         /\ \A u \in Threads : u # t => call'[u] = call[u]
         /\ call'[t].state = "answered" /\ call'[t].code = "TIMEOUT_EXPIRED"
         /\ call'[t].op = call[t].op
         /\ rpcs' \in Seq(Request) /\ Len(rpcs') = Len(rpcs)
         /\ \A i \in 1..Len(rpcs) :
              /\ rpcs'[i].op = rpcs[i].op /\ rpcs'[i].msg = rpcs[i].msg
              /\ rpcs'[i].from = IF rpcs[i].from = t THEN "nobody" ELSE rpcs[i].from
         /\ job' \in Request \cup {NoJob}
         /\ job'.op = job.op /\ job'.msg = job.msg
         /\ job'.from = IF job.from = t THEN "nobody" ELSE job.from
<1>1. \A j \in Request :
        /\ Forsaken(t, j) \in Request
        /\ Forsaken(t, j).op = j.op /\ Forsaken(t, j).msg = j.msg
        /\ Forsaken(t, j).from = IF j.from = t THEN "nobody" ELSE j.from
  BY DEF Forsaken, Request
<1>2. Forsaken(t, NoJob) = NoJob
  BY DEF Forsaken, NoJob, Threads
<1>3. /\ rpcs' \in Seq(Request) /\ Len(rpcs') = Len(rpcs)
      /\ \A i \in 1..Len(rpcs) : rpcs[i] \in Request /\ rpcs'[i] = Forsaken(t, rpcs[i])
  BY <1>1 DEF Lapses, CallTypes
<1>4. /\ job' \in Request \cup {NoJob}
      /\ job'.op = job.op /\ job'.msg = job.msg
      /\ job'.from = IF job.from = t THEN "nobody" ELSE job.from
  <2>1. CASE job \in Request
    BY <1>1, <2>1 DEF Lapses
  <2>2. CASE job = NoJob
    BY <1>2, <2>2 DEF Lapses, NoJob, Threads
  <2>. QED
    BY <2>1, <2>2 DEF CallTypes
<1>5. /\ call' \in [Threads -> CallRecord]
      /\ \A u \in Threads : u # t => call'[u] = call[u]
      /\ call'[t].state = "answered" /\ call'[t].code = "TIMEOUT_EXPIRED"
      /\ call'[t].op = call[t].op
  BY DEF Lapses, CallTypes, CallRecord
<1>. QED
  BY <1>1, <1>3, <1>4, <1>5

(* The types of the calls.                                                 *)
LEMMA CallTypesKept ==
  ASSUME CallTypes, CallStep
  PROVE  CallTypes'
<1>1. ASSUME NEW t \in Threads, NEW op \in Ops, NEW m \in 0..MaxWrites,
             MakesCall(t, op, m), op = "send" => m = nWrite + 1 /\ nWrite' = m,
             op # "send" => nWrite' = nWrite
      PROVE  CallTypes'
  BY <1>1, AfterCall DEF MakesCall, CallTypes
<1>2. ASSUME NEW t \in Threads, Returned(t), UNCHANGED nWrite
      PROVE  CallTypes'
  <2>1. Idle \in CallRecord /\ [call[t] EXCEPT !.state = "losing"] \in CallRecord
    BY DEF Idle, CallRecord, CallTypes
  <2>. QED
    BY <1>2, <2>1 DEF Returned, CallTypes
<1>3. ASSUME NEW t \in Threads, Lapses(t), UNCHANGED nWrite
      PROVE  CallTypes'
  BY <1>3, AfterLapse DEF CallTypes
<1>4. ASSUME NEW j \in Request, Starts(j), UNCHANGED nWrite
      PROVE  CallTypes'
  <2>1. Takes(j) /\ UNCHANGED <<call, nWrite>> /\ job' = j
    BY <1>4 DEF Starts
  <2>. QED
    BY <2>1, AfterTakes DEF CallTypes
<1>5. ASSUME NEW j \in Request, NEW m \in Nat, NEW code \in Codes, Finishes(j, m, code),
             UNCHANGED nWrite
      PROVE  CallTypes'
  <2>1. call' \in [Threads -> CallRecord]
    BY <1>5, AnswerType DEF Finishes
  <2>2. rpcs' \in Seq(Request)
    BY <1>5, AfterTakes DEF Finishes, CallTypes
  <2>. QED
    BY <1>5, <2>1, <2>2 DEF Finishes, CallTypes
<1>6. CASE Dead /\ UNCHANGED nWrite
  BY <1>6 DEF Dead, CallTypes
<1>7. CASE UNCHANGED <<rpcUp, call, rpcs, job, nWrite>>
  BY <1>7 DEF CallTypes
<1>. QED
  BY <1>1, <1>2, <1>3, <1>4, <1>5, <1>6, <1>7 DEF CallStep

(* What an answer does to the threads.                                     *)
LEMMA AfterAnswer ==
  ASSUME CallTypes, NEW j \in Request, NEW m, NEW code, Answer(j, m, code)
  PROVE  /\ \A u \in Threads : u # j.from => call'[u] = call[u]
         /\ j.from \in Threads =>
              call'[j.from] = [state |-> "answered", op |-> j.op, msg |-> m, code |-> code]
  BY DEF Answer, CallTypes, Threads

(* Who waits for a call in the queue, before and after its head is taken.  *)
LEMMA CallersShift ==
  ASSUME CallTypes, NEW j, Takes(j), NEW t,
         \A i, k \in 1..Len(rpcs) : rpcs[i].from = t /\ rpcs[k].from = t => i = k
  PROVE  /\ (\E i \in 1..Len(rpcs) : rpcs[i].from = t)
              <=> (j.from = t \/ \E i \in 1..Len(rpcs') : rpcs'[i].from = t)
         /\ \A i \in 1..Len(rpcs') : rpcs'[i].from = t =>
              j.from # t /\ \A k \in 1..Len(rpcs') : rpcs'[k].from = t => i = k
<1>1. /\ rpcs[1] = j /\ 1 \in 1..Len(rpcs)
      /\ \A i \in 1..Len(rpcs') : i \in Nat /\ i >= 1
      /\ \A i \in 1..Len(rpcs') : i + 1 \in 1..Len(rpcs) /\ rpcs'[i] = rpcs[i + 1]
  BY AfterTakes
<1>2. ASSUME NEW i \in 1..Len(rpcs), rpcs[i].from = t
      PROVE  j.from = t \/ \E k \in 1..Len(rpcs') : rpcs'[k].from = t
  <2>1. CASE i = 1
    BY <1>1, <1>2, <2>1
  <2>2. CASE i # 1
    <3>1. i - 1 \in 1..Len(rpcs') /\ rpcs'[i - 1] = rpcs[i]
      BY <2>2, AfterTakes
    <3>. QED
      BY <1>2, <3>1
  <2>. QED
    BY <2>1, <2>2
<1>3. ASSUME NEW i \in 1..Len(rpcs'), rpcs'[i].from = t
      PROVE  /\ \E k \in 1..Len(rpcs) : rpcs[k].from = t
             /\ j.from # t
             /\ \A k \in 1..Len(rpcs') : rpcs'[k].from = t => i = k
  <2>1. i + 1 \in 1..Len(rpcs) /\ rpcs[i + 1].from = t /\ i + 1 # 1 /\ i \in Nat
    BY <1>1, <1>3
  <2>2. j.from # t
    BY <1>1, <2>1
  <2>3. ASSUME NEW k \in 1..Len(rpcs'), rpcs'[k].from = t
        PROVE  i = k
    <3>1. k + 1 \in 1..Len(rpcs) /\ rpcs[k + 1].from = t /\ k \in Nat
      BY <1>1, <2>3
    <3>2. i + 1 = k + 1
      BY <2>1, <3>1
    <3>. QED
      BY <2>1, <3>1, <3>2
  <2>. QED
    BY <2>1, <2>2, <2>3
<1>. QED
  BY <1>1, <1>2, <1>3

(* A thread waits for exactly one call.                                    *)
LEMMA OneCallKept ==
  ASSUME CallTypes, OneCall, CallStep
  PROVE  OneCall'
<1>1. ASSUME NEW t \in Threads, NEW op \in Ops, NEW m \in 0..MaxWrites,
             MakesCall(t, op, m)
      PROVE  OneCall'
  <2>1. CASE rpcUp
    <3>1. Call(t, op, m) /\ UNCHANGED <<rpcUp, job>>
      BY <1>1 DEF MakesCall
    <3>2. /\ \A u \in Threads : u # t => call'[u] = call[u]
          /\ call[t].state = "idle"
          /\ call'[t].state = "waiting" /\ Len(rpcs') = Len(rpcs) + 1
          /\ rpcs'[Len(rpcs) + 1] = [op |-> op, msg |-> m, from |-> t]
          /\ \A i \in 1..Len(rpcs) : rpcs'[i] = rpcs[i]
      BY <2>1, <3>1, AfterCall
    <3>3. Len(rpcs) \in Nat /\ rpcs'[Len(rpcs) + 1].from = t
      BY <3>2 DEF CallTypes
    <3>4. job.from # t /\ \A i \in 1..Len(rpcs) : rpcs[i].from # t
      BY <2>1, <3>2 DEF OneCall
    <3>5. \A i \in 1..Len(rpcs') : i \in 1..Len(rpcs) \/ i = Len(rpcs) + 1
      BY <3>2, <3>3
    <3>6. Len(rpcs) + 1 \in 1..Len(rpcs') /\ \A i \in 1..Len(rpcs) : i \in 1..Len(rpcs')
      BY <3>2, <3>3
    <3>7. ASSUME NEW u \in Threads
          PROVE  /\ call'[u].state = "waiting" <=>
                      job.from = u \/ \E i \in 1..Len(rpcs') : rpcs'[i].from = u
                 /\ \A i, k \in 1..Len(rpcs') :
                      rpcs'[i].from = u /\ rpcs'[k].from = u => job.from # u /\ i = k
      <4>1. CASE u = t
        BY <3>2, <3>3, <3>4, <3>5, <3>6, <4>1
      <4>2. CASE u # t
        <5>1. \A i \in 1..Len(rpcs') : rpcs'[i].from = u => i \in 1..Len(rpcs)
          BY <3>3, <3>5, <4>2
        <5>2. /\ call[u].state = "waiting" <=>
                   job.from = u \/ \E i \in 1..Len(rpcs) : rpcs[i].from = u
              /\ \A i, k \in 1..Len(rpcs) :
                   rpcs[i].from = u /\ rpcs[k].from = u => job.from # u /\ i = k
          BY <2>1 DEF OneCall
        <5>. QED
          BY <3>2, <3>6, <4>2, <5>1, <5>2
      <4>. QED
        BY <4>1, <4>2
    <3>. QED
      BY <3>1, <3>7 DEF OneCall
  <2>2. CASE ~rpcUp
    BY <1>1, <2>2 DEF MakesCall, OneCall
  <2>. QED
    BY <2>1, <2>2
<1>2. ASSUME NEW t \in Threads, Returned(t)
      PROVE  OneCall'
  <2>1. /\ \A u \in Threads : u # t => call'[u] = call[u]
        /\ call[t].state # "waiting" /\ call'[t].state # "waiting"
    BY <1>2 DEF Returned, CallTypes, Idle, CallRecord
  <2>. QED
    BY <1>2, <2>1 DEF Returned, OneCall
<1>3. ASSUME NEW t \in Threads, Lapses(t)
      PROVE  OneCall'
  <2>1. UNCHANGED rpcUp /\ call[t].state = "waiting"
    BY <1>3 DEF Lapses
  <2>. QED
    BY <1>3, <2>1, AfterLapse DEF OneCall, Threads
<1>4. ASSUME NEW j \in Request, Starts(j)
      PROVE  OneCall'
  <2>1. Takes(j) /\ UNCHANGED <<rpcUp, call>> /\ job' = j
    BY <1>4 DEF Starts
  <2>2. \A t \in Threads : NoJob.from # t
    BY DEF NoJob, Threads
  <2>3. ASSUME rpcUp, NEW t \in Threads
        PROVE  /\ call[t].state = "waiting" <=>
                    j.from = t \/ \E i \in 1..Len(rpcs') : rpcs'[i].from = t
               /\ \A i \in 1..Len(rpcs') : rpcs'[i].from = t =>
                    j.from # t /\ \A k \in 1..Len(rpcs') : rpcs'[k].from = t => i = k
    <3>1. /\ call[t].state = "waiting" <=> \E i \in 1..Len(rpcs) : rpcs[i].from = t
          /\ \A i, k \in 1..Len(rpcs) : rpcs[i].from = t /\ rpcs[k].from = t => i = k
      BY <2>1, <2>2, <2>3, AfterTakes DEF OneCall
    <3>. QED
      BY <2>1, <3>1, CallersShift
  <2>. QED
    BY <2>1, <2>3 DEF OneCall
<1>5. ASSUME NEW j \in Request, NEW m \in Nat, NEW code \in Codes, Finishes(j, m, code)
      PROVE  OneCall'
  <2>1. \A t \in Threads : NoJob.from # t
    BY DEF NoJob, Threads
  <2>2. /\ \A u \in Threads : u # j.from => call'[u] = call[u]
        /\ j.from \in Threads => call'[j.from].state = "answered"
    <3>1. Answer(j, m, code)
      BY <1>5 DEF Finishes
    <3>2. j.from \in Threads =>
            call'[j.from] = [state |-> "answered", op |-> j.op, msg |-> m, code |-> code]
      BY <3>1, AfterAnswer
    <3>3. \A u \in Threads : u # j.from => call'[u] = call[u]
      BY <3>1, AfterAnswer
    <3>. QED
      BY <3>2, <3>3
  <2>3. rpcUp /\ rpcUp' = rpcUp
    BY <1>5 DEF Finishes
  <2>4. CASE Takes(j) /\ UNCHANGED job
    <3>1. ASSUME NEW t \in Threads
          PROVE  /\ call'[t].state = "waiting" <=> \E i \in 1..Len(rpcs') : rpcs'[i].from = t
                 /\ \A i, k \in 1..Len(rpcs') : rpcs'[i].from = t /\ rpcs'[k].from = t => i = k
      <4>1. /\ call[t].state = "waiting" <=> \E i \in 1..Len(rpcs) : rpcs[i].from = t
            /\ \A i, k \in 1..Len(rpcs) : rpcs[i].from = t /\ rpcs[k].from = t => i = k
        BY <2>1, <2>3, <2>4, AfterTakes DEF OneCall
      <4>2. /\ (\E i \in 1..Len(rpcs) : rpcs[i].from = t)
                 <=> (j.from = t \/ \E i \in 1..Len(rpcs') : rpcs'[i].from = t)
            /\ \A i \in 1..Len(rpcs') : rpcs'[i].from = t =>
                 j.from # t /\ \A k \in 1..Len(rpcs') : rpcs'[k].from = t => i = k
        BY <2>4, <4>1, CallersShift
      <4>3. CASE t = j.from
        BY <2>2, <4>2, <4>3
      <4>4. CASE t # j.from
        <5>1. call'[t] = call[t]
          BY <2>2, <4>4
        <5>. QED
          BY <4>1, <4>2, <4>4, <5>1
      <4>. QED
        BY <4>3, <4>4
    <3>2. job' = NoJob
      BY <2>4, AfterTakes
    <3>. QED
      BY <2>1, <2>3, <3>1, <3>2 DEF OneCall
  <2>5. CASE j = job /\ job # NoJob /\ job' = NoJob /\ UNCHANGED rpcs
    BY <2>1, <2>2, <2>3, <2>5 DEF OneCall
  <2>. QED
    BY <1>5, <2>4, <2>5 DEF Finishes
<1>6. CASE Dead
  BY <1>6 DEF Dead, OneCall
<1>7. CASE UNCHANGED <<rpcUp, call, rpcs, job, nWrite>>
  BY <1>7 DEF OneCall
<1>. QED
  BY <1>1, <1>2, <1>3, <1>4, <1>5, <1>6, <1>7 DEF CallStep

(* The messages in calls stay different.                                   *)
LEMMA UnsentKept ==
  ASSUME CallTypes, Unsent, CallStep
  PROVE  Unsent'
<1>1. ASSUME NEW t \in Threads, NEW op \in Ops, NEW m \in 0..MaxWrites,
             MakesCall(t, op, m), op = "send" => m = nWrite + 1 /\ nWrite' = m,
             op # "send" => nWrite' = nWrite
      PROVE  Unsent'
  <2>1. nWrite \in Nat /\ nWrite' \in Nat /\ nWrite <= nWrite' /\ job' = job
    BY <1>1 DEF MakesCall, CallTypes
  <2>2. CASE rpcs' = rpcs
    BY <2>1, <2>2 DEF Unsent
  <2>3. CASE /\ Len(rpcs') = Len(rpcs) + 1
             /\ rpcs'[Len(rpcs) + 1] = [op |-> op, msg |-> m, from |-> t]
             /\ \A i \in 1..Len(rpcs) : rpcs'[i] = rpcs[i]
    <3>1. \A i \in 1..Len(rpcs') : i \in 1..Len(rpcs) \/ i = Len(rpcs) + 1
      BY <2>3 DEF CallTypes
    <3>2. rpcs'[Len(rpcs) + 1].op = op /\ rpcs'[Len(rpcs) + 1].msg = m
      BY <2>3
    <3>3. op = "send" => m \in 1..nWrite' /\ m = nWrite + 1
      BY <1>1, <2>1
    <3>. QED
      BY <2>1, <2>3, <3>1, <3>2, <3>3, SMTT(30) DEF Unsent
  <2>. QED
    BY <1>1, <2>2, <2>3, AfterCall DEF MakesCall
<1>2. ASSUME NEW t \in Threads, Returned(t), UNCHANGED nWrite
      PROVE  Unsent'
  BY <1>2 DEF Returned, Unsent
<1>3. ASSUME NEW t \in Threads, Lapses(t), UNCHANGED nWrite
      PROVE  Unsent'
  BY <1>3, AfterLapse DEF Unsent
<1>4. ASSUME NEW j \in Request, Starts(j), UNCHANGED nWrite
      PROVE  Unsent'
  <2>1. Takes(j) /\ job' = j
    BY <1>4 DEF Starts
  <2>2. /\ \A i \in 1..Len(rpcs') : i + 1 \in 1..Len(rpcs) /\ rpcs'[i] = rpcs[i + 1]
        /\ \A i \in 1..Len(rpcs') : i \in Nat /\ i >= 1
        /\ 1 \in 1..Len(rpcs) /\ j = rpcs[1]
    BY <2>1, AfterTakes
  <2>. QED
    BY <1>4, <2>1, <2>2, SMTT(30) DEF Unsent
<1>5. ASSUME NEW j \in Request, NEW m \in Nat, NEW code \in Codes, Finishes(j, m, code),
             UNCHANGED nWrite
      PROVE  Unsent'
  <2>1. NoJob.op # "send"
    BY DEF NoJob
  <2>2. CASE Takes(j) /\ UNCHANGED job
    <3>1. /\ \A i \in 1..Len(rpcs') : i + 1 \in 1..Len(rpcs) /\ rpcs'[i] = rpcs[i + 1]
          /\ \A i \in 1..Len(rpcs') : i \in Nat
          /\ job' = NoJob
      BY <2>2, AfterTakes
    <3>2. ASSUME NEW i \in 1..Len(rpcs'), rpcs'[i].op = "send"
          PROVE  /\ rpcs'[i].msg \in 1..nWrite
                 /\ \A k \in 1..Len(rpcs') :
                      rpcs'[k].op = "send" /\ rpcs'[k].msg = rpcs'[i].msg => i = k
      <4>1. /\ i + 1 \in 1..Len(rpcs) /\ rpcs[i + 1].op = "send"
            /\ rpcs[i + 1].msg = rpcs'[i].msg
        BY <3>1, <3>2
      <4>2. rpcs[i + 1].msg \in 1..nWrite
        BY <4>1 DEF Unsent
      <4>3. ASSUME NEW k \in 1..Len(rpcs'), rpcs'[k].op = "send", rpcs'[k].msg = rpcs'[i].msg
            PROVE  i = k
        <5>1. /\ k + 1 \in 1..Len(rpcs) /\ rpcs[k + 1].op = "send"
              /\ rpcs[k + 1].msg = rpcs[i + 1].msg
          BY <3>1, <4>1, <4>3
        <5>2. i + 1 = k + 1
          BY <4>1, <5>1 DEF Unsent
        <5>. QED
          BY <3>1, <5>2
      <4>. QED
        BY <4>1, <4>2, <4>3
    <3>. QED
      BY <1>5, <2>1, <3>1, <3>2 DEF Unsent
  <2>3. CASE job' = NoJob /\ UNCHANGED rpcs
    BY <1>5, <2>1, <2>3 DEF Unsent
  <2>. QED
    BY <1>5, <2>2, <2>3 DEF Finishes
<1>6. CASE Dead /\ UNCHANGED nWrite
  BY <1>6 DEF Dead, Unsent, NoJob
<1>7. CASE UNCHANGED <<rpcUp, call, rpcs, job, nWrite>>
  BY <1>7 DEF Unsent
<1>. QED
  BY <1>1, <1>2, <1>3, <1>4, <1>5, <1>6, <1>7 DEF CallStep

(* A message that has left its call does not come back into one.           *)
LEMMA AbsentKept ==
  ASSUME CallTypes, CallStep, NEW n, Absent(n)
  PROVE  Absent(n)'
<1>1. ASSUME NEW t \in Threads, NEW op \in Ops, NEW m \in 0..MaxWrites,
             MakesCall(t, op, m), op = "send" => m = nWrite + 1 /\ nWrite' = m,
             op # "send" => nWrite' = nWrite
      PROVE  Absent(n)'
  <2>1. nWrite \in Nat /\ nWrite' \in Nat /\ nWrite <= nWrite' /\ job' = job
    BY <1>1 DEF MakesCall, CallTypes
  <2>2. CASE rpcs' = rpcs
    BY <2>1, <2>2 DEF Absent
  <2>3. CASE /\ Len(rpcs') = Len(rpcs) + 1
             /\ rpcs'[Len(rpcs) + 1] = [op |-> op, msg |-> m, from |-> t]
             /\ \A i \in 1..Len(rpcs) : rpcs'[i] = rpcs[i]
    <3>1. \A i \in 1..Len(rpcs') : i \in 1..Len(rpcs) \/ i = Len(rpcs) + 1
      BY <2>3 DEF CallTypes
    <3>2. rpcs'[Len(rpcs) + 1].op = op /\ rpcs'[Len(rpcs) + 1].msg = m
      BY <2>3
    <3>3. op = "send" => m # n
      BY <1>1, <2>1 DEF Absent
    <3>. QED
      BY <2>1, <2>3, <3>1, <3>2, <3>3 DEF Absent
  <2>. QED
    BY <1>1, <2>2, <2>3, AfterCall DEF MakesCall
<1>2. ASSUME NEW t \in Threads, Returned(t), UNCHANGED nWrite
      PROVE  Absent(n)'
  BY <1>2 DEF Returned, Absent
<1>3. ASSUME NEW t \in Threads, Lapses(t), UNCHANGED nWrite
      PROVE  Absent(n)'
  BY <1>3, AfterLapse DEF Absent
<1>4. ASSUME NEW j \in Request, Starts(j), UNCHANGED nWrite
      PROVE  Absent(n)'
  <2>1. Takes(j) /\ job' = j
    BY <1>4 DEF Starts
  <2>2. /\ \A i \in 1..Len(rpcs') : i + 1 \in 1..Len(rpcs) /\ rpcs'[i] = rpcs[i + 1]
        /\ 1 \in 1..Len(rpcs) /\ j = rpcs[1]
    BY <2>1, AfterTakes
  <2>. QED
    BY <1>4, <2>1, <2>2 DEF Absent
<1>5. ASSUME NEW j \in Request, NEW m \in Nat, NEW code \in Codes, Finishes(j, m, code),
             UNCHANGED nWrite
      PROVE  Absent(n)'
  <2>1. NoJob.op # "send"
    BY DEF NoJob
  <2>2. CASE Takes(j) /\ UNCHANGED job
    BY <1>5, <2>2, AfterTakes DEF Absent
  <2>3. CASE job' = NoJob /\ UNCHANGED rpcs
    BY <1>5, <2>1, <2>3 DEF Absent
  <2>. QED
    BY <1>5, <2>2, <2>3 DEF Finishes
<1>6. CASE Dead /\ UNCHANGED nWrite
  BY <1>6 DEF Dead, Absent, NoJob
<1>7. CASE UNCHANGED <<rpcUp, call, rpcs, job, nWrite>>
  BY <1>7 DEF Absent
<1>. QED
  BY <1>1, <1>2, <1>3, <1>4, <1>5, <1>6, <1>7 DEF CallStep

(* The messages that have left their calls.                                *)
LEMMA GoneKept ==
  ASSUME CallTypes, CallStep
  PROVE  Gone \subseteq Gone'
  BY AbsentKept DEF Gone

(* The message of a call that ends has left it.                            *)
LEMMA FinishedAbsent ==
  ASSUME CallTypes, Unsent, UNCHANGED nWrite, NEW j \in Request, NEW m, NEW code,
         Finishes(j, m, code), j.op = "send"
  PROVE  Absent(j.msg)' /\ ~Absent(j.msg)
<1>1. NoJob.op # "send"
  BY DEF NoJob
<1>2. CASE Takes(j) /\ UNCHANGED job
  <2>1. /\ \A i \in 1..Len(rpcs') : i + 1 \in 1..Len(rpcs) /\ rpcs'[i] = rpcs[i + 1]
        /\ \A i \in 1..Len(rpcs') : i \in Nat /\ i >= 1
        /\ job = NoJob /\ 1 \in 1..Len(rpcs) /\ j = rpcs[1]
    BY <1>2, AfterTakes
  <2>. QED
    BY <1>1, <1>2, <2>1 DEF Absent, Unsent
<1>3. CASE j = job /\ job' = NoJob /\ UNCHANGED rpcs
  BY <1>1, <1>3 DEF Absent, Unsent
<1>. QED
  BY <1>2, <1>3 DEF Finishes
(* The set of them gains the message of a call that ends.                  *)
LEMMA FinishedGone ==
  ASSUME CallTypes, Unsent, UNCHANGED nWrite, NEW j \in Request, NEW m, NEW code,
         Finishes(j, m, code), j.op = "send"
  PROVE  j.msg \in Gone' /\ j.msg \notin Gone
<1>1. j.msg \in Nat
  BY DEF Request
<1>. QED
  BY <1>1, FinishedAbsent DEF Gone

(* The main thread goes forward: script, join, close, gone.                *)
LEMMA MainStep ==
  ASSUME ControlTypes, Next
  PROVE  /\ ControlTypes'
         /\ main \in {"close", "gone"} => main' \in {"close", "gone"}
         /\ main' \in {"script", "join"} => main \in {"script", "join"}
<1>1. CASE Connect \/ Send \/ Receive
  BY <1>1 DEF Connect, Send, Receive, client, ControlTypes
<1>2. CASE Delete \/ Main \/ ListenerEnds
  BY <1>2 DEF Delete, Main, ListenerEnds, OpenReturns, CloseHandle, CloseReturns, ControlTypes
<1>3. ASSUME NEW t \in Threads, Returns(t) \/ Timeout(t)
      PROVE  UNCHANGED <<main, listener>> /\ disconnects' \in {disconnects, disconnects + 1}
  BY <1>3 DEF Returns, Timeout, DataReturns, ConnectionLost, client
<1>4. CASE Worker
  BY <1>4 DEF Worker, Open, Stop, GetSession, NoConnection, Join, SendClosed, SendOpen,
              ReceiveNext, client, ControlTypes
<1>5. CASE IO \/ OnRead \/ SDLStart \/ SDLStop \/ ServerDies
  BY <1>5 DEF IO, OnRead, SDLStart, SDLStop, ServerDies, OnResolve, ConnectFails, Connected,
              Run, OnReadFails, OnClose, ioUnchanged, client, ControlTypes
<1>6. CASE \E t \in Threads : Returns(t) \/ Timeout(t)
  BY <1>3, <1>6 DEF ControlTypes
<1>. QED
  BY <1>1, <1>2, <1>4, <1>5, <1>6 DEF Next, Listening

(* The flags stay flags.                                                   *)
LEMMA FlagTypesKept ==
  ASSUME FlagTypes, Next
  PROVE  FlagTypes'
<1>1. CASE Connect \/ Send \/ Delete \/ Main \/ Listening
  BY <1>1 DEF Connect, Send, Delete, Main, Listening, Receive, ListenerEnds, OpenReturns,
              CloseHandle, CloseReturns, client, socket, FlagTypes
<1>2. CASE \E t \in Threads : Returns(t) \/ Timeout(t)
  BY <1>2 DEF Returns, Timeout, DataReturns, ConnectionLost, client, socket, FlagTypes
<1>3. CASE Worker
  <2>1. ASSUME NEW j, Stop(j)
        PROVE  FlagTypes'
    <3>1. closing' \in BOOLEAN
      BY <2>1 DEF Stop
    <3>. QED
      BY <2>1, <3>1 DEF Stop, client, FlagTypes
  <2>2. ASSUME NEW j, Open(j) \/ GetSession(j) \/ NoConnection(j)
        PROVE  FlagTypes'
    BY <2>2 DEF Open, MakeContext, GetSession, NoConnection, client, socket, FlagTypes
  <2>3. CASE Join
    BY <2>3 DEF Join, MakeContext, client, FlagTypes
  <2>4. ASSUME NEW j, NEW s, SendClosed(j, s) \/ SendOpen(j, s) \/ ReceiveNext(j, s)
        PROVE  FlagTypes'
    BY <2>4 DEF SendClosed, SendOpen, ReceiveNext, client, FlagTypes
  <2>. QED
    BY <1>3, <2>1, <2>2, <2>3, <2>4 DEF Worker
<1>4. CASE IO \/ OnRead \/ SDLStart \/ SDLStop \/ ServerDies
  BY <1>4 DEF IO, OnRead, SDLStart, SDLStop, ServerDies, OnResolve, ConnectFails, Connected,
              Run, OnReadFails, OnClose, ioUnchanged, client, socket, FlagTypes
<1>. QED
  BY <1>1, <1>2, <1>3, <1>4 DEF Next

(* The states of the WebSocket.                                            *)
LEMMA SocketTypesKept ==
  ASSUME SocketTypes, Next
  PROVE  SocketTypes'
<1>1. CASE Connect \/ Send \/ Delete \/ Main \/ Listening
  BY <1>1 DEF Connect, Send, Delete, Main, Listening, Receive, ListenerEnds, OpenReturns,
              CloseHandle, CloseReturns, socket, SocketTypes
<1>2. CASE \E t \in Threads : Returns(t) \/ Timeout(t)
  BY <1>2 DEF Returns, Timeout, DataReturns, ConnectionLost, socket, SocketTypes
<1>3. CASE Worker
  <2>1. ASSUME NEW j, Open(j) \/ Stop(j) \/ GetSession(j) \/ NoConnection(j)
        PROVE  SocketTypes'
    BY <2>1 DEF Open, Stop, MakeContext, GetSession, NoConnection, socket, SocketTypes
  <2>2. CASE Join
    BY <2>2 DEF Join, MakeContext, SocketTypes
  <2>3. ASSUME NEW j, NEW s \in {"dummy", "real"},
               SendClosed(j, s) \/ SendOpen(j, s) \/ ReceiveNext(j, s)
        PROVE  SocketTypes'
    BY <2>3 DEF SendClosed, SendOpen, ReceiveNext, FlushPendingMsg, SocketTypes
  <2>. QED
    BY <1>3, <2>1, <2>2, <2>3 DEF Worker
<1>4. CASE IO \/ OnRead \/ SDLStart \/ SDLStop \/ ServerDies
  BY <1>4 DEF IO, OnRead, SDLStart, SDLStop, ServerDies, OnResolve, ConnectFails, Connected,
              Run, OnReadFails, OnClose, socket, SocketTypes
<1>. QED
  BY <1>1, <1>2, <1>3, <1>4 DEF Next

(* No call comes after the close.                                          *)
LEMMA CloseLastKept ==
  ASSUME CallTypes, ControlTypes, CloseLast, CallStep,
         main \in {"close", "gone"} => main' \in {"close", "gone"}
  PROVE  CloseLast'
<1>1. ASSUME NEW t \in Threads, NEW op \in Ops, NEW m \in 0..MaxWrites, MakesCall(t, op, m)
      PROVE  CloseLast'
  <2>1. CASE rpcUp
    <3>1. Call(t, op, m) /\ UNCHANGED <<rpcUp, job>>
      BY <1>1 DEF MakesCall
    <3>2. /\ Len(rpcs) \in Nat /\ Len(rpcs') = Len(rpcs) + 1
          /\ rpcs'[Len(rpcs) + 1].op = op
          /\ \A i \in 1..Len(rpcs) : rpcs'[i] = rpcs[i]
      <4>1. /\ Len(rpcs') = Len(rpcs) + 1
            /\ rpcs'[Len(rpcs) + 1] = [op |-> op, msg |-> m, from |-> t]
            /\ \A i \in 1..Len(rpcs) : rpcs'[i] = rpcs[i]
        BY <2>1, <3>1, AfterCall
      <4>2. rpcs'[Len(rpcs) + 1].op = op /\ Len(rpcs) \in Nat
        BY <4>1 DEF CallTypes
      <4>. QED
        BY <4>1, <4>2
    <3>3. job.op # "close" /\ \A i \in 1..Len(rpcs) : rpcs[i].op # "close"
      BY <1>1, <2>1 DEF MakesCall, CloseLast
    <3>4. \A i \in 1..Len(rpcs') : i \in 1..Len(rpcs) \/ i = Len(rpcs')
      BY <3>2
    <3>5. op = "close" => main' = "close"
      BY <1>1 DEF MakesCall
    <3>. QED
      BY <3>1, <3>2, <3>3, <3>4, <3>5 DEF CloseLast
  <2>2. CASE ~rpcUp
    BY <1>1, <2>2 DEF MakesCall, CloseLast
  <2>. QED
    BY <2>1, <2>2
<1>2. ASSUME NEW t \in Threads, Returned(t)
      PROVE  CloseLast'
  BY <1>2 DEF Returned, CloseLast
<1>3. ASSUME NEW t \in Threads, Lapses(t)
      PROVE  CloseLast'
  <2>1. /\ UNCHANGED rpcUp
        /\ Len(rpcs') = Len(rpcs) /\ rpcs' \in Seq(Request) /\ job'.op = job.op
        /\ \A i \in 1..Len(rpcs) : rpcs'[i].op = rpcs[i].op
    BY <1>3, AfterLapse, ZenonT(30) DEF Lapses
  <2>2. rpcs = <<>> => rpcs' = <<>>
    BY <2>1
  <2>. QED
    BY <2>1, <2>2 DEF CloseLast
<1>4. ASSUME NEW j, Takes(j), UNCHANGED rpcUp, job' = j \/ job' = NoJob
      PROVE  CloseLast'
  <2>1. /\ \A i \in 1..Len(rpcs') : i \in Nat /\ i + 1 \in 1..Len(rpcs) /\ rpcs'[i] = rpcs[i + 1]
        /\ 1 \in 1..Len(rpcs) /\ j = rpcs[1] /\ rpcUp
        /\ Len(rpcs) \in Nat /\ Len(rpcs') = Len(rpcs) - 1 /\ rpcs' \in Seq(Request)
    BY <1>4, AfterTakes
  <2>2. j.op = "close" => main' \in {"close", "gone"} /\ rpcs' = <<>>
    BY <2>1 DEF CloseLast
  <2>3. NoJob.op # "close"
    BY DEF NoJob
  <2>4. ASSUME NEW i \in 1..Len(rpcs'), rpcs'[i].op = "close"
        PROVE  main' \in {"close", "gone"} /\ i = Len(rpcs')
    BY <2>1, <2>4 DEF CloseLast
  <2>. QED
    BY <1>4, <2>2, <2>3, <2>4 DEF CloseLast
<1>5. ASSUME NEW j \in Request, NEW m \in Nat, NEW code \in Codes, Finishes(j, m, code)
      PROVE  CloseLast'
  <2>1. CASE Takes(j) /\ UNCHANGED job
    BY <1>4, <1>5, <2>1, AfterTakes DEF Finishes
  <2>2. CASE job' = NoJob /\ UNCHANGED <<rpcs, rpcUp>>
    BY <2>2 DEF CloseLast, NoJob
  <2>. QED
    BY <1>5, <2>1, <2>2 DEF Finishes
<1>6. CASE Dead
  BY <1>6 DEF Dead, CloseLast
<1>7. CASE UNCHANGED <<rpcUp, call, rpcs, job, nWrite>>
  BY <1>7 DEF CloseLast
<1>8. ASSUME NEW j \in Request, Starts(j)
      PROVE  CloseLast'
  BY <1>4, <1>8 DEF Starts
<1>. QED
  BY <1>1, <1>2, <1>3, <1>5, <1>6, <1>7, <1>8 DEF CallStep

(* A call for data is made by a client that believes to be connected and   *)
(* has not begun its destructor.                                           *)
DataOps == {"send", "receive"}

(* A call for data in the queue was there before, or is such a call.       *)
LEMMA QueuedCalls ==
  ASSUME CallTypes, CallStep, rpcUp'
  PROVE  /\ rpcUp
         /\ \A i \in 1..Len(rpcs') : rpcs'[i].op \in DataOps =>
              \/ \E k \in 1..Len(rpcs) : rpcs[k].op \in DataOps
              \/ connected /\ main = "script"
<1>1. ASSUME NEW t \in Threads, NEW op \in Ops, NEW m \in 0..MaxWrites, MakesCall(t, op, m),
             NEW i \in 1..Len(rpcs'), rpcs'[i].op \in DataOps
      PROVE  \/ \E k \in 1..Len(rpcs) : rpcs[k].op \in DataOps
             \/ connected /\ main = "script"
  <2>1. Call(t, op, m) /\ rpcUp
    BY <1>1 DEF MakesCall
  <2>2. /\ Len(rpcs') = Len(rpcs) + 1 /\ Len(rpcs) \in Nat
        /\ rpcs'[Len(rpcs) + 1] = [op |-> op, msg |-> m, from |-> t]
        /\ \A k \in 1..Len(rpcs) : rpcs'[k] = rpcs[k]
    BY <2>1, AfterCall DEF CallTypes
  <2>3. CASE i \in 1..Len(rpcs)
    BY <1>1, <2>2, <2>3
  <2>4. CASE i = Len(rpcs) + 1
    <3>1. op \in DataOps
      BY <1>1, <2>2, <2>4
    <3>. QED
      BY <1>1, <3>1 DEF MakesCall, DataOps
  <2>. QED
    BY <2>2, <2>3, <2>4
<1>2. ASSUME NEW t \in Threads, NEW op \in Ops, NEW m \in 0..MaxWrites, MakesCall(t, op, m)
      PROVE  rpcUp
  BY <1>2 DEF MakesCall
<1>3. ASSUME NEW t \in Threads, Lapses(t)
      PROVE  rpcUp /\ \A i \in 1..Len(rpcs') : i \in 1..Len(rpcs) /\ rpcs'[i].op = rpcs[i].op
  BY <1>3, AfterLapse, ZenonT(30) DEF Lapses
<1>4. ASSUME NEW j \in Request, Takes(j)
      PROVE  rpcUp /\ \A i \in 1..Len(rpcs') : i + 1 \in 1..Len(rpcs) /\ rpcs'[i] = rpcs[i + 1]
  BY <1>4, AfterTakes
<1>5. ASSUME NEW j \in Request, NEW m \in Nat, NEW code \in Codes, Finishes(j, m, code)
      PROVE  \/ rpcUp /\ UNCHANGED rpcs
             \/ rpcUp /\ \A i \in 1..Len(rpcs') : i + 1 \in 1..Len(rpcs) /\ rpcs'[i] = rpcs[i + 1]
  BY <1>4, <1>5 DEF Finishes
<1>6. ASSUME NEW t \in Threads, Returned(t)
      PROVE  rpcUp /\ UNCHANGED rpcs
  BY <1>6 DEF Returned
<1>7. CASE UNCHANGED <<rpcUp, call, rpcs, job, nWrite>>
  BY <1>7
<1>8. ASSUME NEW j \in Request, Starts(j)
      PROVE  rpcUp /\ \A i \in 1..Len(rpcs') : i + 1 \in 1..Len(rpcs) /\ rpcs'[i] = rpcs[i + 1]
  BY <1>4, <1>8 DEF Starts
<1>9. CASE \E t \in Threads, op \in Ops, m \in 0..MaxWrites : MakesCall(t, op, m)
  BY <1>1, <1>2, <1>9
<1>10. CASE \E t \in Threads : Returned(t) \/ Lapses(t)
  BY <1>3, <1>6, <1>10
<1>11. CASE \E j \in Request : Starts(j)
  BY <1>8, <1>11
<1>12. CASE \E j \in Request, m \in Nat, code \in Codes : Finishes(j, m, code)
  BY <1>5, <1>12
<1>13. ~Dead
  BY DEF Dead
<1>. QED
  BY <1>7, <1>9, <1>10, <1>11, <1>12, <1>13 DEF CallStep

(* The endpoint goes away with the server, or in the last call of all.     *)
LEMMA ContextStep ==
  ASSUME CallTypes, CloseLast, Next, rpcUp', ~context'
  PROVE  UNCHANGED context \/ (main \in {"close", "gone"} /\ rpcs' = <<>>)
<1>1. CASE Connect \/ Send \/ Delete \/ Main \/ Listening
  BY <1>1 DEF Connect, Send, Delete, Main, Listening, Receive, ListenerEnds, OpenReturns,
              CloseHandle, CloseReturns
<1>2. CASE \E t \in Threads : Returns(t) \/ Timeout(t)
  BY <1>2 DEF Returns, Timeout, DataReturns, ConnectionLost
<1>3. CASE Worker
  <2>1. ASSUME NEW j, Open(j) \/ Stop(j) \/ GetSession(j) \/ NoConnection(j)
        PROVE  UNCHANGED context
    BY <2>1 DEF Open, Stop, MakeContext, GetSession, NoConnection
  <2>2. CASE Join
    BY <2>2 DEF Join, MakeContext, CloseLast
  <2>3. ASSUME NEW j, NEW s, SendClosed(j, s) \/ SendOpen(j, s) \/ ReceiveNext(j, s)
        PROVE  UNCHANGED context
    BY <2>3 DEF SendClosed, SendOpen, ReceiveNext
  <2>. QED
    BY <1>3, <2>1, <2>2, <2>3 DEF Worker
<1>4. CASE IO \/ OnRead \/ SDLStart \/ SDLStop \/ ServerDies
  BY <1>4 DEF IO, OnRead, SDLStart, SDLStop, ServerDies, OnResolve, ConnectFails, Connected,
              Run, OnReadFails, OnClose, ioUnchanged
<1>. QED
  BY <1>1, <1>2, <1>3, <1>4 DEF Next

(* An answer of the worker that reports an endpoint as open leaves it open.*)
LEMMA AnsweredOpen ==
  ASSUME CallTypes, NEW j \in Request, NEW m, NEW code, Answer(j, m, code),
         j.op = "open" /\ code = "SUCCESS" => context', UNCHANGED connected, Opened'
  PROVE  Opened \/ context'
<1>1. CASE j.from = "main"
  <2>1. call'["main"] = [state |-> "answered", op |-> j.op, msg |-> m, code |-> code]
    BY <1>1, AfterAnswer DEF Threads
  <2>. QED
    BY <2>1 DEF Opened
<1>2. CASE j.from # "main"
  <2>1. call'["main"] = call["main"]
    BY <1>2, AfterAnswer DEF Threads
  <2>. QED
    BY <2>1 DEF Opened
<1>. QED
  BY <1>1, <1>2

(* The client is only told about endpoints that are open.                  *)
LEMMA OpenedStep ==
  ASSUME CallTypes, Next, rpcUp, Opened'
  PROVE  Opened \/ context'
<1>1. ASSUME NEW op \in Ops, NEW m \in 0..MaxWrites, NEW t \in Threads, Call(t, op, m),
             UNCHANGED connected
      PROVE  Opened
  BY <1>1, AfterCall DEF Opened, Threads
<1>2. CASE Connect
  <2>1. PICK op \in {"reopen", "open"} : Call("main", op, 0)
    BY <1>2 DEF Connect
  <2>. QED
    BY <1>1, <1>2, <2>1, Bounds DEF Connect, client, Ops, Threads
<1>3. CASE Send
  <2>1. nWrite + 1 \in 0..MaxWrites
    BY <1>3, Bounds DEF Send, CallTypes
  <2>. QED
    BY <1>1, <1>3, <2>1 DEF Send, client, Ops, Threads
<1>4. CASE Receive
  BY <1>1, <1>4, Bounds DEF Receive, client, Ops, Threads
<1>5. CASE CloseHandle
  BY <1>1, <1>5, Bounds DEF CloseHandle, Ops, Threads, Opened
<1>6. CASE Delete \/ ListenerEnds
  BY <1>6 DEF Delete, ListenerEnds, Opened
<1>7. CASE OpenReturns \/ CloseReturns
  <2>1. call' = [call EXCEPT !["main"] = Idle] /\ call["main"].state = "answered"
    BY <1>7 DEF OpenReturns, CloseReturns
  <2>2. call'["main"] = Idle /\ Idle.state # "answered"
    BY <2>1 DEF CallTypes, Threads, Idle
  <2>3. connected'
    BY <2>2 DEF Opened
  <2>. QED
    BY <1>7, <2>1, <2>3 DEF OpenReturns, CloseReturns, Opened
<1>8. ASSUME NEW t \in Threads, Returns(t)
      PROVE  Opened
  <2>1. connected' => connected
    BY <1>8 DEF Returns, DataReturns, ConnectionLost
  <2>2. call'["main"] = call["main"] \/ call'["main"].state # "answered"
    <3>1. Returned(t)
      BY <1>8 DEF Returns, DataReturns, ConnectionLost, Returned
    <3>2. CASE t = "main"
      <4>1. /\ call'["main"] \in {Idle, [call["main"] EXCEPT !.state = "losing"]}
            /\ call["main"] \in CallRecord
        BY <3>1, <3>2 DEF Returned, CallTypes, Threads
      <4>. QED
        BY <4>1 DEF Idle, CallRecord
    <3>3. CASE t # "main"
      BY <3>1, <3>3 DEF Returned, CallTypes, Threads
    <3>. QED
      BY <3>2, <3>3
  <2>. QED
    BY <2>1, <2>2 DEF Opened
<1>9. ASSUME NEW t \in Threads, Timeout(t)
      PROVE  Opened
  <2>1. Lapses(t) /\ UNCHANGED connected
    BY <1>9 DEF Timeout, Lapses, client
  <2>. QED
    BY <2>1, AfterLapse DEF Opened, Threads
<1>10. ASSUME NEW j \in ToSet(rpcs), Open(j) \/ NoConnection(j)
       PROVE  Opened \/ context'
  <2>1. PICK code : Answer(j, 0, code) /\ (j.op = "open" /\ code = "SUCCESS" => context')
    BY <1>10 DEF Open, NoConnection, MakeContext
  <2>2. j \in Request /\ UNCHANGED connected
    BY <1>10, AfterTakes DEF Open, NoConnection, client
  <2>. QED
    BY <2>1, <2>2, AnsweredOpen
<1>11. ASSUME NEW j, Stop(j) \/ GetSession(j)
       PROVE  Opened
  BY <1>11 DEF Stop, GetSession, client, Opened
<1>12. CASE Join
  <2>1. Answer(job, 0, "SUCCESS") /\ (job.op = "open" => context')
    BY <1>12 DEF Join, MakeContext
  <2>2. job \in Request /\ UNCHANGED connected
    BY <1>12 DEF Join, client, CallTypes, NoJob
  <2>. QED
    BY <2>1, <2>2, AnsweredOpen
<1>13. ASSUME NEW j \in ToSet(rpcs) \cup {job}, NEW s \in {"dummy", "real"},
              SendClosed(j, s) \/ SendOpen(j, s) \/ ReceiveNext(j, s)
       PROVE  Opened \/ context'
  <2>1. j.op # "open" /\ Served(j, s) /\ UNCHANGED connected
    BY <1>13 DEF SendClosed, SendOpen, ReceiveNext, client
  <2>2. PICK m, code : Answer(j, m, code)
    BY <1>13 DEF SendClosed, SendOpen, ReceiveNext
  <2>3. j \in Request
    <3>1. CASE Takes(j)
      BY <3>1, AfterTakes
    <3>2. CASE j = job /\ job.op \in {"send", "receive"}
      BY <3>2 DEF CallTypes, NoJob
    <3>. QED
      BY <2>1, <3>1, <3>2 DEF Served
  <2>. QED
    BY <2>1, <2>2, <2>3, AnsweredOpen
<1>14. CASE IO \/ OnRead \/ SDLStart \/ SDLStop \/ ServerDies
  BY <1>14 DEF IO, OnRead, SDLStart, SDLStop, ServerDies, OnResolve, ConnectFails, Connected,
               Run, OnReadFails, OnClose, ioUnchanged, client, Opened
<1>. QED
  BY <1>2, <1>3, <1>4, <1>5, <1>6, <1>7, <1>8, <1>9, <1>10, <1>11, <1>12, <1>13, <1>14
     DEF Next, Main, Listening, Worker

(* The endpoint stays open for the calls that need it.                     *)
LEMMA EndpointOpenKept ==
  ASSUME CallTypes, ReadTypes, ControlTypes, FlagTypes, CloseLast, EndpointOpen, Next
  PROVE  EndpointOpen'
<1>1. SUFFICES ASSUME rpcUp', ~context'
               PROVE  /\ ~(Opened' /\ main' \in {"script", "join"})
                      /\ \A i \in 1..Len(rpcs') : rpcs'[i].op \notin DataOps
  BY DEF EndpointOpen, DataOps
<1>2. CallStep
  BY StepsOfCalls
<1>3. rpcUp
  BY <1>1, <1>2, QueuedCalls
<1>4. CASE UNCHANGED context
  <2>1. /\ Opened => main \notin {"script", "join"}
        /\ \A i \in 1..Len(rpcs) : rpcs[i].op \notin DataOps
    BY <1>1, <1>3, <1>4 DEF EndpointOpen, DataOps
  <2>2. ~(Opened' /\ main' \in {"script", "join"})
    BY <1>1, <1>3, <2>1, OpenedStep, MainStep
  <2>3. ~(connected /\ main = "script")
    BY <2>1 DEF Opened
  <2>4. \A i \in 1..Len(rpcs') : rpcs'[i].op \notin DataOps
    BY <1>1, <1>2, <2>1, <2>3, QueuedCalls
  <2>. QED
    BY <2>2, <2>4
<1>5. CASE main \in {"close", "gone"} /\ rpcs' = <<>>
  <2>1. main' \notin {"script", "join"}
    BY <1>5, MainStep
  <2>. QED
    BY <1>5, <2>1
<1>. QED
  BY <1>1, <1>4, <1>5, ContextStep

(* An answer that is not NO_CONNECTION loses no connection.                *)
LEMMA AnsweredNotLost ==
  ASSUME CallTypes, NEW j \in Request, NEW m, NEW code, Answer(j, m, code),
         code # "NO_CONNECTION", UNCHANGED <<rpcUp, disconnects>>, NotLost
  PROVE  NotLost'
<1>1. j.from \in Threads => /\ call'[j.from].state = "answered"
                            /\ call'[j.from].code # "NO_CONNECTION"
  <2>1. j.from \in Threads =>
          call'[j.from] = [state |-> "answered", op |-> j.op, msg |-> m, code |-> code]
    BY AfterAnswer
  <2>. QED
    BY <2>1
<1>2. \A u \in Threads : u # j.from => call'[u] = call[u]
  BY AfterAnswer
<1>. QED
  BY <1>1, <1>2 DEF NotLost

(* The connection to a living server is not lost.                          *)
LEMMA NotLostKept ==
  ASSUME CallTypes, EndpointOpen, NotLost, Next
  PROVE  NotLost'
<1>1. ASSUME NEW op \in Ops, NEW m \in 0..MaxWrites, NEW t \in Threads, Call(t, op, m),
             UNCHANGED <<rpcUp, disconnects>>
      PROVE  NotLost'
  <2>1. CASE rpcUp
    <3>1. /\ \A u \in Threads : u # t => call'[u] = call[u]
          /\ call'[t].state = "waiting"
      BY <1>1, <2>1, AfterCall
    <3>. QED
      BY <1>1, <3>1 DEF NotLost
  <2>2. CASE ~rpcUp
    BY <1>1, <2>2 DEF NotLost
  <2>. QED
    BY <2>1, <2>2
<1>2. CASE Connect
  <2>1. PICK op \in {"reopen", "open"} : Call("main", op, 0)
    BY <1>2 DEF Connect
  <2>. QED
    BY <1>1, <1>2, <2>1, Bounds DEF Connect, client, Ops, Threads
<1>3. CASE Send
  <2>1. nWrite + 1 \in 0..MaxWrites
    BY <1>3, Bounds DEF Send, CallTypes
  <2>. QED
    BY <1>1, <1>3, <2>1 DEF Send, client, Ops, Threads
<1>4. CASE Receive
  BY <1>1, <1>4, Bounds DEF Receive, client, Ops, Threads
<1>5. CASE CloseHandle
  BY <1>1, <1>5, Bounds DEF CloseHandle, Ops, Threads, NotLost
<1>6. CASE Delete \/ ListenerEnds
  BY <1>6 DEF Delete, ListenerEnds, NotLost
<1>7. CASE OpenReturns \/ CloseReturns
  <2>1. /\ call' = [call EXCEPT !["main"] = Idle]
        /\ UNCHANGED <<rpcUp, disconnects>>
    BY <1>7 DEF OpenReturns, CloseReturns
  <2>2. \A u \in Threads : call'[u] \in {call[u], Idle}
    BY <2>1 DEF CallTypes
  <2>. QED
    BY <2>1, <2>2 DEF NotLost, Idle
<1>8. ASSUME NEW t \in Threads, Returns(t)
      PROVE  NotLost'
  <2>1. CASE rpcUp
    <3>1. call[t].state # "losing" /\ (call[t].state = "answered" => call[t].code # "NO_CONNECTION")
      BY <2>1 DEF NotLost
    <3>2. DataReturns(t)
      BY <1>8, <3>1 DEF Returns, ConnectionLost
    <3>3. /\ call' = [call EXCEPT ![t] = Idle]
          /\ UNCHANGED <<rpcUp, disconnects>>
      BY <3>1, <3>2 DEF DataReturns
    <3>4. \A u \in Threads : call'[u] \in {call[u], Idle}
      BY <3>3 DEF CallTypes
    <3>. QED
      BY <3>3, <3>4 DEF NotLost, Idle
  <2>2. CASE ~rpcUp
    BY <1>8, <2>2 DEF Returns, DataReturns, ConnectionLost, NotLost
  <2>. QED
    BY <2>1, <2>2
<1>9. ASSUME NEW t \in Threads, Timeout(t)
      PROVE  NotLost'
  <2>1. Lapses(t) /\ UNCHANGED <<rpcUp, disconnects>>
    BY <1>9 DEF Timeout, Lapses, client
  <2>2. /\ \A u \in Threads : u # t => call'[u] = call[u]
        /\ call'[t].state = "answered" /\ call'[t].code = "TIMEOUT_EXPIRED"
    BY <2>1, AfterLapse
  <2>. QED
    BY <2>1, <2>2 DEF NotLost
<1>10. ASSUME NEW j \in ToSet(rpcs), Open(j)
       PROVE  NotLost'
  BY <1>10, AfterTakes, AnsweredNotLost DEF Open, client
<1>11. ASSUME NEW j, NoConnection(j)
       PROVE  FALSE
  <2>1. j = rpcs[1] /\ 1 \in 1..Len(rpcs) /\ rpcUp
    BY <1>11, AfterTakes DEF NoConnection
  <2>. QED
    BY <1>11, <2>1 DEF NoConnection, EndpointOpen
<1>12. ASSUME NEW j, Stop(j) \/ GetSession(j)
       PROVE  NotLost'
  BY <1>12 DEF Stop, GetSession, client, NotLost
<1>13. CASE Join
  <2>1. job \in Request
    BY <1>13 DEF Join, CallTypes, NoJob
  <2>. QED
    BY <1>13, <2>1, AnsweredNotLost DEF Join, client
<1>14. ASSUME NEW j \in ToSet(rpcs) \cup {job}, NEW s \in {"dummy", "real"},
              SendClosed(j, s) \/ SendOpen(j, s) \/ ReceiveNext(j, s)
       PROVE  NotLost'
  <2>1. Served(j, s) /\ UNCHANGED <<rpcUp, disconnects>>
    BY <1>14 DEF SendClosed, SendOpen, ReceiveNext, client
  <2>2. PICK m, code : Answer(j, m, code) /\ code # "NO_CONNECTION"
    BY <1>14 DEF SendClosed, SendOpen, ReceiveNext
  <2>3. j \in Request
    <3>1. CASE Takes(j)
      BY <3>1, AfterTakes
    <3>2. CASE j = job /\ job.op \in {"send", "receive"}
      BY <3>2 DEF CallTypes, NoJob
    <3>. QED
      BY <2>1, <3>1, <3>2 DEF Served
  <2>. QED
    BY <2>1, <2>2, <2>3, AnsweredNotLost
<1>15. CASE IO \/ OnRead \/ SDLStart \/ SDLStop
  BY <1>15 DEF IO, OnRead, SDLStart, SDLStop, OnResolve, ConnectFails, Connected,
               Run, OnReadFails, OnClose, ioUnchanged, client, NotLost
<1>16. CASE ServerDies
  BY <1>16 DEF ServerDies, NotLost
<1>. QED
  BY <1>2, <1>3, <1>4, <1>5, <1>6, <1>7, <1>8, <1>9, <1>10, <1>11, <1>12, <1>13, <1>14,
     <1>15, <1>16
     DEF Next, Main, Listening, Worker

(* Messages that stay where they are.                                      *)
LEMMA WrittenSame ==
  ASSUME CallTypes, CallStep, WrittenOnce, UNCHANGED written, pend' = pend \/ pend' = <<>>
  PROVE  WrittenOnce'
<1>1. /\ \A i \in 1..Len(pend) : pend[i] \in Gone'
      /\ \A i \in 1..Len(written) : written[i] \in Gone'
  BY GoneKept DEF WrittenOnce
<1>2. CASE UNCHANGED pend
  BY <1>1, <1>2 DEF WrittenOnce
<1>3. CASE pend' = <<>>
  BY <1>1, <1>3 DEF WrittenOnce
<1>. QED
  BY <1>2, <1>3

(* A message goes from its call to the queue of the broker, or to SDL.     *)
LEMMA WrittenAppend ==
  ASSUME CallTypes, CallStep, WrittenOnce, Unsent, UNCHANGED nWrite,
         NEW j \in Request, NEW m \in Nat, NEW code \in Codes, Finishes(j, m, code), j.op = "send",
         \/ pend' = Append(pend, j.msg) /\ UNCHANGED written
         \/ written' = Append(written, j.msg) /\ UNCHANGED pend
  PROVE  WrittenOnce'
<1>1. /\ \A i \in 1..Len(pend) : pend[i] \in Gone' /\ pend[i] # j.msg
      /\ \A i \in 1..Len(written) : written[i] \in Gone' /\ written[i] # j.msg
  BY GoneKept, FinishedGone DEF WrittenOnce
<1>2. j.msg \in Gone'
  BY FinishedGone
<1>3. j.msg \in 1..MaxWrites
  BY <1>2, Bounds, CallTypesKept DEF Gone, Absent, CallTypes
<1>4. CASE pend' = Append(pend, j.msg) /\ UNCHANGED written
  <2>1. /\ pend' \in Seq(1..MaxWrites) /\ Len(pend) \in Nat /\ Len(pend') = Len(pend) + 1
        /\ \A i \in 1..Len(pend) : pend'[i] = pend[i]
        /\ pend'[Len(pend) + 1] = j.msg
    BY <1>3, <1>4 DEF WrittenOnce
  <2>2. \A i \in 1..Len(pend') : i \in 1..Len(pend) \/ i = Len(pend) + 1
    BY <2>1
  <2>. QED
    BY <1>1, <1>2, <1>4, <2>1, <2>2 DEF WrittenOnce
<1>5. CASE written' = Append(written, j.msg) /\ UNCHANGED pend
  <2>1. /\ written' \in Seq(1..MaxWrites) /\ Len(written) \in Nat /\ Len(written') = Len(written) + 1
        /\ \A i \in 1..Len(written) : written'[i] = written[i]
        /\ written'[Len(written) + 1] = j.msg
    BY <1>3, <1>5 DEF WrittenOnce
  <2>2. \A i \in 1..Len(written') : i \in 1..Len(written) \/ i = Len(written) + 1
    BY <2>1
  <2>. QED
    BY <1>1, <1>2, <1>5, <2>1, <2>2 DEF WrittenOnce
<1>. QED
  BY <1>4, <1>5

(* FlushPendingMsg moves messages from the queue to SDL, or drops some.    *)
LEMMA WrittenFlush ==
  ASSUME CallTypes, CallStep, WrittenOnce, NEW s, FlushPendingMsg(s)
  PROVE  WrittenOnce'
<1>1. /\ \A i \in 1..Len(pend) : pend[i] \in Gone'
      /\ \A i \in 1..Len(written) : written[i] \in Gone'
  BY GoneKept DEF WrittenOnce
<1>2. CASE UNCHANGED <<pend, written>>
  BY <1>2, WrittenSame
<1>3. CASE written' = written \o pend /\ pend' = <<>>
  <2>1. /\ written' \in Seq(1..MaxWrites) /\ pend' \in Seq(1..MaxWrites)
        /\ Len(written) \in Nat /\ Len(pend) \in Nat /\ Len(written') = Len(written) + Len(pend)
        /\ \A i \in 1..Len(written) : written'[i] = written[i]
        /\ \A i \in Len(written) + 1..Len(written) + Len(pend) :
             written'[i] = pend[i - Len(written)]
    BY <1>3 DEF WrittenOnce
  <2>2. ASSUME NEW i \in 1..Len(written')
        PROVE  \/ i \in 1..Len(written) /\ written'[i] = written[i]
               \/ /\ i \notin 1..Len(written) /\ i - Len(written) \in 1..Len(pend)
                  /\ written'[i] = pend[i - Len(written)]
    BY <2>1
  <2>3. \A i \in 1..Len(written') : written'[i] \in Gone'
    BY <1>1, <2>2
  <2>4. ASSUME NEW i \in 1..Len(written'), NEW k \in 1..Len(written'), i # k
        PROVE  written'[i] # written'[k]
    <3>1. CASE i \in 1..Len(written) /\ k \in 1..Len(written)
      BY <2>2, <2>4, <3>1 DEF WrittenOnce
    <3>2. CASE i \in 1..Len(written) /\ k \notin 1..Len(written)
      BY <2>2, <3>2 DEF WrittenOnce
    <3>3. CASE i \notin 1..Len(written) /\ k \in 1..Len(written)
      BY <2>2, <3>3 DEF WrittenOnce
    <3>4. CASE i \notin 1..Len(written) /\ k \notin 1..Len(written)
      <4>1. i - Len(written) # k - Len(written)
        BY <2>1, <2>4
      <4>. QED
        BY <2>2, <3>4, <4>1 DEF WrittenOnce
    <3>. QED
      BY <3>1, <3>2, <3>3, <3>4
  <2>5. Len(pend') = 0
    BY <1>3
  <2>. QED
    BY <2>1, <2>3, <2>4, <2>5 DEF WrittenOnce
<1>4. CASE UNCHANGED written /\ \E n \in 0..Len(pend) : pend' = SubSeq(pend, n + 1, Len(pend))
  <2>1. PICK n \in 0..Len(pend) : pend' = SubSeq(pend, n + 1, Len(pend))
    BY <1>4
  <2>2. /\ pend' \in Seq(1..MaxWrites) /\ Len(pend) \in Nat /\ Len(pend') = Len(pend) - n
        /\ \A i \in 1..Len(pend') : i + n \in 1..Len(pend) /\ pend'[i] = pend[i + n]
    <3>1. pend \in Seq(1..MaxWrites) /\ Len(pend) \in Nat /\ n \in Nat
      BY DEF WrittenOnce
    <3>2. ASSUME NEW i \in n + 1..Len(pend)
          PROVE  i \in 1..Len(pend) /\ pend[i] \in 1..MaxWrites
      <4>1. i \in 1..Len(pend)
        BY <3>1
      <4>. QED
        BY <3>1, <4>1, Bounds
    <3>3. pend' \in Seq(1..MaxWrites)
      BY <2>1, <3>1, <3>2
    <3>4. Len(pend') = Len(pend) - n
      BY <2>1, <3>1
    <3>. QED
      BY <2>1, <3>1, <3>2, <3>3, <3>4
  <2>3. \A i \in 1..Len(pend') : pend'[i] \in Gone'
    BY <1>1, <2>2
  <2>4. ASSUME NEW i \in 1..Len(pend'), NEW k \in 1..Len(pend'), i # k
        PROVE  pend'[i] # pend'[k]
    <3>1. i + n # k + n
      BY <2>2, <2>4
    <3>. QED
      BY <2>2, <3>1 DEF WrittenOnce
  <2>. QED
    BY <1>1, <1>4, <2>2, <2>3, <2>4, SMTT(30) DEF WrittenOnce
<1>. QED
  BY <1>2, <1>3, <1>4 DEF FlushPendingMsg

(* No message of the script reaches SDL twice.                             *)
LEMMA WrittenOnceKept ==
  ASSUME CallTypes, ReadTypes, Unsent, WrittenOnce, Next
  PROVE  WrittenOnce'
<1>0. CallStep
  BY StepsOfCalls
<1>1. ASSUME NEW j \in ToSet(rpcs) \cup {job}, NEW s \in {"dummy", "real"},
             SendClosed(j, s) \/ SendOpen(j, s) \/ ReceiveNext(j, s)
      PROVE  WrittenOnce'
  <2>1. Served(j, s) /\ UNCHANGED <<rpcUp, nWrite>>
    BY <1>1 DEF SendClosed, SendOpen, ReceiveNext, counts
  <2>2. GetMessage(s).msg \in Nat
    BY GetMessageType
  <2>3. PICK m \in Nat, code \in Codes : Answer(j, m, code)
    BY <1>1, <2>2 DEF SendClosed, SendOpen, ReceiveNext, Codes
  <2>4. j \in Request /\ Finishes(j, m, code)
    BY <2>1, <2>3, ServedFinishes
  <2>5. CASE SendClosed(j, s)
    BY <1>0, <2>1, <2>4, <2>5, WrittenAppend DEF SendClosed
  <2>6. CASE SendOpen(j, s)
    <3>1. CASE UNCHANGED written
      BY <1>0, <2>6, <3>1, WrittenSame DEF SendOpen
    <3>2. CASE written' = Append(written, j.msg)
      BY <1>0, <2>1, <2>4, <2>6, <3>2, WrittenAppend DEF SendOpen
    <3>. QED
      BY <2>6, <3>1, <3>2 DEF SendOpen
  <2>7. CASE ReceiveNext(j, s)
    BY <1>0, <2>7, WrittenFlush DEF ReceiveNext
  <2>. QED
    BY <1>1, <2>5, <2>6, <2>7
<1>2. CASE Connect \/ Send \/ Delete \/ Main \/ Listening
  BY <1>0, <1>2, WrittenSame
     DEF Connect, Send, Delete, Main, Listening, Receive, ListenerEnds, OpenReturns,
         CloseHandle, CloseReturns
<1>3. CASE \E t \in Threads : Returns(t) \/ Timeout(t)
  BY <1>0, <1>3, WrittenSame DEF Returns, Timeout, DataReturns, ConnectionLost
<1>4. ASSUME NEW j, Open(j) \/ Stop(j) \/ GetSession(j) \/ NoConnection(j)
      PROVE  WrittenOnce'
  BY <1>0, <1>4, WrittenSame DEF Open, Stop, GetSession, NoConnection
<1>5. CASE Join \/ ServerDies
  BY <1>0, <1>5, WrittenSame DEF Join, ServerDies
<1>6. CASE IO \/ OnRead \/ SDLStart \/ SDLStop
  BY <1>0, <1>6, WrittenSame
     DEF IO, OnRead, SDLStart, SDLStop, OnResolve, ConnectFails, Connected,
         Run, OnReadFails, OnClose, ioUnchanged
<1>. QED
  BY <1>1, <1>2, <1>3, <1>4, <1>5, <1>6 DEF Next, Worker

(* Steps that bring no message of SDL closer to the script.                *)
Quiet ==
  /\ \A u \in Threads : Holds(u)' => Holds(u) /\ call'[u].msg = call[u].msg
  /\ UNCHANGED <<emitted, nRead>>
  /\ inq' = inq \/ inq' = <<>>

(* They keep the order of the messages.                                    *)
LEMMA ReadSame ==
  ASSUME CallTypes, ReadTypes, EmittedOnce, Quiet
  PROVE  ReadTypes' /\ EmittedOnce'
<1>1. \A u \in Threads : Holds(u)' => Holds(u) /\ call'[u].msg = call[u].msg
  BY DEF Quiet
<1>2. UNCHANGED <<emitted, nRead>> /\ (inq' = inq \/ inq' = <<>>)
  BY DEF Quiet
<1>3. ReadTypes'
  <2>1. <<>> \in Seq(1..MaxReads)
    OBVIOUS
  <2>. QED
    BY <1>2, <2>1 DEF ReadTypes
<1>4. \A i \in 1..Len(inq') : i \in 1..Len(inq) /\ inq'[i] = inq[i]
  BY <1>2 DEF ReadTypes
<1>5. \A i, k \in 1..Len(inq') : inq'[i] <= nRead /\ (i < k => inq'[i] < inq'[k])
  BY <1>4 DEF EmittedOnce
<1>6. ASSUME NEW t \in Threads, Holds(t)'
      PROVE  /\ call'[t].msg \in 1..nRead
             /\ \A i \in 1..Len(inq') : call'[t].msg < inq'[i]
             /\ \A u \in Threads : Holds(u)' /\ u # t => call'[u].msg # call'[t].msg
             /\ \A i \in 1..Len(emitted) :
                  /\ emitted[i].msg # call'[t].msg
                  /\ emitted[i].by = t => emitted[i].msg < call'[t].msg
  <2>1. Holds(t) /\ call'[t].msg = call[t].msg
    BY <1>1, <1>6
  <2>2. \A u \in Threads : Holds(u)' /\ u # t => call'[u].msg # call'[t].msg
    BY <1>1, <2>1 DEF EmittedOnce
  <2>. QED
    BY <1>4, <2>1, <2>2 DEF EmittedOnce
<1>7. \A i \in 1..Len(emitted) : \A k \in 1..Len(inq') : emitted[i].msg < inq'[k]
  BY <1>4 DEF EmittedOnce
<1>. QED
  BY <1>2, <1>3, <1>5, <1>6, <1>7 DEF EmittedOnce

(* The messages emitted are numbers.                                       *)
LEMMA EmittedType ==
  ASSUME ReadTypes
  PROVE  \A i \in 1..Len(emitted) : emitted[i].msg \in Nat
<1>1. \A i \in 1..Len(emitted) : emitted[i] \in Emission
  BY DEF ReadTypes
<1>. QED
  BY <1>1, Bounds DEF Emission

(* A message of SDL that arrives is the youngest.                          *)
LEMMA ReadArrives ==
  ASSUME CallTypes, ReadTypes, EmittedOnce, OnRead
  PROVE  ReadTypes' /\ EmittedOnce'
<1>1. /\ UNCHANGED <<call, emitted>> /\ nRead' = nRead + 1 /\ nRead < MaxReads
      /\ inq' = Append(inq, nRead + 1)
  BY DEF OnRead, ioUnchanged, client
<1>2. nRead \in Nat /\ nRead' \in 1..MaxReads
  BY <1>1, Bounds DEF ReadTypes
<1>3. /\ inq' \in Seq(1..MaxReads) /\ Len(inq) \in Nat /\ Len(inq') = Len(inq) + 1
      /\ \A i \in 1..Len(inq) : inq'[i] = inq[i] /\ inq[i] \in Nat
      /\ inq'[Len(inq) + 1] = nRead'
  BY <1>1, <1>2, Bounds DEF ReadTypes
<1>4. \A i \in 1..Len(inq') : i \in 1..Len(inq) \/ i = Len(inq) + 1
  BY <1>3
<1>5. /\ \A u \in Threads : (Holds(u)' <=> Holds(u)) /\ call'[u] = call[u]
      /\ \A u \in Threads : call[u].msg \in Nat
  BY <1>1 DEF Holds, CallTypes, CallRecord
<1>6. \A i \in 1..Len(emitted) : emitted[i].msg \in Nat
  BY EmittedType
<1>7. ReadTypes'
  BY <1>1, <1>2, <1>3 DEF ReadTypes
<1>8. \A i \in 1..Len(inq') :
        inq'[i] <= nRead' /\ \A k \in 1..Len(inq') : i < k => inq'[i] < inq'[k]
  BY <1>1, <1>2, <1>3, <1>4 DEF EmittedOnce
<1>9. ASSUME NEW t \in Threads, Holds(t)
      PROVE  /\ call[t].msg \in 1..nRead'
             /\ \A i \in 1..Len(inq') : call[t].msg < inq'[i]
             /\ \A u \in Threads : Holds(u) /\ u # t => call[u].msg # call[t].msg
             /\ \A i \in 1..Len(emitted) :
                  /\ emitted[i].msg # call[t].msg
                  /\ emitted[i].by = t => emitted[i].msg < call[t].msg
  BY <1>1, <1>2, <1>3, <1>4, <1>5, <1>9 DEF EmittedOnce
<1>10. \A i \in 1..Len(emitted) :
         /\ emitted[i].msg <= nRead'
         /\ \A k \in 1..Len(inq') : emitted[i].msg < inq'[k]
  BY <1>1, <1>2, <1>3, <1>4, <1>6 DEF EmittedOnce
<1>11. \A i, k \in 1..Len(emitted) : i < k =>
         /\ emitted[i].msg # emitted[k].msg
         /\ emitted[i].by = emitted[k].by => emitted[i].msg < emitted[k].msg
  BY DEF EmittedOnce
<1>. QED
  BY <1>1, <1>5, <1>7, <1>8, <1>9, <1>10, <1>11 DEF EmittedOnce

(* A message goes from the queue to the answer of a call.                  *)
LEMMA ReadTaken ==
  ASSUME CallTypes, ReadTypes, EmittedOnce, NEW j \in Request, NEW s, NEW code,
         Answer(j, GetMessage(s).msg, code), inq' = GetMessage(s).rest,
         UNCHANGED <<emitted, nRead>>
  PROVE  ReadTypes' /\ EmittedOnce'
<1>1. /\ \A u \in Threads : u # j.from => call'[u] = call[u]
      /\ j.from \in Threads => call'[j.from].msg = GetMessage(s).msg
  <2>1. /\ \A u \in Threads : u # j.from => call'[u] = call[u]
        /\ j.from \in Threads => call'[j.from] =
             [state |-> "answered", op |-> j.op, msg |-> GetMessage(s).msg, code |-> code]
    BY AfterAnswer
  <2>. QED
    BY <2>1
<1>2. CASE s = "real" /\ inq # <<>>
  <2>1. GetMessage(s).msg = inq[1] /\ inq' = Tail(inq)
    BY <1>2 DEF GetMessage, ReadTypes
  <2>2. /\ inq' \in Seq(1..MaxReads) /\ Len(inq) \in Nat /\ Len(inq') = Len(inq) - 1
        /\ 1 \in 1..Len(inq) /\ inq[1] \in 1..MaxReads
        /\ \A i \in 1..Len(inq') :
             i \in Nat /\ 1 < i + 1 /\ i + 1 \in 1..Len(inq) /\ inq'[i] = inq[i + 1]
    <3>1. inq \in Seq(1..MaxReads) /\ Len(inq) \in Nat
      BY DEF ReadTypes
    <3>2. inq' \in Seq(1..MaxReads) /\ Len(inq') = Len(inq) - 1
      BY <1>2, <2>1, <3>1
    <3>3. 1 \in 1..Len(inq)
      BY <1>2, <3>1
    <3>4. inq[1] \in 1..MaxReads
      BY <3>1, <3>3, Bounds
    <3>5. \A i \in 1..Len(inq') : i \in Nat /\ 1 < i + 1 /\ i + 1 \in 1..Len(inq)
      BY <3>1, <3>2
    <3>6. \A i \in 1..Len(inq') : inq'[i] = inq[i + 1]
      <4>1. \A i \in 1..Len(inq) - 1 : Tail(inq)[i] = inq[i + 1]
        BY <1>2, <3>1
      <4>. QED
        BY <2>1, <3>2, <4>1
    <3>. QED
      BY <3>1, <3>2, <3>3, <3>4, <3>5, <3>6
  <2>3. ReadTypes'
    BY <2>2 DEF ReadTypes
  <2>4. inq[1] \in 1..nRead
    BY <2>2, Bounds DEF EmittedOnce, ReadTypes
  <2>5. \A i \in 1..Len(inq') : inq'[i] <= nRead /\ inq[1] < inq'[i]
    BY <2>2 DEF EmittedOnce
  <2>6. ASSUME NEW i \in 1..Len(inq'), NEW k \in 1..Len(inq'), i < k
        PROVE  inq'[i] < inq'[k]
    <3>1. i + 1 < k + 1
      BY <2>2, <2>6
    <3>. QED
      BY <2>2, <3>1 DEF EmittedOnce
  <2>7. ASSUME NEW u \in Threads, Holds(u)'
        PROVE  \/ u = j.from /\ call'[u].msg = inq[1]
               \/ u # j.from /\ Holds(u) /\ call'[u] = call[u]
    BY <1>1, <2>1, <2>7 DEF Holds
  <2>8. ASSUME NEW t \in Threads, Holds(t)'
        PROVE  /\ call'[t].msg \in 1..nRead
               /\ \A i \in 1..Len(inq') : call'[t].msg < inq'[i]
               /\ \A u \in Threads : Holds(u)' /\ u # t => call'[u].msg # call'[t].msg
               /\ \A i \in 1..Len(emitted) :
                    /\ emitted[i].msg # call'[t].msg
                    /\ emitted[i].by = t => emitted[i].msg < call'[t].msg
    <3>1. \A u \in Threads : Holds(u) => call[u].msg < inq[1] /\ call[u].msg \in Nat
      BY <2>2 DEF EmittedOnce, CallTypes, CallRecord
    <3>2. \A i \in 1..Len(emitted) : emitted[i].msg < inq[1] /\ emitted[i].msg \in Nat
      BY <2>2, EmittedType DEF EmittedOnce
    <3>3. CASE t = j.from
      <4>1. call'[t].msg = inq[1]
        BY <2>7, <2>8, <3>3
      <4>2. \A u \in Threads : Holds(u)' /\ u # t => call'[u].msg < inq[1] /\ call'[u].msg \in Nat
        BY <2>7, <3>1, <3>3
      <4>. QED
        BY <2>4, <2>5, <3>2, <4>1, <4>2
    <3>4. CASE t # j.from
      <4>1. call'[t] = call[t] /\ Holds(t) /\ call[t].msg < inq[1]
        BY <2>7, <2>8, <3>1, <3>4
      <4>2. \A i \in 1..Len(inq') : call[t].msg < inq'[i]
        BY <2>2, <4>1 DEF EmittedOnce
      <4>3. ASSUME NEW u \in Threads, Holds(u)', u # t
            PROVE  call'[u].msg # call[t].msg
        <5>1. CASE u = j.from
          BY <2>4, <2>7, <3>1, <4>1, <4>3, <5>1
        <5>2. CASE u # j.from
          BY <2>7, <4>1, <4>3, <5>2 DEF EmittedOnce
        <5>. QED
          BY <5>1, <5>2
      <4>. QED
        BY <4>1, <4>2, <4>3 DEF EmittedOnce
    <3>. QED
      BY <3>3, <3>4
  <2>9. \A i \in 1..Len(emitted) : \A k \in 1..Len(inq') : emitted[i].msg < inq'[k]
    BY <2>2 DEF EmittedOnce
  <2>. QED
    BY <2>3, <2>5, <2>6, <2>8, <2>9 DEF EmittedOnce
<1>3. CASE ~(s = "real" /\ inq # <<>>)
  <2>1. GetMessage(s) = [msg |-> 0, rest |-> inq]
    BY <1>3 DEF GetMessage
  <2>2. Quiet
    BY <1>1, <2>1 DEF Quiet, Holds
  <2>. QED
    BY <2>2, ReadSame
<1>. QED
  BY <1>2, <1>3

(* A message goes from an answer to the script.                            *)
LEMMA ReadEmitted ==
  ASSUME CallTypes, ReadTypes, EmittedOnce, NEW t \in Threads, DataReturns(t)
  PROVE  ReadTypes' /\ EmittedOnce'
<1>1. UNCHANGED <<inq, nRead>> /\ \A u \in Threads : u # t => call'[u] = call[u]
  BY DEF DataReturns, socket, counts, CallTypes
<1>2. ~Holds(t)'
  <2>1. call'[t] \in {Idle, [call[t] EXCEPT !.state = "losing"]} /\ call[t] \in CallRecord
    BY DEF DataReturns, CallTypes
  <2>2. call'[t].state \in {"idle", "losing"}
    BY <2>1 DEF Idle, CallRecord
  <2>. QED
    BY <2>2 DEF Holds
<1>3. \A u \in Threads : Holds(u)' => Holds(u) /\ call'[u] = call[u] /\ u # t
  BY <1>1, <1>2 DEF Holds
<1>4. CASE Holds(t)
  <2>1. emitted' = Append(emitted, [msg |-> call[t].msg, by |-> t])
    BY <1>4 DEF Holds, DataReturns
  <2>2. call[t].msg \in 1..nRead
    BY <1>4 DEF EmittedOnce
  <2>3. [msg |-> call[t].msg, by |-> t] \in Emission
    BY <2>2, Bounds DEF ReadTypes, Emission
  <2>4. /\ emitted' \in Seq(Emission)
        /\ Len(emitted) \in Nat /\ Len(emitted') = Len(emitted) + 1
        /\ \A i \in 1..Len(emitted) : emitted'[i] = emitted[i]
        /\ emitted'[Len(emitted) + 1] = [msg |-> call[t].msg, by |-> t]
    BY <2>1, <2>3 DEF ReadTypes
  <2>5. emitted'[Len(emitted) + 1].msg = call[t].msg /\ emitted'[Len(emitted) + 1].by = t
    BY <2>4
  <2>6. \A i \in 1..Len(emitted') : i \in 1..Len(emitted) \/ i = Len(emitted) + 1
    BY <2>4
  <2>7. ReadTypes'
    BY <1>1, <2>4 DEF ReadTypes
  <2>8. ASSUME NEW u \in Threads, Holds(u)'
        PROVE  \A i \in 1..Len(emitted') :
                 /\ emitted'[i].msg # call[u].msg
                 /\ emitted'[i].by = u => emitted'[i].msg < call[u].msg
    BY <1>3, <1>4, <2>4, <2>5, <2>6, <2>8 DEF EmittedOnce
  <2>9. \A u \in Threads : Holds(u)' =>
          /\ call'[u].msg \in 1..nRead
          /\ \A i \in 1..Len(inq) : call'[u].msg < inq[i]
          /\ \A v \in Threads : Holds(v)' /\ v # u => call'[v].msg # call'[u].msg
          /\ \A i \in 1..Len(emitted') :
               /\ emitted'[i].msg # call'[u].msg
               /\ emitted'[i].by = u => emitted'[i].msg < call'[u].msg
    BY <1>3, <2>8 DEF EmittedOnce
  <2>10. \A i \in 1..Len(emitted') :
           /\ emitted'[i].msg <= nRead
           /\ \A k \in 1..Len(inq) : emitted'[i].msg < inq[k]
    BY <1>4, <2>2, <2>4, <2>5, <2>6 DEF EmittedOnce
  <2>11. ASSUME NEW i \in 1..Len(emitted'), NEW k \in 1..Len(emitted'), i < k
         PROVE  /\ emitted'[i].msg # emitted'[k].msg
                /\ emitted'[i].by = emitted'[k].by => emitted'[i].msg < emitted'[k].msg
    <3>1. i \in 1..Len(emitted)
      BY <2>4, <2>11
    <3>2. CASE k \in 1..Len(emitted)
      BY <2>4, <2>11, <3>1, <3>2 DEF EmittedOnce
    <3>3. CASE k = Len(emitted) + 1
      BY <1>4, <2>4, <2>5, <3>1, <3>3 DEF EmittedOnce
    <3>. QED
      BY <2>6, <3>2, <3>3
  <2>12. \A i \in 1..Len(inq) :
           inq[i] <= nRead /\ \A k \in 1..Len(inq) : i < k => inq[i] < inq[k]
    BY DEF EmittedOnce
  <2>. QED
    BY <1>1, <2>7, <2>9, <2>10, <2>11, <2>12 DEF EmittedOnce
<1>5. CASE ~Holds(t)
  <2>1. UNCHANGED emitted
    BY <1>5 DEF Holds, DataReturns
  <2>2. Quiet
    BY <1>1, <1>3, <2>1 DEF Quiet
  <2>. QED
    BY <2>2, ReadSame
<1>. QED
  BY <1>4, <1>5

(* A call that is made brings no message.                                  *)
LEMMA CallQuiet ==
  ASSUME CallTypes, NEW t \in Threads, NEW op \in Ops, NEW m \in 0..MaxWrites,
         Call(t, op, m), UNCHANGED <<emitted, nRead, inq>>
  PROVE  Quiet
<1>1. \A u \in Threads : u # t => call'[u] = call[u]
  BY AfterCall
<1>2. call'[t].msg = 0
  BY AfterCall
<1>. QED
  BY <1>1, <1>2 DEF Quiet, Holds

(* Nor does an answer without one.                                         *)
LEMMA AnswerQuiet ==
  ASSUME CallTypes, NEW j \in Request, NEW code, Answer(j, 0, code),
         UNCHANGED <<emitted, nRead>>, inq' = inq \/ inq' = <<>>
  PROVE  Quiet
<1>1. /\ \A u \in Threads : u # j.from => call'[u] = call[u]
      /\ j.from \in Threads => call'[j.from] =
           [state |-> "answered", op |-> j.op, msg |-> 0, code |-> code]
  BY AfterAnswer
<1>2. j.from \in Threads => call'[j.from].msg = 0
  BY <1>1
<1>. QED
  BY <1>1, <1>2 DEF Quiet, Holds

(* Calls that stay as they are.                                            *)
LEMMA StillQuiet ==
  ASSUME CallTypes, UNCHANGED <<call, emitted, nRead>>, inq' = inq \/ inq' = <<>>
  PROVE  Quiet
  BY DEF Quiet, Holds

(* No message of SDL is emitted twice, or by one thread out of order.      *)
LEMMA EmittedOnceKept ==
  ASSUME CallTypes, ReadTypes, EmittedOnce, Next
  PROVE  ReadTypes' /\ EmittedOnce'
<1>1. CASE Connect
  <2>1. PICK op \in {"reopen", "open"} : Call("main", op, 0)
    BY <1>1 DEF Connect
  <2>2. UNCHANGED <<emitted, nRead, inq>>
    BY <1>1 DEF Connect, client, socket
  <2>. QED
    BY <2>1, <2>2, Bounds, CallQuiet, ReadSame DEF Ops, Threads
<1>2. CASE Send
  <2>1. nWrite + 1 \in 0..MaxWrites
    BY <1>2, Bounds DEF Send, CallTypes
  <2>2. Call("main", "send", nWrite + 1) /\ UNCHANGED <<emitted, nRead, inq>>
    BY <1>2 DEF Send, client, socket
  <2>. QED
    BY <2>1, <2>2, CallQuiet, ReadSame DEF Ops, Threads
<1>3. CASE Receive
  <2>1. Call("listener", "receive", 0) /\ UNCHANGED <<emitted, nRead, inq>>
    BY <1>3 DEF Receive, client, socket, counts
  <2>. QED
    BY <2>1, Bounds, CallQuiet, ReadSame DEF Ops, Threads
<1>4. CASE CloseHandle
  <2>1. UNCHANGED <<emitted, nRead, inq>>
    BY <1>4 DEF CloseHandle, socket, counts
  <2>2. CASE Call("main", "close", 0)
    BY <2>1, <2>2, Bounds, CallQuiet, ReadSame DEF Ops, Threads
  <2>3. CASE UNCHANGED call
    BY <2>1, <2>3, StillQuiet, ReadSame
  <2>. QED
    BY <1>4, <2>2, <2>3 DEF CloseHandle
<1>5. CASE Delete \/ ListenerEnds
  <2>1. UNCHANGED <<call, emitted, nRead, inq>>
    BY <1>5 DEF Delete, ListenerEnds, socket, counts
  <2>. QED
    BY <2>1, StillQuiet, ReadSame
<1>6. ASSUME NEW t \in Threads, call' = [call EXCEPT ![t] = Idle],
             UNCHANGED <<emitted, nRead, inq>>
      PROVE  ReadTypes' /\ EmittedOnce'
  <2>1. \A u \in Threads : u # t => call'[u] = call[u]
    BY <1>6 DEF CallTypes
  <2>2. call'[t].msg = 0
    BY <1>6 DEF CallTypes, Idle
  <2>3. Quiet
    BY <1>6, <2>1, <2>2 DEF Quiet, Holds
  <2>. QED
    BY <2>3, ReadSame
<1>7. CASE OpenReturns \/ CloseReturns
  <2>1. call' = [call EXCEPT !["main"] = Idle] /\ UNCHANGED <<emitted, nRead, inq>>
    BY <1>7 DEF OpenReturns, CloseReturns, socket, counts
  <2>. QED
    BY <1>6, <2>1 DEF Threads
<1>8. ASSUME NEW t \in Threads, Returns(t)
      PROVE  ReadTypes' /\ EmittedOnce'
  <2>1. CASE DataReturns(t)
    BY <2>1, ReadEmitted
  <2>2. CASE ConnectionLost(t)
    BY <1>6, <2>2 DEF ConnectionLost, socket, counts
  <2>. QED
    BY <1>8, <2>1, <2>2 DEF Returns
<1>9. ASSUME NEW t \in Threads, Timeout(t)
      PROVE  ReadTypes' /\ EmittedOnce'
  <2>1. Lapses(t) /\ UNCHANGED <<emitted, nRead, inq>>
    BY <1>9 DEF Timeout, Lapses, client, socket, counts
  <2>2. /\ \A u \in Threads : u # t => call'[u] = call[u]
        /\ call'[t].code = "TIMEOUT_EXPIRED"
    BY <2>1, AfterLapse
  <2>3. Quiet
    BY <2>1, <2>2 DEF Quiet, Holds
  <2>. QED
    BY <2>3, ReadSame
<1>10. ASSUME NEW j \in ToSet(rpcs), Open(j) \/ NoConnection(j)
       PROVE  ReadTypes' /\ EmittedOnce'
  <2>1. PICK code : Answer(j, 0, code)
    BY <1>10 DEF Open, NoConnection
  <2>2. j \in Request /\ UNCHANGED <<emitted, nRead>> /\ (inq' = inq \/ inq' = <<>>)
    BY <1>10, AfterTakes DEF Open, MakeContext, NoConnection, client, socket, counts
  <2>. QED
    BY <2>1, <2>2, AnswerQuiet, ReadSame
<1>11. ASSUME NEW j, Stop(j) \/ GetSession(j)
       PROVE  ReadTypes' /\ EmittedOnce'
  <2>1. UNCHANGED <<call, emitted, nRead, inq>>
    BY <1>11 DEF Stop, GetSession, client, socket, counts
  <2>. QED
    BY <2>1, StillQuiet, ReadSame
<1>12. CASE Join
  <2>1. job \in Request
    BY <1>12 DEF Join, CallTypes, NoJob
  <2>2. Answer(job, 0, "SUCCESS") /\ UNCHANGED <<emitted, nRead>> /\ inq' = <<>>
    BY <1>12 DEF Join, MakeContext, client, counts
  <2>. QED
    BY <2>1, <2>2, AnswerQuiet, ReadSame
<1>13. ASSUME NEW j \in ToSet(rpcs) \cup {job}, NEW s \in {"dummy", "real"},
              SendClosed(j, s) \/ SendOpen(j, s) \/ ReceiveNext(j, s)
       PROVE  ReadTypes' /\ EmittedOnce'
  <2>1. Served(j, s) /\ UNCHANGED <<emitted, nRead>>
    BY <1>13 DEF SendClosed, SendOpen, ReceiveNext, client, counts
  <2>2. j \in Request
    <3>1. CASE Takes(j)
      BY <3>1, AfterTakes
    <3>2. CASE j = job /\ job.op \in {"send", "receive"}
      BY <3>2 DEF CallTypes, NoJob
    <3>. QED
      BY <2>1, <3>1, <3>2 DEF Served
  <2>3. CASE SendClosed(j, s)
    BY <2>1, <2>2, <2>3, AnswerQuiet, ReadSame DEF SendClosed
  <2>4. CASE SendOpen(j, s) \/ ReceiveNext(j, s)
    <3>1. PICK code : Answer(j, GetMessage(s).msg, code)
      BY <2>4 DEF SendOpen, ReceiveNext
    <3>2. inq' = GetMessage(s).rest
      BY <2>4 DEF SendOpen, ReceiveNext
    <3>. QED
      BY <2>1, <2>2, <3>1, <3>2, ReadTaken
  <2>. QED
    BY <1>13, <2>3, <2>4
<1>14. CASE OnRead
  BY <1>14, ReadArrives
<1>15. CASE IO \/ SDLStart \/ SDLStop \/ ServerDies
  <2>1. UNCHANGED <<call, emitted, nRead>> /\ (inq' = inq \/ inq' = <<>>)
    BY <1>15 DEF IO, SDLStart, SDLStop, ServerDies, OnResolve, ConnectFails, Connected,
                 Run, OnReadFails, OnClose, ioUnchanged, client, socket, counts
  <2>. QED
    BY <2>1, StillQuiet, ReadSame
<1>. QED
  BY <1>1, <1>2, <1>3, <1>4, <1>5, <1>7, <1>8, <1>9, <1>10, <1>11, <1>12, <1>13, <1>14, <1>15
     DEF Next, Main, Listening, Worker

-----------------------------------------------------------------------------
(* The invariant holds at the start.                                       *)
LEMMA InvInit ==
  ASSUME Init
  PROVE  Inv
<1>1. Idle \in CallRecord /\ \A t \in Threads : call[t] = Idle
  BY DEF Init, Idle, CallRecord
<1>2. CallTypes
  BY <1>1, Bounds DEF Init, CallTypes
<1>3. ControlTypes /\ SocketTypes
  BY DEF Init, ControlTypes, SocketTypes
<1>4. FlagTypes
  BY DEF Init, FlagTypes
<1>5. ReadTypes
  BY Bounds DEF Init, ReadTypes
<1>6. OneCall
  BY <1>1 DEF Init, OneCall, Idle, NoJob, Threads
<1>7. CloseLast /\ Unsent
  BY DEF Init, CloseLast, Unsent, NoJob
<1>8. EndpointOpen /\ NotLost
  BY <1>1 DEF Init, EndpointOpen, Opened, NotLost, Idle, Threads
<1>9. WrittenOnce
  BY DEF Init, WrittenOnce
<1>10. EmittedOnce
  <2>1. \A t \in Threads : ~Holds(t)
    BY <1>1 DEF Holds, Idle
  <2>2. Len(inq) = 0 /\ Len(emitted) = 0
    BY DEF Init
  <2>. QED
    BY <2>1, <2>2 DEF EmittedOnce
<1>. QED
  BY <1>2, <1>3, <1>4, <1>5, <1>6, <1>7, <1>8, <1>9, <1>10 DEF Inv

(* Every step keeps it.                                                    *)
LEMMA InvStep ==
  ASSUME Inv, Next
  PROVE  Inv'
<1>. USE DEF Inv
<1>1. CallStep
  BY StepsOfCalls
<1>2. CallTypes' /\ OneCall' /\ Unsent'
  BY <1>1, CallTypesKept, OneCallKept, UnsentKept
<1>3. ControlTypes' /\ CloseLast'
  BY <1>1, MainStep, CloseLastKept
<1>4. FlagTypes' /\ SocketTypes'
  BY FlagTypesKept, SocketTypesKept
<1>5. EndpointOpen' /\ NotLost'
  BY EndpointOpenKept, NotLostKept
<1>6. WrittenOnce'
  BY WrittenOnceKept
<1>7. ReadTypes' /\ EmittedOnce'
  BY EmittedOnceKept
<1>. QED
  BY <1>2, <1>3, <1>4, <1>5, <1>6, <1>7

(* Nothing is relevant but the variables.                                  *)
LEMMA InvStutter ==
  ASSUME Inv, UNCHANGED vars
  PROVE  Inv'
<1>. USE DEF vars, client, socket, counts
<1>1. CallTypes' /\ ControlTypes' /\ FlagTypes' /\ SocketTypes' /\ ReadTypes'
  BY DEF Inv, CallTypes, ControlTypes, FlagTypes, SocketTypes, ReadTypes
<1>2. OneCall' /\ CloseLast' /\ EndpointOpen' /\ NotLost' /\ Unsent'
  BY DEF Inv, OneCall, CloseLast, EndpointOpen, Opened, NotLost, Unsent
<1>3. WrittenOnce'
  BY DEF Inv, WrittenOnce, Gone, Absent
<1>4. EmittedOnce'
  BY DEF Inv, EmittedOnce, Holds
<1>. QED
  BY <1>1, <1>2, <1>3, <1>4 DEF Inv

(* The invariant holds in every reachable state.                           *)
LEMMA Invariant == Spec => []Inv
<1>1. Inv /\ [Next]_vars => Inv'
  BY InvStep, InvStutter
<1>. QED
  BY <1>1, InvInit, PTL DEF Spec

(* For any bounds, and whatever times out, is replaced or dies: each thread*)
(* has one call with the server exactly while it waits, no message of SDL  *)
(* is emitted twice or out of order by one thread of HmiAdapterClient, and *)
(* no message of the script reaches SDL twice.                             *)
THEOREM NoDuplicatesCorrect == Spec => []NoDuplicates
<1>1. Inv => TypeOK
  <2>1. ASSUME Inv, NEW t \in Threads
        PROVE  /\ call[t].state \in {"idle", "waiting", "answered", "losing"}
               /\ rpcUp => (call[t].state = "waiting" <=>
                              \/ job.from = t
                              \/ \E i \in 1..Len(rpcs) : rpcs[i].from = t)
    <3>1. call[t].state \in {"idle", "waiting", "answered", "losing"}
      BY <2>1 DEF Inv, CallTypes, CallRecord
    <3>. QED
      BY <2>1, <3>1 DEF Inv, OneCall
  <2>. QED
    BY <2>1 DEF Inv, TypeOK, CallTypes, ControlTypes, FlagTypes, SocketTypes, ReadTypes,
                WrittenOnce
<1>2. Inv => OnceEach
  BY SMTT(30) DEF Inv, OnceEach, WrittenOnce, EmittedOnce
<1>. QED
  BY <1>1, <1>2, Invariant, PTL DEF NoDuplicates

(* The script is told that the HMI connection is lost only when the remote *)
(* adapter server is gone, through reconnects, timeouts and lost sessions. *)
THEOREM LostMeansGoneCorrect == Spec => []LostMeansGone
<1>1. Inv => LostMeansGone
  BY DEF Inv, NotLost, LostMeansGone
<1>. QED
  BY <1>1, Invariant, PTL
=============================================================================
