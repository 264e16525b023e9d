# A verification development for ATF

ATF (Automated Test Framework) runs Lua test scripts against SDL Core: it plays the
mobile phone and the HMI, sends messages, waits for the ones the script expects, and
reports a verdict for every step. A wrong verdict, a lost message or a run that never
ends is worse here than in most programs, because nobody tests the tester. This
directory holds TLA+ models of the parts that decide those things, TLC configurations
that check small instances, and TLAPS proofs of what matters most for every instance.

Paths below are relative to `src/`; `PROJECT.json` maps every definition to its lines.

## 1. The system

ATF is a Lua 5.2 program in a Qt event loop. The C++ part (`src/*.cc`) binds sockets,
timers, XML and OpenSSL to Lua; the logic is in `modules/*.lua`. In remote mode a
second program, the remote adapter server, runs beside SDL: it forwards the HMI
connection over an RPC library and works on SDL's files and processes.

| component | state | operations | talks to |
|---|---|---|---|
| Test executor `testbase.lua` | current step, its expectations, critical flag, result of the run | `runNextCase`, `CheckStatus`, `FailTestCase`, `SkipTest`, `critical`, `wait`, `finishTestCaseRun` | event dispatcher (validateAll), SDL control (crash), Qt (`next`, `quit`, a 400 ms timer) |
| Expectations `expectations.lua`, `cardinalities.lua` | bounds, occurrences, status, age, actions | `Times`, `Pin`, `Unpin`, `Timeout`, `ValidIf`, `Do`, `validate` | called by dispatcher and executor |
| Event dispatcher `event_dispatcher.lua`, `events.lua` | four pools of handlers, by level | `AddEvent`, `RemoveEvent`, `FindHandler`, `RaiseEvent`, `validateAll`, `ClearEvents` | called by connections and by actions, calls `CheckStatus` |
| Message dispatcher, file connection `message_dispatcher.lua`, `file_connection.lua` | the storage file, the streams, the room left in the socket, a timer | `Send`, `StartStreaming`, `StopStreaming`, `bytesWritten`, timer, `Close`, `Connect` | TCP socket |
| Protocol handler `protocol_handler/*.lua` | input buffer, messages being assembled | `Compose`, `Parse` | mobile connection, security manager |
| Security manager, `lua_openssl.cc` | TLS objects of sessions | `encrypt`, `decrypt`, handshake, register, unregister | OpenSSL |
| Mobile session, services, heartbeat `mobile_session*.lua`, `services/*.lua` | session id, services, secured flag, correlation ids, heartbeat timers | `Start`, `Stop`, `StartService`, `StartSecureService`, heartbeats | mobile connection, dispatcher |
| HMI connection and adapters `hmi_connection.lua`, `hmi_adapter/*.lua` | request ids | `SendRequest`, `SendResponse`, ... | WebSocket or remote client |
| Remote HMI client `hmi_adapter_client.cc`, `remote_client/*.cc` | connection flag, listener thread, RPC client | `connect`, `send`, `receive`, destructor | RPC to the message broker |
| Message broker `message_broker.cpp` | endpoints, queues, WebSocket sessions, io threads | `OpenConnection`, `CloseConnection`, `Send`, `Receive` | SDL |
| SDL control `SDL.lua`, connect test `connecttest.lua` | pid files, auto start flag | `StartSDL`, `StopSDL`, `CheckStatusSDL`, the `EXPECT_...` functions | executor |
| Remote client `remote_client.cc`, `rpc_connection_impl.cc` and its Lua wrapper | the connection, the call that is waited for | `call`, `file_call`, `connected` | RPC to the remote utilities |
| Remote utilities `utils_manager.cc`, `remote/*.lua` | files and processes on the other machine, a thread per started application | start, stop and check applications; back up, restore, update, fetch and delete files; folders; commands | RPC, the operating system |
| Qt and Lua runtime `main.cc`, `lua_interpreter.cc`, `qtlua.cc`, `qtdynamic.cc`, `marshal.cc`, `timers.cc`, `network.cc` | the Lua state, the loop and its queue, connections, the registry, sockets and timers | load, `quit`, `qt.dynamic`, `qt.connect`, signals, timers, `connect`, `read`, `open` | everything in Lua |
| Schema validation `schema_validation.lua`, `validation.lua` | the API tables | compare a message with its schema | `ValidIf` of expectations |
| Reporting, configuration | - | formatting, I/O, constants | - |

What is hard about it: Lua code is single threaded, but `RaiseEvent` runs the script's
actions, which may raise events, add expectations, fail the step or stop SDL in the
middle of the status check; verdicts depend on messages, timeouts and a timer in any
order; the flow control accounts for bytes over signals that arrive late and in parts;
TCP cuts the stream anywhere and the peer interleaves frames of several messages;
sessions lose their security between two frames; remote mode has four threads in
two processes, calls that time out while they are still executed, a joining worker,
and an unprotected shared pointer; files are backed up, edited and restored by calls
that may stop anywhere, and processes are found by name while they come and go; and
under all of it lie a garbage collector that deletes Qt objects and an event loop that
may run inside of a handler. `PROJECT.json` lists these as hazards, each at its line
and with the properties that watch it.

## 2. Modules

| module | models | checked in | proved in |
|---|---|---|---|
| `TestBase` | executor, expectations, event dispatcher, the script's calls, SDL crash | `TestBase_*` | `TestBaseProofs` |
| `MessageChannel` | abstract: what goes in at an end comes out once, whole, in order | as a refinement, below | `MessageDispatcherProofs`, `ProtocolHandlerProofs` |
| `MessageDispatcher` | file connection, message dispatcher, TCP socket as byte counts | `MessageDispatcher_channel` | `MessageDispatcherProofs` |
| `ProtocolHandler` | Compose, Parse, encrypt, decrypt | `ProtocolHandler_parse` | `ProtocolHandlerProofs` |
| `RemoteHMI` | HmiAdapterClient (two threads), RPC calls, message broker worker, io threads | `RemoteHMI_*` | `RemoteHMIProofs` |
| `MobileSession` | sessions, control and RPC service, heartbeat monitor, registration with the security manager, SDL as peer | `MobileSession_*` | `MobileSessionProofs` |
| `RemoteCall` | the synchronous calls of RemoteClient and the server's worker; extended by the next two | with them | with them |
| `RemoteFiles` | SDL's files in remote mode: backup, restore, get, set; `file_call`; files, folders and commands of UtilsManager | `RemoteFiles_calls` | `RemoteFilesProofs` |
| `RemoteApps` | SDL as a remote process: StartSDL, StopSDL, WaitForSDLStart; applications of UtilsManager | `RemoteApps_processes` | `RemoteAppsProofs` |
| `QtLua` | main, the Lua interpreter, signals and slots, timers, sockets, the garbage collector | `QtLua_loop` | `QtLuaProofs` |
| `MC...` | values of the constants | | |

### TestBase

One Lua thread. `pc` says where it is: in the event loop (`idle`), in code of the
script (`user`: a step body or an action), about to run `validateAll` (`validate`) or
`CheckStatus` (`check`), or `exited`. `RaiseEvent` is *actions; validateAll;
CheckStatus*; since an action may raise another event, the stack `acting` holds the
handlers whose action is running and whose second half is still to come. An event that
nobody handles, from the loop or raised by an action, goes straight to `CheckStatus`
(`RaiseUnhandled`). Every function a script can call while the framework is
in the middle of something is an action enabled in `user`.

An expectation is a record of what `validate` reads (`lo`/`hi` for timesLE/timesGE,
`occ`, `status`, `failed` for a false `ValidIf`, `aged` for a passed timeout). Its
class fixes its pool (`Level`) and what it matches. `pairs()` has no order, so any
match in a pool may be the one found. `Pin` and `Unpin` change the flag of any
expectation the script has kept, whether its step is over or not; `released` remembers
that it was unpinned when it was no longer listed. `Validated` is `Expectation:validate`.
`CheckStatus` is three actions, one per way out of the function: no step is running;
something is unresolved, or the step has only now become complete (the grace call);
the step is finalised. Its zero-occurrence handling, which creates a "Wait"
expectation and a timer per expectation with `Times(0)`, is part of both.
`SDLCrash` makes `CheckStatusSDL` return CRASH.

Abstractions: time (an expectation ages at any moment after it was made), message
contents (what a message matches, and whether `ValidIf` accepts it), reports.

### MessageDispatcher and MessageChannel

A frame is its size. A generator (the storage, or a stream) is a file of frames and a
reading position; `keep` marks a frame that was read and did not fit. `Pump` is the
loop of `bytesWritten`, in one step: generators are asked in turn after `idx`, frames
that do not fit are kept, the first that fits is handed to the socket and ends the
loop, a stream over its bandwidth asks for the timer. `bufferSize` is the room,
`inflight` what the socket has not reported. `Close` and `Connect` leave the
dispatcher alone, as in the code. The rate limit is a flag which reading a chunk may
set and time clears.

`MessageChannel` is the promise: two histories, what went in and what came out, with
the second always a prefix of the first. `MessageDispatcher!InOrder` and
`ProtocolHandler!Reassembled` are refinements of it.

### ProtocolHandler

The i-th byte of message m is the pair `<<m, i>>`, so lost, repeated and misplaced
bytes are seen. `Compose` cuts a message as `Compose` and `GetBinaryFrame` do; the
peer (external) writes the frames, interleaved in any way; any number of bytes arrives
at a time; `ParseFrame` is one turn of the loop of `Parse`, with one action per branch.
`Decrypted` writes the frame's TLS records to `bioIn` and reads the one record
`SSL_pending` reports. A consecutive frame without a first one is Lua's concatenation
with nil, `pc = "error"`.

### RemoteHMI

Threads: main (script, then destructor), listener (polls `receive`), the one RPC worker
of the server, and the io threads as one chain of handlers. A call goes through
`rpcs` to the worker and comes back as an answer, or times out, after which it is
still executed and its answer dropped. `CloseConnection` blocks the worker until the
io threads are idle (`Join`). `GetSession` is test and set in two steps when `Racy`
is TRUE. SDL (external) starts, stops, sends and answers close frames.

### MobileSession

Each Lua function is one action; the script, the heartbeat timer, the end of a step and
the messages of SDL interleave. The state is that of the session object (`sessionId`,
`hashCode`, `correlationId`, `isSecuredSession`), of its security (`ssl`,
`encryptedServices`, `mobileSecurities`), of its heartbeat monitor, and `pool`, the
expectations the functions made. `startEvents` are the handlers `Start` leaves on the
connection, unlisted and never removed: `RaiseStartEvent` names no session, so any of them
may get the event, and its field `by` remembers whose event it was. An expectation matches by the id its session has when
the message comes, and of several matching ones any is called (`Deliver`); `Act` is what
its actions do. They run before the expectation gets its status, so
`status == FAILED` in them sees an earlier timeout or a surplus answer only.
`Expire` and `EndStep` are what the executor of `TestBase` does to these expectations.

SDL (external) answers in order, gives ids, and makes one handshake of two messages per
session. `Faults` says what may go wrong beyond that: refusals of services (`nack`) and of
the registration (`reject`), a step that ends without
the answer, ids given again, session objects used twice or after their stop, and a
secure service started between the end of a handshake and its acknowledgement. A run
names its faults; `seen` records those that happened.

### RemoteCall, RemoteFiles and RemoteApps

`RemoteCall` has what both users of RemoteClient share. The script waits for one call;
the server has a queue and a worker in the middle of a `job`. A call that times out stays
with the server and is executed (`Forsaken`), its response dropped. When the server dies
the client is `lost`: rpclib does not connect again and every further call is
NO_CONNECTION. A time-out happens only behind a call that takes its 10 s, or without a
server.

In `RemoteFiles` a file is a sequence of blocks: `o` of the original configuration, `e`
and `n` of the script's edits, `s` of SDL's log, `junk` for what `malloc` gave. Functions
of `UtilsManager` are cut where somebody else could see or interrupt them: a copy is
written in part and the rest at the destructor's flush (`Streams`, `StreamCloses`),
`FileRestore` deletes the backup in between, `GetFileContent` measures, reads and
measures again. The script's operations are those of SDL.lua with all their calls;
`guarded` says that it edits only after a backup, which is what SDL.lua is used for. The
folder is the certificates folder: a file, and a link to it. `Faults` names what may go
wrong, `seen` what did; a behaviour has at most `MaxFaults` kinds.

In `RemoteApps` all processes are SDL. A process boots with one thread, runs with
several, closes and ends; a child of the server stays a zombie until its
`thread_monitor_app` has waited. `/proc` is read entry by entry. `since` and `told`
are histories: the stage when the call began, and whether it was signalled in the call.
`HmiCall` is the worker being busy with the HMI connection (`RemoteHMI`).

### QtLua

`stack` says who runs: Lua code that is being loaded or a handler, a Qt loop
(`app.exec`, or the one inside `web_socket_open`), or a handler that never returns.
`posted` is Qt's queue, of which a round takes what is there when it begins (`batch`).
`meta` is what `qt.connect` keeps: slots by index and receiver, connections, and the
registry of Lua, in which receivers stay for good. `held` is what the script's own tables
refer to; an object neither held nor reachable from the registry may be deleted by the
garbage collector at any moment Lua runs (`Collect`), with its connections and queued
events. The script is any sequence of the framework's uses: a TCP connection as
`tcp_mobile_adapter.lua` makes it, RunAfter, a heartbeat timer, a WebSocket, `quit`,
errors, and letting go of its objects. `TestBase` and `MobileSession` take from here
that queued signals are handled once, and that timers run.

## 3. Runs

| run | result | shows |
|---|---|---|
| `TestBase_expectations` | pass | `VerdictSound`: a printed success had every expectation within its bounds, no failed `ValidIf`, and every `Times(0)` watched to the end of its wait, except one whose own action is still running (`Acting`, section 5); `FailureCharged`: a failed expectation stays failed and listed until it is charged to the run; `HandlersCollected`, `UnresolvedRegistered`: pools and list agree, but for a handler unpinned after its step |
| `TestBase_steps` | pass | `StepLedger`: one step at a time, in order, one verdict each; `ExitHonest`: the exit code agrees with the verdicts; `CriticalStops` with ExitOnCrash set; `Terminates`: every step ends, at the latest when its expectations time out, unless one is `Orphaned`, its handler replaced by that of another expectation on the same event object |
| `MessageDispatcher_channel` | pass | `RoomKept`, `InOrder`, `StoppedStays`, and `EverythingSent`: every message and every stream is sent (`AllSent`, `StreamDrained`) |
| `ProtocolHandler_parse` | pass | `Reassembled`: Parse inverts Compose; `ParserSound`: `Intact` and `NoLuaError` when sessions lose their security between frames, and `AllDelivered`, nothing is left behind |
| `RemoteHMI_faults` | pass | `NoDuplicates` (`TypeOK` and `OnceEach`), `LostMeansGone`, `DestroyReturns` under reconnects, timeouts, a stopping SDL, a dying server and the race |
| `RemoteHMI_delivery` | pass | every message of either side arrives on one connection to an SDL that stays up, wherever threads switch, unless `GetSession` has `Replaced` the session: `Delivery` (`AllReceived`, `AllWritten`) |
| `RemoteHMI_stop` | violation | a reconnect while the io thread is connecting blocks the only worker for ever |
| `MobileSession_services` | pass | one session with plain and secure services, handshakes, heartbeats, a refused registration, a timeout and calls after the stop: `SecureMeansReady`, `Agreement` with SDL, `RaisedMeansAnswered` (StartEvent only after SDL answered the registration), `NoBeatAfterStop` |
| `MobileSession_pair` | pass | two sessions coming up at once: `Starts` (each comes up, though either may take the other's answer, and its StartEvent reaches a handler, not always its own) and `AnswersHeartbeat` across steps |
| `RemoteFiles_calls` | pass | `BackupKept` (`OriginalKept`, `RestoreTrue`): the configuration survives aborted runs; `ResultsTrue` (`CopyTrue`, `FolderDeleteTold`): a fetched file is the file, a folder reported deleted is gone; `OperationEnds`: nothing the server does hangs the script |
| `RemoteApps_processes` | pass | `OneSDL`: ATF starts no second SDL; `AnswersTrue` (`StopTold`, `StatusTold`): what the server answers is true of the processes; `Reaped`: no zombie stays |
| `QtLua_loop` | pass | `NothingLost` (`Lossless`, `CalledOnce`, `TimersRun`): signals and their data arrive exactly once, in order, and the garbage collector takes no timer that runs; `FailureKept`: no failure exits with 0; `QuitEnds`; `Served` (`RunAfterFires`, `DataHandled`) |

Bounds. Two steps are needed for anything that leaks from one step to the next, and
two expectations for anything between expectations; `MaxOcc = 2` goes one beyond
`Times(1)`, and `MaxDepth = 2` nests one event in another. `TestBase_expectations` has the functions that touch
expectations (`Pin`, `Unpin`, `Start`, raising events, `FailTestCase`) and `Times(0)`;
`TestBase_steps` has those that touch SDL and the exit code, and two expectation objects
of two classes, one of them with a shared event object, so that an expectation can lose
its handler to the other. All of it at once has too many states. The dispatcher has a storage and two streams, a window of 2 bytes and
frames of 1 and 2, so that frames both fit and wait; one reconnection. The protocol
instance has frames of 2 payload bytes and `MaxInfo = 1`, so that frame numbers wrap
in a message of three consecutive frames; at most 3 frames are on the wire, which
still allows every interleaving. The remote instance has two messages each way, two
connects, one stop of SDL and a backlog of 2 calls: with the call of the other thread
there can be abandoned calls before and behind it. `MobileSession_services` has one
session, the RPC service and a stream, each of them plain and secure, and one start and
one stop; a session makes the same call once per step, one timeout happens, and
messages nobody asked for are sent while fewer than `MaxWire = 2` are in transit.
`MobileSession_pair` has two sessions and two ids, so that answers can be swapped.
`RemoteFiles_calls` has two runs and three operations: a backup, an edit and what the
next run makes of them; `MaxPiece = MaxInt = 1` makes a log of two blocks both longer than a
piece and longer than an int tells; any two kinds of faults may meet, each as often as it
likes except a shrinking log and a writer in the folder, which happen once.
`RemoteApps_processes` has two process ids and two starts, so that there can be a second
SDL and an id can be used again after a zombie was waited for; two runs, three operations, any two
kinds of faults. `QtLua_loop` has one RunAfter, one heartbeat, one connection, two bytes
of SDL with reads of one (so one signal needs several reads), two attempts to open the
WebSocket, and five operations in any order, in the script and in handlers.

Fairness. `TestBase`: the Qt loop serves every timer and queued signal that stays
pending (strong, because other handlers run in between), handlers return, time
passes (weak: nothing keeps an expectation from ageing). `MessageDispatcher`: the operating system takes the bytes, timers fire, time
passes. `MobileSession`: the Qt loop delivers what came in and SDL answers what it got.
`RemoteHMI`: threads are scheduled, RPC calls time out, SDL answers a close.
`RemoteFiles` and `RemoteApps`: the script's thread, the worker and the waiting threads go
on, calls time out; a slow command need not end, nor a dead server be started again.
`QtLua`: functions of the script return, the loop handles what is posted, timers fire;
the garbage collector and the other end of a socket need do nothing.
Nothing else is assumed of messages, of SDL being there, or of the script.

Deadlock is checked for `TestBase`. The other models may rest: when nothing is sent,
nothing is left to do.

## 4. Proofs

Checked by TLAPS for every value of the constants (any number of steps, expectations,
streams, processes, files and calls, any sizes, nesting and sets of faults), from the
ASSUMEs of the modules only. Every inductive invariant was first checked with TLC on the
instance of a run.

`TestBaseProofs`. `TypeCorrect` needs, beside `TypeOK`, that `next()` is pending only
while a step or the end of the script is due (`NextDue`), or `index` could leave its range. `LedgerInv`
strengthens `StepLedger` and `ExitHonest` by: until somebody calls quit the result of
the run mirrors the verdicts printed so far (`TotalMirrors`), no Lua code runs after
`finishTestCaseRun` has (`Finished`), and a failed critical step has called quit (`CriticalQuits`,
under ExitOnCrash). `QuietSteps` says that only five actions touch the ledger; each
has its step. Results: `LedgerKept`, `ExitCodeHonest`, `CriticalStopsRun`.

`VerdictCorrect` is the central result: success is printed
only for satisfied expectations. The difficulty is that statuses are computed by
`validateAll` and read by `CheckStatus` later, with actions in between. The invariant
`VerdictInv` says that SUCCESS implies the lower bound (`LowMet`), that what has no
status is registered or failed (`Registered`), that a `Times(0)` expectation past its delay has
its "Wait" (`WaitKept`, `WaitLow`), and that a status lags behind the occurrences only
between the start of the handler's action and the next `validateAll` (`Fresh`). A
`CheckStatus` in that gap comes from `FailTestCase` or from an event nobody waits for; the
handler is then in `acting`, and such handlers are what `VerdictSound` excepts. It holds when no event
object is shared and `checkAllValidations` is off (`ASSUME Singletons = {}, ~CheckAll`);
both hypotheses are needed: section 5 says why.
`RegisteredKept` follows from the same invariant.
`HandlersCorrect` and `FailureChargedCorrect` hold for every script, with `Unpin` at any
moment, and every configuration.
Their invariant `Upkeep` says that an expectation object is made once: what is listed has
been made (`ListMade`), and a "Wait" is made only when the delay of its expectation is set
up (`WaitAfter`, `WaitPlain`), so that nothing ever writes over a failure.

`MessageDispatcherProofs`. The inductive invariant is `TypeOK`, `RoomKept`, "never
closed means open", and for every generator that what was sent is exactly the part of
its file before the reading position, less the kept frame (`Prefixed`). The lemma
`PumpEffect` says what one pass of the loop does to all generators at once; each
action is then a few lines. Results: `DispatcherTypes`, `RoomAlwaysKept`, and
`DispatcherIsChannel`, the refinement of `MessageChannel`. `StoppedStaysCorrect` adds
`Mapping`: a stream that the round robin serves is the one its file names, and is served in
one place. It is proved for streams that share no file (`OwnFiles`): the second
`StartStreaming` of a file takes over its entry of `mapped`, and `StopStreaming` then
leaves the first stream running.

`ProtocolHandlerProofs`. `ParserSoundCorrect` and `ParserIsChannel`, for any messages, frame
size and interleaving, any division of the stream into pieces, and sessions that lose their
security at any moment. The proof follows each message through four counters (`Flow`): frames of it
sent (`q`) and parsed (`p`), messages whose last frame was parsed (`n`), and results before the
first one that failed to decrypt (`c`). `Sending` says that the queue and the wire hold the frames after
them, in order; `Collecting` that what `frames_` has of a message is exactly the content of
its first `p` frames, or the empty data of a frame that could not be decrypted; `Returning` and `Ordering` that results
correspond one to one to the messages completed on the wire. That `Parse` cuts the stream where `Compose` did needs
the sum of the frames' lengths (`Arrived`): the bytes in the buffer and those still to come add up to
the frames on the wire. The hypothesis `Fits` says that an encrypted frame is at most one
TLS record; section 5 says what happens to longer ones.

`RemoteHMIProofs`. `NoDuplicatesCorrect` and `LostMeansGoneCorrect`, with any number of
messages, reconnects and abandoned calls. A message is at any moment in one place:
still to be sent, in a call, in the broker's list, in a socket or at its end; the invariant says so for
each direction (`Unsent`, `WrittenOnce` with `Gone`, `EmittedOnce`), and needs that a
thread has one call under way (`OneCall`), that a close is the last thing a client asks
for (`CloseLast`) and that an answered `open` leaves an open endpoint as long as the
server lives (`EndpointOpen`, `NotLost`).

`RemoteAppsProofs`. Every step is, for the call under way, one of a few kinds (`CallStep`) and
for the processes one of a few others (`ProcStep`); the parts of the invariant are kept
kind by kind. `TypeCorrect` needs which calls are awaited and by whom (`Awaited`,
`Settled`). `OneSDLCorrect` rests on `OneStart`: unless somebody started an SDL by hand or a single thread was
seen, an `app_start` that is asked for, queued or executed - also one that timed out - is
alone and follows a scan that found no SDL. `AnswersCorrect` rests
on `ScanTrue`, what the part of `/proc` that was read says about the processes that
were there all the time, and on `AnswerKept`, which carries it from the server's answer to
the script's result.

`RemoteFilesProofs`. Every step is of one of some twenty kinds (a call is made, arrives,
times out, is answered; a function of `UtilsManager` begins, reads, writes, closes,
ends; the server dies; nothing of this happens), and each part of the invariant is kept kind by kind.
`BackupKeptCorrect` rests on `Kept`: unless an exception of `OriginalKept` happened, a
backup is never taken of an edited file, because the call that restores a leftover comes
first (`RestoreFirst`, `BackupNext`, `WritesLast`), edits come after a backup (`Guarded`)
and a restore has the original in hand before it deletes the backup (`Restoring`,
`Restored`). `ResultsCorrect` rests on `CopyKept`, where unless the log shrinks the
copy and each piece on its way are that part of the file which the offset says, also when the offset and the
length wrap around at an int; and on `TreeKept` and `FolderTold` for the folder. It uses
that a piece fits in an int (`MaxPiece <= MaxInt`; the code has 1 MB) and that the names
in the folder are different.

`MobileSessionProofs`. A session knows SDL only by the order of what comes back, so the
invariants are about what is in transit. Every step is of one of nine kinds (`Step`: a
session speaks, `Start`, `Stop`, the answer to `Start` arrives, SDL answers, refuses, ends a
session or service, gives an id, sends a heartbeat), which `NextSteps` establishes action
by action together with the types; each part of an invariant is then kept kind by kind.
`TypeCorrect` holds with every fault; it needs finitely many streams, since SDL acknowledges
all waiting services at once. `NoBeatAfterStopCorrect` rests on `Orderly`: no two sessions
share an id, what is sent comes from the owner of its id, SDL has the session as long as
something but a handshake is under way for it, and the answer with a new id comes once, to
a session that has none. `RaisedMeansAnsweredCorrect` rests on `Registering`: the
registration is answered, pointless (the session has ended) or on its way, ahead of every
encrypted request whose response could be taken for its own; it assumes only that no id is given twice. `SecureMeansReadyCorrect` adds `Securing` to
`Orderly`: SDL's side of the handshake is never ahead of the session's, acknowledgements
of secure services are in transit only to sessions that are ready, and ahead of the
acknowledgement of their end. The hypotheses on `Faults` are needed. After a refusal (`nack`) a session may have
the id 0 like another; `reuse` gives one id to two
sessions; with `restart` or `stopped` the refusal of a start that came after the end of a session
may be taken by another session that is starting, and then two have one id; for `overlap` see section 5.
`Orderly` with `Securing` was checked completely for two sessions (1,824,672 states) and for one with a
stream, `Registering` on the instance of `MobileSession_services` (1,626,234 states).
`AnswersHeartbeatCorrect` needs `Armed` beside `Orderly`: a session whose monitor is on, was
confirmed, or waits for that, still has the pinned expectation of heartbeats. `NextListens`
says that every step keeps it, whichever of stopping the heartbeat, starting it again and
the end of a step comes between; `Orderly` then says that no other session's expectation
takes the message.
`AgreementCorrect` adds `Concord`. The property is about a moment when nothing is in transit,
so the invariant says what holds at every other moment: `Agreeing`, that SDL's secure services
are what the session will hold (`WillHold`) once it has got the acknowledgements in
transit, in their order. That each of those has its effect when it arrives needs the
expectations: there is one for each request (`Single`), and it has no status while the request is
on its way, waits at SDL for the handshake or is answered (`Pending`), which in turn needs that a
request is at one of these places, once (`OnceAsked`, `OnceGranted`, `OncePlaced`); and
nothing is secure without a session (`Blank`). An expectation that expired breaks this, so
after a timeout only `Blank` and `Single` are claimed, as `Agreement` claims nothing then.
`overlap` is allowed. `Concord` was checked before it was proved, for one session with a
stream, `timeout` and `overlap` (5,898,089 states) and for two sessions with `overlap`
(1,697,522 states).

`QtLuaProofs`. `FailureKeptCorrect` rests on the shape of the stack (`Framed`): main runs
the script or `app.exec` at the bottom and only handlers and loops of `web_socket_open` above it, so
that no return of a handler ends the program; and on `Charged`: from the first failure on
the code of quit is nonzero, also when handlers that were due call quit again.
`TimersRunCorrect` is the part of `NothingLost` about timers: the garbage collector stops
none that runs, because something the script cannot forget refers to it (`Referred`).
`TypeCorrect` and `NothingLostCorrect` add the invariant `Runtime`. Its part `Plumbing` says
that every receiver the registry keeps has its slots and exactly one connection of each kind
that goes to it (`Wired`: a second connection of one kind would double calls, a missing one
lose them); that what is kept lives, and which objects come together (`Owned`, `Sockets`,
`TimersLive`). From it follows `CollectedIs`: the collector can take nothing but a heartbeat
that was never started, so it removes no event and no connection. Its part `Traffic` says that
events are for receivers that are kept (`Queued`), and counts: bytes (`Lossless`) and calls by
the slots the receivers should have (`Counted`); `CalledIs` shows that the index in an event
finds the same function. `FlattenPieces` says that reads of any size take all
there is, in order. The parts of `Runtime` were checked as invariants on the instance
of `QtLua_loop` before they were proved (205,239 states).

Only model-checked: all liveness, which TLAPS does not prove here. Every invariant and every
action property of a passing run is stated by a theorem.

The library's induction rules take an operator as a parameter, which the installed provers
cannot instantiate. Where a recursive function is needed (`StreamBytes`, `Picked`, `InTransit`,
`FlattenSeq`), that it exists with the value in question and is unique is shown by the least
place where it would fail (`WFMin`, `LeastPlace`) or by carrying the partial results in the
invariant. `QtLua` selects from sequences with `Picked`, since the provers
know nothing of `SelectSeq`.

## 5. Behaviour of the code worth knowing

The violation run `RemoteHMI_stop` is listed as a finding with the sentence of the code it
contradicts. Modelling also met the following, which the models contain and the
passing properties are stated around:

* With ExitOnCrash off, `CheckStatus` queues `next()` after a failed critical step
  (`testbase.lua:240`), though line 122 says that it stops the tests. `CriticalStops` is
  checked, and proved, with ExitOnCrash on.
* StartEvent is raised though SDL refused the registration: the tests for FAILED run before
  the status is set (`mobile_session_impl.lua:264` and `345`; fault `reject`). The comment on
  `Start` (line 332) promises "Expectation for session is started and app is registered";
  `RaisedMeansAnswered` says answered, which is what is true.
* StartEvent names no session and its handlers are unlisted and never removed
  (`mobile_session_impl.lua:335-352`): of two sessions that start on one connection, or one
  after the other, the event of one may go to the handler of the other or to an old one.
  `Starts` says that it reaches a handler.
* The pinned heartbeat expectation of a stopped session answers for its id; when SDL gives the
  id to another session, the old monitor, which is off, may swallow its heartbeats
  (`heartbeat_monitor.lua:68`; fault `reuse`).
* Two expectations on one shared event object (`connectedEvent`, `disconnectedEvent`):
  `AddEvent` replaces the first handler (`event_dispatcher.lua:177`), the first
  expectation is never validated again and its step does not end. `TestBase_steps` has
  two expectations that may share one; `Terminates` excepts the case (`Orphaned`).
* `Unpin` tests a global `list` which is never set (`expectations.lua:64-68`), so it only
  clears the flag. When the step of the expectation is over, its handler is neither pinned
  nor listed and nothing removes it (`released` in `HandlersCollected`).
* An event nobody handles skips `validateAll` and runs `CheckStatus`
  (`event_dispatcher.lua:150-168`). When the action of a second, surplus occurrence raises
  one, the status is still SUCCESS and the step may be printed as passed (`Acting` in
  `VerdictSound`).
* With `checkAllValidations` on, a failed `ValidIf` is looked at only when the
  occurrences equal the upper bound (`expectations.lua:102`), so an expectation with
  `Times(Between(1, 2))` may end as SUCCESS after a single, failed one. The runs have the default.
* A crash that `CheckStatus` notices while the step is not complete is forgotten: it
  lives in a local variable and the pid file is removed (`testbase.lua:189`).
* A frame larger than `FRAME_SIZE` of the default protocol version never fits and
  blocks what is behind it (`message_dispatcher.lua:195`); sessions of a higher version
  make such frames, and so does encryption, which lengthens a frame after its size was
  checked (`protocol_handler.lua:333`). `AllSent` is checked for frames that fit.
* `Close` loses room that `Connect` does not restore (`file_connection.lua:102`).
  `AllSent` and `StreamDrained` are about connections that stay open.
* Streaming a file twice and stopping it once leaves the first stream running
  (`file_connection.lua:56`). `StoppedStays` is checked for different files.
* A frame with more than one TLS record (16 KB) is decrypted to its first record
  (`security_manager.lua:105`); `Intact` is checked for frames of one record.
* In remote mode the first message after the WebSocket opens overtakes the queued
  ones (`message_broker.cpp:467`); messages emitted by the two client threads may
  change places (`hmi_adapter_client.cc:97`); a message taken by a `Send` that fails
  is dropped (`message_broker.cpp:469`). `OnceEach` is what remains true.
* `GetSession` tests and sets `session_` without a lock (`message_broker.cpp:251`) and
  may replace the session `OnResolve` has just made by one that is not connected; then
  nothing is delivered until the next connect: the exception `Replaced` of `Delivery`.
* `isSecuredSession` is never reset (`mobile_session_impl.lua:218`): a session object
  that is started again after its stop takes itself for secured, registers no security
  and expects no handshake (fault `restart`, outside of the passing runs).
* `prepareToHandshake` replaces a finished `ssl` (`security_manager.lua:38`) when a second
  secure service is started before the acknowledgement of the first (fault `overlap`);
  no handshake will finish the new one.
* `DoOnce` removes itself from the list `Action` is iterating over (`expectations.lua:78`):
  an action added after it is skipped once and the loop calls nil at its end.
  `ExpectationsList:Remove` (line 202) called twice for one expectation removes another.
  `connectionLost` tests and clears its flag on two threads (`hmi_adapter_client.cc:128`), so
  `disconnected` may be emitted twice. None of these is stated as a property.
* Remote files. `backup` takes a time-out of its first call for "no backup there" and
  replaces the original by what an aborted run wrote (`SDL.lua:240`; `unknown` in `seen`).
  `FileRestore` deletes the backup before the copy is flushed, and also when the copy failed
  (`utils_manager.cc:513`; `torn`, `disk`). A disk that is full at the destructor's flush is
  reported as SUCCESS. Backing up a file that is not there makes an empty backup, and
  restoring an empty file (`missing`). A log that shrinks while it is fetched is sent as
  uninitialised memory until the offset no longer fits in an int (`shrink`); for the same reason
  files of 2 GB cannot be fetched. `FolderDelete` fails on a link whose target it has
  deleted itself (`dangling`). A command killed by a signal counts as SUCCESS.
  `HMICapCache.restore` restores the file of AppInfo (`SDL.lua:612`), and `CreateFile` cannot succeed,
  since IsFileExists returns its answer twice (`remote_file_utils.lua:87`).
* Remote processes. An SDL with a single thread, booting or nearly gone, is "crashed" to
  `CheckAppStatus` and IDLE to ATF, and StartSDL starts another (`idle`). StopApp's SUCCESS
  means signalled, not ended. If one process may not be signalled, the second round
  sends SIGKILL to those that are still closing (`utils_manager.cc:455`). An id may be used
  again between the scan and the signal.
* Runtime. `tcp_socket_read` on a closed socket pushes nothing and so returns its argument; the
  loop of `readyRead` in `tcp_mobile_adapter.lua` waits for an empty string and never ends
  when a connection is closed with a readyRead in the queue (`stuck`; excepted in
  `QuitEnds`). Receivers are kept in the registry for good, so a forgotten connection lives
  on; RunAfter's timers are never taken out of their table, since the slot is called with its receiver.
  `quit(0)` would clear the code of an earlier failure; nothing calls it, and the model has
  `quit()` and nonzero codes. An error after `quit()` while the script is loaded exits with the code given to quit.
  A handler that is in the round still runs after quit. A WebSocket whose peer never answers
  keeps `web_socket_open` in its loop beyond its time limit.

## 6. Not modelled

Reports, logging, configuration, console: formatting and I/O. Schema validation and
loading the API's XML: tables read from files and a comparison of trees; planned as
operators (section 7). Qt, Lua, OpenSSL, rpclib, Boost.Beast, the operating system and
SDL Core: external, modelled from how this code uses them. `lua_openssl.cc` passes
calls on to OpenSSL; what of it matters to ATF (records, pending bytes, the handshake) is
in `ProtocolHandler` and `MobileSession`, the life time of its objects is not. The
WebSocket mobile adapter, whose `bytesWritten` also counts framing bytes: the model is the
TCP adapter. TcpServer and signals from Lua to C++ slots, which the framework does not use.
Local mode of SDL control: shell scripts. The HMI connection, which adds ids and JSON to
messages. QNX variants. Handlers that a script puts in place of ATF's own functions.

## 7. Plan

The executor, the transport, the protocol, the sessions, the remote HMI, the remote
utilities and the runtime are modelled. What is left, in order:

1. Proofs: no lost wake-up in `MessageDispatcher` (nothing pending and something unsent is
   impossible on an open connection), as the safety core of `AllSent`.
2. Expectation details: lists of actions with `DoOnce`, removal by index, `Sequence`; the
   map from correlation ids to function names, and the HMI's request ids.
3. Schema validation as operators against a reference definition of conformance.
