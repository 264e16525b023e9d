----------------------------- MODULE RemoteApps -----------------------------
(***************************************************************************)
(* SDL as a process of another machine.  A script of ATF uses StartSDL,    *)
(* StopSDL, ForceStopSDL and WaitForSDLStart (SDL.lua), which make calls   *)
(* through remote_application_utils.lua; the worker of the server serves   *)
(* them with the application functions of UtilsManager (utils_manager.cc), *)
(* which look for processes by name in /proc, one entry at a time.  A      *)
(* thread per started application waits for its end.                       *)
(*                                                                         *)
(* All processes here are of the one application config.SDL; SDL (external)*)
(* gets threads as it boots, loses them as it closes, and may die.         *)
(***************************************************************************)
EXTENDS RemoteCall, FiniteSets

CONSTANTS
  MaxPid,     \* process ids are 1..MaxPid, in the order of /proc
  Faults,     \* what may go wrong: see Oddities
  MaxFaults,  \* bound: kinds of faults in one behaviour
  MaxStarts,  \* bound: processes that are started
  MaxRuns,    \* bound: runs of ATF
  MaxOps      \* bound: operations of the script

(* "atf" ATF dies, "server" the server dies, "busy" the worker is held by a*)
(* call of the HMI connection for longer than a call waits, "foreign" SDL  *)
(* is also started by hand, as another user, "nothread" pthread_create     *)
(* fails, "crash" SDL dies by itself.                                      *)
Oddities == {"atf", "server", "busy", "foreign", "nothread", "crash"}

ASSUME AppsAssumption ==
  /\ {MaxPid, MaxFaults, MaxStarts, MaxRuns, MaxOps} \subseteq Nat
  /\ Faults \subseteq Oddities

VARIABLES
  proc,      \* the processes, by id
  monitored, \* ids for which a thread_monitor_app waits
  script,    \* the operation the script is in, and its place
  last,      \* the last operation that ended, and what the server told it
  seen,      \* history: what went wrong
  nRuns, nOps, nStarts

vars == <<callVars, proc, monitored, script, last, seen, nRuns, nOps, nStarts>>
scriptVars == <<script, last, nRuns, nOps>>

Pids == 1..MaxPid

May(fault) ==
  fault \in Faults /\ Cardinality((seen \cap Oddities) \cup {fault}) <= MaxFaults

(* stage: free; boot, run, close (on the way out), late (with one thread   *)
(* left), zombie.  child: started by the server; ours: the server may send *)
(* it signals; told: it got one in this call; since: its stage when the    *)
(* call began.                                                             *)
Stages == {"free", "boot", "run", "close", "late", "zombie"}
NoProcess ==
  [stage |-> "free", child |-> FALSE, ours |-> TRUE, told |-> FALSE, since |-> "free"]
Started(ours) == [NoProcess EXCEPT !.stage = "boot", !.child = ours, !.ours = ours]
Alive(p) == proc[p].stage \notin {"free", "zombie"}
Free == {p \in Pids : proc[p].stage = "free"}

NoScript == [op |-> "none", pc |-> "idle"]
NoLast == [op |-> "none", num |-> SUCCESS, text |-> <<>>]

(* stat_app_codes; the Lua side takes CRASHED for IDLE.                    *)
RUNNING == <<"1">>
NOT_RUNNING == <<"0">>
CRASHED == <<"-1">>

AppSignature ==
  [rpc \in {"app_start", "app_stop", "app_check_status"} |->
     IF rpc = "app_start" THEN <<"STRING", "STRING">> ELSE <<"STRING">>]

-----------------------------------------------------------------------------
(* The script                                                              *)

restOfScript == <<proc, monitored, nStarts, seen>>

RunBegins ==
  /\ script = NoScript
  /\ nRuns < MaxRuns
  /\ Connect
  /\ script' = [op |-> "connect", pc |-> "last"]
  /\ nRuns' = nRuns + 1
  /\ UNCHANGED <<restOfScript, last, nOps>>

CallApp(rpc) == Call(rpc, AppSignature[rpc], <<>>)

Begin(op, pc, rpc) ==
  /\ script = NoScript
  /\ client # "none"
  /\ nOps < MaxOps
  /\ script' = [op |-> op, pc |-> pc]
  /\ nOps' = nOps + 1
  /\ last' = NoLast
  /\ CallApp(rpc)
  /\ UNCHANGED <<client, server, job, restOfScript, nRuns>>

(* StartSDL and StopSDL begin with CheckStatusSDL.  WaitForSDLStart is the *)
(* CheckAppStatus of its function raise_event, which RUN_AFTER calls again *)
(* and again: the script may repeat it.  StartSDL also looks at a file of  *)
(* SDL (RemoteFiles) before app_start; that takes no more than time.       *)
StartSDL == Begin("start", "status", "app_check_status")
StopSDL == Begin("stop", "status", "app_check_status")
WaitForSDLStart == Begin("wait", "last", "app_check_status")
ForceStopSDL == Begin("force", "last", "app_stop")

At(pc) == script.pc = pc /\ call.state = "answered"

Ends ==
  /\ script' = NoScript
  /\ last' = [op |-> script.op, num |-> call.num, text |-> call.text]
  /\ call' = NoCall
  /\ UNCHANGED rpcs

Goes(rpc) == script' = [script EXCEPT !.pc = "last"] /\ CallApp(rpc) /\ UNCHANGED last

LastReturns ==
  /\ At("last")
  /\ Ends
  /\ UNCHANGED <<client, server, job, restOfScript, nRuns, nOps>>

(* Mutant: StartSDL looks at the status only to report it.                 *)
StatusReturnsStart ==
  /\ At("status")
  /\ CASE call.num # SUCCESS -> Ends
       [] call.num = SUCCESS /\ script.op = "start" -> Goes("app_start")
       [] call.num = SUCCESS /\ script.op = "stop" /\ call.text # NOT_RUNNING -> Goes("app_stop")
       [] OTHER -> Ends
  /\ UNCHANGED <<client, server, job, restOfScript, nRuns, nOps>>

(* CheckStatusSDL returns; without a status it is a Lua error.  SDL is     *)
(* started unless it is RUNNING, and stopped if it is RUNNING or IDLE.     *)
StatusReturns ==
  /\ At("status")
  /\ CASE call.num # SUCCESS -> Ends
       [] call.num = SUCCESS /\ script.op = "start" /\ call.text # RUNNING -> Goes("app_start")
       [] call.num = SUCCESS /\ script.op = "stop" /\ call.text # NOT_RUNNING -> Goes("app_stop")
       [] OTHER -> Ends
  /\ seen' = IF script.op = "start" /\ call.num = SUCCESS /\ call.text = CRASHED
             THEN seen \cup {"idle"} ELSE seen
  /\ UNCHANGED <<client, server, job, proc, monitored, nStarts, nRuns, nOps>>

CallTimesOut ==
  /\ Timeout(job.rpc = "hmi")
  /\ UNCHANGED <<restOfScript, scriptVars>>

(* The run ends, after the last step or at any moment.                     *)
RunEnds ==
  /\ client # "none"
  /\ script = NoScript \/ May("atf")
  /\ Disconnect
  /\ script' = NoScript
  /\ last' = NoLast
  /\ seen' = IF script = NoScript THEN seen ELSE seen \cup {"atf"}
  /\ UNCHANGED <<proc, monitored, nStarts, nRuns, nOps>>
-----------------------------------------------------------------------------
(* UtilsManager: applications                                              *)

idleVars == <<client, server, scriptVars>>

(* The lambdas in Bind check the parameters; the Lua functions send the    *)
(* right ones.                                                             *)
Serves(rpc) == Takes /\ Taken.rpc = rpc /\ Taken.types = AppSignature[rpc]
InStep(rpcSet, step) == job.rpc \in rpcSet /\ job.step = step
CodeOf(ok) == IF ok THEN SUCCESS ELSE FAILED

(* StartApp: posix_spawn.                                                  *)
AppSpawns ==
  /\ Serves("app_start")
  /\ \/ /\ Respond(Taken, FAILED, <<>>)
        /\ UNCHANGED <<proc, nStarts>>
     \/ \E p \in Free :
          /\ nStarts < MaxStarts
          /\ nStarts' = nStarts + 1
          /\ proc' = [proc EXCEPT ![p] = Started(TRUE)]
          /\ job' = [rpc |-> Taken.rpc, waiting |-> Taken.waiting, step |-> "spawned", pid |-> p]
          /\ UNCHANGED call
  /\ UNCHANGED <<idleVars, monitored, seen>>

(* Mutant: an application that has already ended gets no thread.           *)
AppWatchedAlive ==
  /\ InStep({"app_start"}, "spawned")
  /\ monitored' = IF Alive(job.pid) THEN monitored \cup {job.pid} ELSE monitored
  /\ Respond(job, CodeOf(Alive(job.pid)), <<>>)
  /\ UNCHANGED <<idleVars, rpcs, proc, nStarts, seen>>

(* StartApp goes on: kill(pid, 0) finds the process, dead or alive, since  *)
(* nobody has waited for it, and the thread that waits is started.         *)
AppWatched ==
  /\ InStep({"app_start"}, "spawned")
  /\ \/ monitored' = monitored \cup {job.pid} /\ UNCHANGED seen
     \/ /\ May("nothread")
        /\ seen' = seen \cup {"nothread"}
        /\ UNCHANGED monitored
  /\ Respond(job, CodeOf(proc[job.pid].stage # "free"), <<>>)
  /\ UNCHANGED <<idleVars, rpcs, proc, nStarts>>

(* Mutant: the thread waits for the id again.                              *)
MonitorStays(p) ==
  /\ p \in monitored
  /\ proc[p].stage = "zombie"
  /\ proc' = [proc EXCEPT ![p] = NoProcess]
  /\ UNCHANGED <<callVars, scriptVars, monitored, seen, nStarts>>

(* thread_monitor_app: waitpid returns.                                    *)
Monitor(p) ==
  /\ p \in monitored
  /\ proc[p].stage = "zombie"
  /\ proc' = [proc EXCEPT ![p] = NoProcess]
  /\ monitored' = monitored \ {p}
  /\ UNCHANGED <<callVars, scriptVars, seen, nStarts>>

(* StopApp and CheckAppStatus begin: GetAppPids opens /proc.               *)
ProcOpens ==
  /\ \E rpc \in {"app_stop", "app_check_status"} : Serves(rpc)
  /\ job' = [rpc |-> Taken.rpc, waiting |-> Taken.waiting, step |-> "scan",
              next |-> 1, found |-> <<>>, sum |-> 0, ok |-> TRUE]
  /\ proc' = [p \in Pids |-> [proc[p] EXCEPT !.told = FALSE, !.since = proc[p].stage]]
  /\ UNCHANGED <<idleVars, call, monitored, nStarts, seen>>

(* GetAppPids reads an entry; GetAppStatus finds the name of the           *)
(* application in cmdline, which a zombie does not have.                   *)
ProcReads ==
  /\ job.rpc \in {"app_stop", "app_check_status"} /\ job.step = "scan"
  /\ job.next <= MaxPid
  /\ job' = [job EXCEPT !.next = @ + 1,
                        !.found = IF Alive(job.next) THEN Append(@, job.next) ELSE @]
  /\ UNCHANGED <<idleVars, call, rpcs, proc, monitored, nStarts, seen>>

ProcEnds ==
  /\ job.rpc \in {"app_stop", "app_check_status"} /\ job.step = "scan"
  /\ job.next > MaxPid
  /\ job' = [job EXCEPT !.step = IF job.rpc = "app_stop" THEN "kill" ELSE "count",
                        !.next = 1]
  /\ UNCHANGED <<idleVars, call, rpcs, proc, monitored, nStarts, seen>>

(* What is left of a process that ends.                                    *)
Ended(p) == IF proc[p].child THEN [proc[p] EXCEPT !.stage = "zombie"] ELSE NoProcess

(* A signal to process p: SIGTERM makes SDL close, SIGKILL ends it.        *)
AppExists(p) == proc[p].stage # "free"
MayKill(p) == AppExists(p) /\ proc[p].ours
Signalled(p, sig) ==
  IF ~Alive(p) THEN proc[p]
  ELSE IF sig = "SIGKILL" THEN Ended(p)
  ELSE [proc[p] EXCEPT !.told = TRUE, !.stage = IF @ \in {"boot", "run"} THEN "close" ELSE @]

(* Mutant: a process that could not be signalled counts as stopped.        *)
KilledTrusts(p) == TRUE

(* The return value of KillApp: a process that does not exist is as good   *)
(* as stopped.                                                             *)
Killed(p) == MayKill(p) \/ ~AppExists(p)

Pid == job.found[job.next]
HasPid == job.next <= Len(job.found)

(* StopApp: a round of signals.  In the second, SIGKILL, a process that is *)
(* gone is left alone.                                                     *)
StopKills(sig) ==
  /\ InStep({"app_stop"}, IF sig = "SIGTERM" THEN "kill" ELSE "kill9")
  /\ HasPid
  /\ proc' = IF MayKill(Pid) THEN [proc EXCEPT ![Pid] = Signalled(Pid, sig)] ELSE proc
  /\ job' = [job EXCEPT !.next = @ + 1, !.ok = @ /\ Killed(Pid)]
  /\ UNCHANGED <<idleVars, call, rpcs, monitored, nStarts, seen>>

StopEnds ==
  /\ job.rpc = "app_stop" /\ job.step \in {"kill", "kill9"}
  /\ ~HasPid
  /\ IF job.step = "kill" /\ ~job.ok
     THEN /\ job' = [job EXCEPT !.step = "kill9", !.next = 1, !.ok = TRUE]
          /\ UNCHANGED call
     ELSE Respond(job, CodeOf(job.ok), <<>>)
  /\ UNCHANGED <<idleVars, rpcs, proc, monitored, nStarts, seen>>

(* The entries of /proc/<pid>/task.                                        *)
Threads(p) == CASE proc[p].stage = "free" -> 0
                [] proc[p].stage \in {"run", "close"} -> 2
                [] OTHER -> 1

(* CheckAppStatus: the threads of the processes found are counted.         *)
StatusCounts ==
  /\ InStep({"app_check_status"}, "count")
  /\ HasPid
  /\ job' = [job EXCEPT !.next = @ + 1, !.sum = @ + Threads(Pid)]
  /\ UNCHANGED <<idleVars, call, rpcs, proc, monitored, nStarts, seen>>

StatusOf ==
  CASE job.found = <<>> -> NOT_RUNNING
    [] job.found # <<>> /\ job.sum > 1 -> RUNNING
    [] OTHER -> CRASHED

StatusEnds ==
  /\ InStep({"app_check_status"}, "count")
  /\ ~HasPid
  /\ Respond(job, SUCCESS, StatusOf)
  /\ UNCHANGED <<idleVars, rpcs, proc, monitored, nStarts, seen>>

-----------------------------------------------------------------------------
(* What happens beside the calls                                           *)

Greets == ClientConnected /\ UNCHANGED <<restOfScript, scriptVars>>

(* The worker serves the HMI connection for a long time: RemoteHMI.        *)
HmiCall ==
  /\ May("busy") /\ "busy" \notin seen
  /\ server /\ job = NoJob
  /\ job' = [NoJob EXCEPT !.rpc = "hmi"]
  /\ seen' = seen \cup {"busy"}
  /\ UNCHANGED <<idleVars, call, rpcs, proc, monitored, nStarts>>

HmiCallEnds ==
  /\ job.rpc = "hmi"
  /\ job' = NoJob
  /\ UNCHANGED <<idleVars, call, rpcs, restOfScript>>

(* SDL (external) gets its threads, or loses them.                         *)
Moves(p, from, to) ==
  /\ proc[p].stage = from
  /\ proc' = [proc EXCEPT ![p].stage = to]
  /\ UNCHANGED <<callVars, scriptVars, monitored, seen, nStarts>>

Exits(p) ==
  /\ Alive(p)
  /\ \/ proc[p].stage \in {"close", "late"} /\ UNCHANGED seen
     \/ proc[p].stage \in {"boot", "run"} /\ May("crash") /\ seen' = seen \cup {"crash"}
  /\ proc' = [proc EXCEPT ![p] = Ended(p)]
  /\ UNCHANGED <<callVars, scriptVars, monitored, nStarts>>

ByHand ==
  /\ May("foreign")
  /\ nStarts < MaxStarts
  /\ nStarts' = nStarts + 1
  /\ \E p \in Free : proc' = [proc EXCEPT ![p] = Started(FALSE)]
  /\ seen' = seen \cup {"foreign"}
  /\ UNCHANGED <<callVars, scriptVars, monitored>>

(* The server dies: its threads are gone, and init takes its children.     *)
Dies ==
  /\ May("server")
  /\ ServerDies
  /\ seen' = seen \cup {"server"}
  /\ monitored' = {}
  /\ proc' = [p \in Pids |-> IF proc[p].stage = "zombie" THEN NoProcess
                             ELSE [proc[p] EXCEPT !.child = FALSE]]
  /\ UNCHANGED <<scriptVars, nStarts>>

IsStartedAgain == ServerStarts /\ UNCHANGED <<restOfScript, scriptVars>>

-----------------------------------------------------------------------------
Init ==
  /\ CallInit
  /\ proc = [p \in Pids |-> NoProcess]
  /\ monitored = {} /\ script = NoScript /\ last = NoLast /\ seen = {}
  /\ nRuns = 0 /\ nOps = 0 /\ nStarts = 0

Returns == LastReturns \/ StatusReturns

Worker ==
  \/ Greets \/ AppSpawns \/ AppWatched
  \/ ProcOpens \/ ProcReads \/ ProcEnds
  \/ \E sig \in {"SIGTERM", "SIGKILL"} : StopKills(sig)
  \/ StopEnds \/ StatusCounts \/ StatusEnds

Next ==
  \/ RunBegins \/ RunEnds \/ StartSDL \/ StopSDL \/ WaitForSDLStart \/ ForceStopSDL
  \/ Returns \/ CallTimesOut \/ Worker
  \/ HmiCall \/ HmiCallEnds \/ ByHand \/ Dies \/ IsStartedAgain
  \/ \E p \in Pids : Monitor(p) \/ Exits(p) \/ Moves(p, "boot", "run") \/ Moves(p, "close", "late")

(* The thread of ATF, the worker and the threads that wait go on, and the  *)
(* 10 s of a call pass.                                                    *)
Fairness ==
  /\ WF_vars(Returns) /\ WF_vars(CallTimesOut) /\ WF_vars(Worker)
  /\ \A p \in Pids : WF_vars(Monitor(p))

Spec == Init /\ [][Next]_vars /\ Fairness

-----------------------------------------------------------------------------
(* Properties                                                              *)

TypeOK ==
  /\ client \in {"none", "connected", "lost"} /\ server \in BOOLEAN
  /\ \A p \in Pids : proc[p].stage \in Stages /\ proc[p].since \in Stages
  /\ monitored \subseteq {p \in Pids : proc[p].child}
  /\ (script = NoScript) <=> (call.state = "idle")

(* StartSDL (SDL.lua:642) asks for the status so as not to start a second  *)
(* SDL: two run at once only if one was started by hand, or if StartSDL    *)
(* met an SDL with a single thread, on its way in or out, which            *)
(* CheckAppStatus (utils_manager.cc:465) calls CRASHED.  That holds when   *)
(* ATF is aborted and run again, and when app_start is executed after it   *)
(* has timed out.                                                          *)
OneSDL ==
  (\E p, q \in Pids : p # q /\ Alive(p) /\ Alive(q)) => seen \cap {"idle", "foreign"} # {}

(* StopApp (utils_manager.cc:437): after SUCCESS every process of the      *)
(* application that was there when the call began has got a signal or is   *)
(* gone, although processes come and go while /proc is read.               *)
StopTold ==
  (last.op \in {"stop", "force"} /\ last.num = SUCCESS /\ last.text = <<>>)
    => \A p \in Pids : Alive(p) /\ proc[p].since \notin {"free", "zombie"} => proc[p].told

(* CheckAppStatus (utils_manager.cc:465): an SDL that was there during the *)
(* whole call is not reported NOT_RUNNING, and one that was running during *)
(* the whole call is reported RUNNING.                                     *)
StatusTold ==
  (last.op = "wait" /\ last.num = SUCCESS) =>
    \A p \in Pids : Alive(p) /\ proc[p].since \notin {"free", "zombie"} =>
      /\ last.text # NOT_RUNNING
      /\ proc[p].since = "run" /\ proc[p].stage = "run" => last.text = RUNNING

(* thread_monitor_app (utils_manager.cc:40): an SDL that the server has    *)
(* started does not stay a zombie, even if it dies before its thread runs. *)
Reaped ==
  \A p \in Pids :
    (proc[p].stage = "zombie") ~> (proc[p].stage # "zombie" \/ "nothread" \in seen)

(* What StopApp and CheckAppStatus answer is true of the processes, which  *)
(* come and go while /proc is read.                                        *)
AnswersTrue == StopTold /\ StatusTold
=============================================================================
