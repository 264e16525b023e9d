--------------------------- MODULE RemoteAppsProofs ---------------------------
(***************************************************************************)
(* Proofs about RemoteApps, for any number of process ids, starts, runs of *)
(* ATF and operations, and any set of faults.                              *)
(*                                                                         *)
(* The worker takes the calls in order, so the call a script waits for is  *)
(* behind every call that an earlier operation or run has left at the      *)
(* server (Awaited), and a good answer means that none of those is left    *)
(* (Settled).  Hence nothing starts SDL between the status that StartSDL   *)
(* got and its app_start, which is at the front of the queue while no SDL  *)
(* runs (OneStart); and what a scan of /proc answered stays true as long as*)
(* the script has no other answer (ScanTrue, AnswerKept).                  *)
(***************************************************************************)
EXTENDS RemoteApps, TLAPS

Rpcs == {"client_connected", "app_start", "app_stop", "app_check_status"}
AppRequest ==
  [rpc : Rpcs, types : {<<>>, <<"STRING">>, <<"STRING", "STRING">>}, arg : {<<>>},
   waiting : BOOLEAN]
IdleJobs == [rpc : {"none", "hmi"}, waiting : {FALSE}]
StartJobs == [rpc : {"app_start"}, waiting : BOOLEAN, step : {"spawned"}, pid : Pids]
Places == Nat \ {0}
ScanJobs ==
  [rpc : {"app_stop", "app_check_status"}, waiting : BOOLEAN,
   step : {"scan", "kill", "kill9", "count"}, next : Places, found : Seq(Pids), sum : Nat,
   ok : BOOLEAN]
Process ==
  [stage : Stages, child : BOOLEAN, ours : BOOLEAN, told : BOOLEAN, since : Stages]
Scripts ==
  [op : {"none", "connect", "start", "stop", "wait", "force"},
   pc : {"idle", "status", "last"}]

CallTypes ==
  /\ rpcs \in Seq(AppRequest)
  /\ job \in IdleJobs \cup StartJobs \cup ScanJobs
ScriptTypes ==
  /\ script \in Scripts
  /\ script.op = "none" => script = NoScript
  /\ script.pc = "status" => script.op \in {"start", "stop"}
  /\ (script = NoScript) <=> (call.state = "idle")
ProcTypes ==
  /\ proc \in [Pids -> Process]
  /\ monitored \subseteq Pids
ClientTypes == client \in {"none", "connected", "lost"} /\ server \in BOOLEAN

(* Only a child is waited for, and the one that app_start has spawned is   *)
(* not yet.  SDL does not boot again.                                      *)
Children ==
  /\ \A p \in Pids : proc[p].since = "run" => proc[p].stage # "boot"
  /\ \A p \in Pids : proc[p].stage = "free" => ~proc[p].child
  /\ \A p \in monitored : proc[p].child
  /\ job.rpc = "app_start" => proc[job.pid].child /\ job.pid \notin monitored

(* The call the script waits for is the last one, and the one its place    *)
(* asks for.                                                               *)
Expected(rpc) ==
  \/ script.op = "connect" /\ script.pc = "last" /\ rpc = "client_connected"
  \/ script.pc = "status" /\ rpc = "app_check_status"
  \/ script.op = "start" /\ script.pc = "last" /\ rpc = "app_start"
  \/ script.op = "wait" /\ script.pc = "last" /\ rpc = "app_check_status"
  \/ script.op \in {"stop", "force"} /\ script.pc = "last" /\ rpc = "app_stop"
Awaited ==
  /\ \A i \in 1..Len(rpcs) : rpcs[i].waiting =>
       /\ call.state = "waiting"
       /\ i = Len(rpcs)
       /\ \A c \in Rpcs : c = rpcs[i].rpc => Expected(c)
  /\ job.waiting => /\ call.state = "waiting"
                    /\ rpcs = <<>>
                    /\ \A c \in Rpcs : c = job.rpc => Expected(c)

(* After a good answer the server has no call left.                        *)
Still == rpcs = <<>> /\ job.rpc \in {"none", "hmi"}
Settled ==
  /\ call.state = "answered" /\ call.num = SUCCESS => Still
  /\ last.op # "none" /\ last.num = SUCCESS => Still
  /\ script # NoScript \/ client = "none" => last = NoLast
  /\ client = "none" => script = NoScript

(* A scan of /proc: a process that was there when it began and is still    *)
(* there is ahead of it or was found; among those found, the ones not told *)
(* to stop, or not counted, are ahead.                                     *)
InCall(p) == Alive(p) /\ proc[p].since \notin {"free", "zombie"}
Untold(p) == InCall(p) /\ ~proc[p].told
Runs(p) == proc[p].since = "run" /\ proc[p].stage = "run"
Found(p) == \E i \in 1..Len(job.found) : job.found[i] = p
Ahead(p) == \E i \in job.next..Len(job.found) : job.found[i] = p
ScanTrue ==
  job.rpc \in {"app_stop", "app_check_status"} =>
    /\ job.step \in (IF job.rpc = "app_stop" THEN {"scan", "kill", "kill9"} ELSE {"scan", "count"})
    /\ \A p \in Pids : InCall(p) => (job.step = "scan" /\ p >= job.next) \/ Found(p)
    /\ job.step \in {"kill", "kill9"} /\ job.ok => \A p \in Pids : Untold(p) => Ahead(p)
    /\ job.step = "count" => \A p \in Pids : Runs(p) => Ahead(p) \/ job.sum > 1

(* What an answer says stays true.                                         *)
NoneInCall == \A p \in Pids : ~InCall(p)
NoneRuns == \A p \in Pids : ~Runs(p)
AllTold == \A p \in Pids : ~Untold(p)
Reports(text) ==
  /\ text \in {RUNNING, CRASHED, NOT_RUNNING}
  /\ text = NOT_RUNNING => NoneInCall
  /\ text # RUNNING => NoneRuns
AnswerKept ==
  /\ call.state = "answered" /\ call.num = SUCCESS =>
       /\ script.pc = "status" \/ script.op = "wait" => Reports(call.text)
       /\ script.op \in {"stop", "force"} /\ script.pc = "last" => AllTold
  /\ last.num = SUCCESS =>
       /\ last.op = "wait" => Reports(last.text)
       /\ last.op \in {"stop", "force"} /\ last.text = <<>> => AllTold

(* One SDL at most; none while an app_start is at the server or StartSDL   *)
(* is about to make one.                                                   *)
Excused == seen \cap {"idle", "foreign"} # {}
Nobody == \A p \in Pids : ~Alive(p)
OneAlive == \A p, q \in Pids : Alive(p) /\ Alive(q) => p = q
StartFirst ==
  \A i \in 1..Len(rpcs) : rpcs[i].rpc = "app_start" =>
    i = 1 /\ job.rpc \in {"none", "hmi"} /\ Nobody
NoneSeen ==
  job.rpc = "app_check_status" /\ job.found = <<>> =>
    \A p \in Pids : Alive(p) => job.step = "scan" /\ p >= job.next
NoneReported ==
  /\ call.state = "answered" /\ call.num = SUCCESS
  /\ script.op = "start" /\ script.pc = "status" /\ call.text = NOT_RUNNING
  => Nobody
OneStart == ~Excused => OneAlive /\ StartFirst /\ NoneSeen /\ NoneReported

Inv ==
  /\ CallTypes /\ ScriptTypes /\ ProcTypes /\ ClientTypes
  /\ Children /\ Awaited /\ Settled /\ ScanTrue /\ AnswerKept /\ OneStart

-----------------------------------------------------------------------------
(* The calls and jobs.                                                     *)

(* Places in a sequence.                                                   *)
LEMMA PlaceFacts ==
  /\ 1 \in Places
  /\ \A n \in Places : n \in Nat /\ n >= 1 /\ n + 1 \in Places
  BY DEF Places

(* A call is a request.                                                    *)
LEMMA RequestType ==
  ASSUME NEW rpc \in Rpcs
  PROVE  /\ rpc # "client_connected" =>
              Request(rpc, AppSignature[rpc], <<>>) \in AppRequest
         /\ Request("client_connected", <<>>, <<>>) \in AppRequest
<1>1. rpc # "client_connected" => AppSignature[rpc] \in {<<"STRING">>, <<"STRING", "STRING">>}
  BY DEF AppSignature, Rpcs
<1>. QED
  BY <1>1 DEF Request, AppRequest, Rpcs

(* The kinds of jobs.                                                      *)
LEMMA Shapes ==
  ASSUME CallTypes
  PROVE  /\ NoJob \in IdleJobs /\ NoJob.rpc = "none" /\ ~NoJob.waiting
         /\ job.rpc \in {"none", "hmi"} => job \in IdleJobs /\ job.waiting = FALSE
         /\ job.rpc = "app_start" => job \in StartJobs
         /\ job.rpc \in {"app_stop", "app_check_status"} => job \in ScanJobs
         /\ job.rpc \in {"none", "hmi", "app_start", "app_stop", "app_check_status"}
         /\ job.waiting \in BOOLEAN
<1>1. NoJob \in IdleJobs /\ NoJob.rpc = "none" /\ ~NoJob.waiting
  BY DEF NoJob, IdleJobs
<1>2. CASE job \in IdleJobs
  BY <1>1, <1>2 DEF IdleJobs
<1>3. CASE job \in StartJobs
  BY <1>1, <1>3 DEF StartJobs
<1>4. CASE job \in ScanJobs
  BY <1>1, <1>4 DEF ScanJobs
<1>. QED
  BY <1>2, <1>3, <1>4 DEF CallTypes

(* The queue after a call was made.                                        *)
LEMMA AfterCall ==
  ASSUME CallTypes, NEW r \in AppRequest, rpcs' = Append(rpcs, r)
  PROVE  /\ rpcs' \in Seq(AppRequest)
         /\ Len(rpcs) \in Nat /\ Len(rpcs') = Len(rpcs) + 1
         /\ rpcs'[Len(rpcs) + 1] = r
         /\ \A i \in 1..Len(rpcs) : rpcs'[i] = rpcs[i]
         /\ \A i \in 1..Len(rpcs') : i \in 1..Len(rpcs) \/ i = Len(rpcs) + 1
<1>1. /\ rpcs' \in Seq(AppRequest)
      /\ Len(rpcs) \in Nat /\ Len(rpcs') = Len(rpcs) + 1
      /\ rpcs'[Len(rpcs) + 1] = r
      /\ \A i \in 1..Len(rpcs) : rpcs'[i] = rpcs[i]
  BY DEF CallTypes
<1>. QED
  BY <1>1

(* The queue after the worker has taken a call.                            *)
LEMMA AfterTakes ==
  ASSUME CallTypes, Takes
  PROVE  /\ Len(rpcs) = 1 => rpcs' = <<>>
         /\ Taken = rpcs[1] /\ Taken \in AppRequest
         /\ server /\ job = NoJob /\ job.rpc = "none" /\ job.waiting = FALSE
         /\ 1 \in 1..Len(rpcs) /\ Len(rpcs) \in Nat
         /\ rpcs' \in Seq(AppRequest) /\ Len(rpcs') = Len(rpcs) - 1
         /\ \A i \in 1..Len(rpcs') :
              i \in Nat /\ i >= 1 /\ i + 1 \in 1..Len(rpcs) /\ rpcs'[i] = rpcs[i + 1]
<1>1. rpcs \in Seq(AppRequest) /\ rpcs # <<>> /\ rpcs' = Tail(rpcs)
  BY DEF Takes, CallTypes
<1>2. /\ Head(rpcs) = rpcs[1] /\ Head(rpcs) \in AppRequest
      /\ 1 \in 1..Len(rpcs) /\ Len(rpcs) \in Nat
      /\ rpcs' \in Seq(AppRequest) /\ Len(rpcs') = Len(rpcs) - 1
      /\ \A i \in 1..Len(rpcs') : rpcs'[i] = rpcs[i + 1]
  BY <1>1
<1>3. \A i \in 1..Len(rpcs') : i \in Nat /\ i >= 1 /\ i + 1 \in 1..Len(rpcs)
  BY <1>2
<1>4. server /\ job = NoJob
  BY DEF Takes
<1>5. job.rpc = "none" /\ job.waiting = FALSE
  BY <1>4 DEF NoJob
<1>6. ASSUME Len(rpcs) = 1
      PROVE  rpcs' = <<>>
  <2>1. Len(rpcs') = 0
    BY <1>2, <1>6
  <2>. QED
    BY <1>2, <2>1
<1>. QED
  BY <1>2, <1>3, <1>4, <1>5, <1>6 DEF Taken

(* Nobody waits for a call any more.                                       *)
Forsakes == rpcs' = AllForsaken(rpcs) /\ job' = Forsaken(job)

(* The calls stay with the server as they were.                            *)
LEMMA AfterForsakes ==
  ASSUME CallTypes, Forsakes
  PROVE  /\ rpcs' \in Seq(AppRequest) /\ Len(rpcs') = Len(rpcs)
         /\ \A i \in 1..Len(rpcs) : rpcs'[i].rpc = rpcs[i].rpc /\ rpcs'[i].waiting = FALSE
         /\ rpcs = <<>> => rpcs' = <<>>
         /\ job' \in IdleJobs \cup StartJobs \cup ScanJobs
         /\ job'.rpc = job.rpc /\ job'.waiting = FALSE
         /\ job.rpc = "app_start" => job'.pid = job.pid
         /\ job.rpc \in {"app_stop", "app_check_status"} =>
              /\ job'.step = job.step /\ job'.next = job.next /\ job'.found = job.found
              /\ job'.sum = job.sum /\ job'.ok = job.ok
<1>1. \A r \in AppRequest : /\ Forsaken(r) \in AppRequest
                            /\ Forsaken(r).rpc = r.rpc /\ Forsaken(r).waiting = FALSE
  BY DEF Forsaken, AppRequest
<1>2. /\ rpcs \in Seq(AppRequest) /\ Len(rpcs) \in Nat
      /\ rpcs' = [i \in 1..Len(rpcs) |-> Forsaken(rpcs[i])]
  BY DEF CallTypes, Forsakes, AllForsaken
<1>3. /\ rpcs' \in Seq(AppRequest) /\ Len(rpcs') = Len(rpcs)
      /\ \A i \in 1..Len(rpcs) : rpcs[i] \in AppRequest /\ rpcs'[i] = Forsaken(rpcs[i])
  BY <1>1, <1>2
<1>4. rpcs = <<>> => rpcs' = <<>>
  BY <1>3
<1>5. CASE job \in IdleJobs
  <2>1. Forsaken(job) \in IdleJobs /\ Forsaken(job).rpc = job.rpc /\ Forsaken(job).waiting = FALSE
    BY <1>5 DEF Forsaken, IdleJobs
  <2>2. job.rpc \in {"none", "hmi"}
    BY <1>5 DEF IdleJobs
  <2>. QED
    BY <1>1, <1>3, <1>4, <2>1, <2>2 DEF Forsakes
<1>6. CASE job \in StartJobs
  <2>1. /\ Forsaken(job) \in StartJobs
        /\ Forsaken(job).rpc = job.rpc /\ Forsaken(job).waiting = FALSE
        /\ Forsaken(job).pid = job.pid /\ job.rpc = "app_start"
    BY <1>6 DEF Forsaken, StartJobs
  <2>. QED
    BY <1>1, <1>3, <1>4, <2>1 DEF Forsakes
<1>7. CASE job \in ScanJobs
  <2>1. /\ Forsaken(job) \in ScanJobs
        /\ Forsaken(job).rpc = job.rpc /\ Forsaken(job).waiting = FALSE
        /\ job.rpc \in {"app_stop", "app_check_status"}
        /\ Forsaken(job).step = job.step /\ Forsaken(job).next = job.next
        /\ Forsaken(job).found = job.found /\ Forsaken(job).sum = job.sum
        /\ Forsaken(job).ok = job.ok
    BY <1>7 DEF Forsaken, ScanJobs
  <2>. QED
    BY <1>1, <1>3, <1>4, <2>1 DEF Forsakes
<1>. QED
  BY <1>5, <1>6, <1>7 DEF CallTypes

-----------------------------------------------------------------------------
(* What a step does to the calls, the script and its last answer.          *)

(* The script makes a call; app_start only after the status allowed it.    *)
Makes(rpc) ==
  /\ call.state # "waiting"
  /\ \/ /\ \E r \in AppRequest : r.rpc = rpc /\ r.waiting /\ rpcs' = Append(rpcs, r)
        /\ call'.state = "waiting"
     \/ UNCHANGED rpcs /\ call'.state = "answered" /\ call'.num # SUCCESS
  /\ script' \in Scripts /\ script'.op # "none"
  /\ script'.pc = "status" => script'.op \in {"start", "stop"}
  /\ Expected(rpc)'
  /\ last' = NoLast
  /\ client' = client \/ client' = "connected"
  /\ client' # "none"
  /\ UNCHANGED <<job, server>>
  /\ rpc = "app_start" =>
       /\ call.state = "answered" /\ call.num = SUCCESS
       /\ script.op = "start" /\ script.pc = "status"
       /\ call.text = NOT_RUNNING \/ "idle" \in seen'

(* An operation ends with the last answer.                                 *)
Finishes ==
  /\ call.state = "answered" /\ call'.state = "idle"
  /\ script # NoScript /\ script' = NoScript
  /\ last' = [op |-> script.op, num |-> call.num, text |-> call.text]
  /\ \/ script.pc = "last" \/ call.num # SUCCESS
     \/ script.op = "start" \/ call.text = NOT_RUNNING
  /\ UNCHANGED <<client, server, rpcs, job>>

(* A call times out, or a run of ATF ends.                                 *)
Leaves ==
  /\ Forsakes
  /\ UNCHANGED server
  /\ \/ /\ call.state = "waiting" /\ call'.state = "answered" /\ call'.num # SUCCESS
        /\ UNCHANGED <<client, script, last>>
     \/ /\ call'.state = "idle"
        /\ client' = "none" /\ script' = NoScript /\ last' = NoLast

(* The worker answers call r, begins a call, or goes on with one.          *)
scriptSide == <<client, server, script, last>>
Responds(r, num, text) ==
  /\ \/ Takes /\ r = Taken
     \/ r = job /\ job.rpc \notin {"none", "hmi"} /\ UNCHANGED rpcs
  /\ Respond(r, num, text)
  /\ r.rpc = "app_stop" => StopEnds /\ r = job
  /\ r.rpc = "app_check_status" => StatusEnds /\ r = job
  /\ UNCHANGED scriptSide
Begins ==
  /\ AppSpawns \/ ProcOpens
  /\ Takes
  /\ job' \in StartJobs \cup ScanJobs
  /\ job'.rpc = Taken.rpc /\ job'.waiting = Taken.waiting
  /\ UNCHANGED <<scriptSide, call>>
Works ==
  /\ \/ ProcReads \/ ProcEnds \/ StatusCounts \/ StopEnds
     \/ \E sig \in {"SIGTERM", "SIGKILL"} : StopKills(sig)
  /\ job \in ScanJobs /\ job' \in ScanJobs
  /\ job'.rpc = job.rpc /\ job'.waiting = job.waiting
  /\ UNCHANGED <<scriptSide, call, rpcs>>
Hmi ==
  /\ job.rpc \in {"none", "hmi"} /\ job' \in IdleJobs
  /\ UNCHANGED <<scriptSide, call, rpcs>>
Loses ==
  /\ rpcs' = <<>> /\ job' = NoJob
  /\ client' \in {client, "lost"} /\ (client' = "none" => client = "none")
  /\ server' = FALSE
  /\ UNCHANGED <<call, script, last>>
Beside == UNCHANGED <<client, script, last, call, rpcs, job>> /\ server' \in {server, TRUE}

CallStep ==
  \/ \E rpc \in Rpcs : Makes(rpc)
  \/ Finishes \/ Leaves \/ Begins \/ Works \/ Hmi \/ Loses \/ Beside
  \/ \E r \in AppRequest \cup StartJobs \cup ScanJobs, num \in {SUCCESS, FAILED},
        text \in {<<>>, RUNNING, NOT_RUNNING, CRASHED} : Responds(r, num, text)

(* The call of RemoteClient.                                               *)
LEMMA CallMakes ==
  ASSUME NEW rpc \in Rpcs, rpc # "client_connected", CallApp(rpc)
  PROVE  \/ /\ \E r \in AppRequest : r.rpc = rpc /\ r.waiting /\ rpcs' = Append(rpcs, r)
            /\ call'.state = "waiting"
         \/ UNCHANGED rpcs /\ call'.state = "answered" /\ call'.num # SUCCESS
<1>1. Request(rpc, AppSignature[rpc], <<>>) \in AppRequest
  BY RequestType
<1>2. /\ Request(rpc, AppSignature[rpc], <<>>).rpc = rpc
      /\ Request(rpc, AppSignature[rpc], <<>>).waiting
  BY DEF Request
<1>3. CASE /\ rpcs' = Append(rpcs, Request(rpc, AppSignature[rpc], <<>>))
           /\ call' = [NoCall EXCEPT !.state = "waiting"]
  BY <1>1, <1>2, <1>3 DEF NoCall
<1>4. CASE call' = Answered(NO_CONNECTION, <<>>) /\ UNCHANGED rpcs
  BY <1>4 DEF Answered, NO_CONNECTION, SUCCESS
<1>. QED
  BY <1>3, <1>4 DEF CallApp, Call

(* An operation begins.                                                    *)
LEMMA BeginMakes ==
  ASSUME ScriptTypes, NEW op \in {"start", "stop", "wait", "force"},
         NEW pc \in {"status", "last"}, NEW rpc \in Rpcs, Begin(op, pc, rpc),
         rpc \notin {"client_connected", "app_start"},
         pc = "status" => op \in {"start", "stop"} /\ rpc = "app_check_status",
         pc = "last" /\ op = "wait" => rpc = "app_check_status",
         pc = "last" => op \in {"wait", "force"},
         op = "force" => rpc = "app_stop"
  PROVE  Makes(rpc)
<1>1. /\ script = NoScript /\ client # "none" /\ script' = [op |-> op, pc |-> pc]
      /\ last' = NoLast /\ CallApp(rpc) /\ UNCHANGED <<client, server, job>>
  BY DEF Begin
<1>2. script' \in Scripts /\ script'.op = op /\ script'.pc = pc
  BY <1>1 DEF Scripts
<1>3. call.state # "waiting"
  BY <1>1 DEF ScriptTypes
<1>4. Expected(rpc)'
  BY <1>2 DEF Expected
<1>. QED
  BY <1>1, <1>2, <1>3, <1>4, CallMakes DEF Makes

(* The steps of a scan.                                                    *)
LEMMA ScanWorks ==
  ASSUME CallTypes, \/ ProcReads \/ ProcEnds \/ StatusCounts
                    \/ \E sig \in {"SIGTERM", "SIGKILL"} : StopKills(sig)
  PROVE  Works
<1>1. /\ job.rpc \in {"app_stop", "app_check_status"}
      /\ UNCHANGED <<scriptSide, call, rpcs>>
  BY DEF ProcReads, ProcEnds, StatusCounts, StopKills, InStep, idleVars, scriptVars, scriptSide
<1>2. /\ job \in ScanJobs /\ job.next \in Places /\ job.sum \in Nat /\ job.found \in Seq(Pids)
      /\ job.ok \in BOOLEAN
  BY <1>1, Shapes DEF ScanJobs
<1>3. /\ job.next + 1 \in Places
      /\ \A n \in Places, f \in Seq(Pids) : [job EXCEPT !.next = n, !.found = f] \in ScanJobs
      /\ \A n \in Places, m \in Nat : [job EXCEPT !.next = n, !.sum = m] \in ScanJobs
      /\ \A n \in Places, b \in BOOLEAN : [job EXCEPT !.next = n, !.ok = b] \in ScanJobs
  BY <1>2, PlaceFacts DEF ScanJobs
<1>4. CASE ProcReads
  <2>1. PICK found \in Seq(Pids) : job' = [job EXCEPT !.next = @ + 1, !.found = found]
    <3>1. job.next <= MaxPid /\ job' = [job EXCEPT !.next = @ + 1,
                        !.found = IF Alive(job.next) THEN Append(@, job.next) ELSE @]
      BY <1>4 DEF ProcReads
    <3>2. job.next \in Pids
      BY <1>2, <3>1, AppsAssumption DEF Pids, Places
    <3>3. Append(job.found, job.next) \in Seq(Pids)
      BY <1>2, <3>2
    <3>. QED
      BY <1>2, <3>1, <3>3
  <2>2. job' \in ScanJobs
    BY <1>3, <2>1
  <2>3. job'.rpc = job.rpc /\ job'.waiting = job.waiting
    BY <1>2, <2>1 DEF ScanJobs
  <2>. QED
    BY <1>1, <1>2, <2>2, <2>3 DEF Works
<1>5. CASE ProcEnds
  <2>1. job' \in ScanJobs /\ job'.rpc = job.rpc /\ job'.waiting = job.waiting
    BY <1>2, <1>5, PlaceFacts DEF ProcEnds, ScanJobs
  <2>. QED
    BY <1>1, <1>2, <2>1 DEF Works
<1>6. CASE StatusCounts
  <2>1. Threads(Pid) \in Nat
    BY DEF Threads
  <2>2. job' = [job EXCEPT !.next = @ + 1, !.sum = @ + Threads(Pid)]
    BY <1>6 DEF StatusCounts
  <2>3. job.sum + Threads(Pid) \in Nat
    BY <1>2, <2>1
  <2>4. job' \in ScanJobs
    BY <1>3, <2>2, <2>3
  <2>5. job'.rpc = job.rpc /\ job'.waiting = job.waiting
    BY <1>2, <2>2 DEF ScanJobs
  <2>. QED
    BY <1>1, <1>2, <2>4, <2>5 DEF Works
<1>7. CASE \E sig \in {"SIGTERM", "SIGKILL"} : StopKills(sig)
  <2>1. job' = [job EXCEPT !.next = @ + 1, !.ok = @ /\ Killed(Pid)]
    BY <1>7 DEF StopKills
  <2>2. (job.ok /\ Killed(Pid)) \in BOOLEAN
    BY <1>2
  <2>3. job' \in ScanJobs
    BY <1>3, <2>1, <2>2
  <2>4. job'.rpc = job.rpc /\ job'.waiting = job.waiting
    BY <1>2, <2>1 DEF ScanJobs
  <2>. QED
    BY <1>1, <1>2, <2>3, <2>4 DEF Works
<1>. QED
  BY <1>4, <1>5, <1>6, <1>7

(* Every step is one of these.                                             *)
LEMMA CallSteps ==
  ASSUME CallTypes, ScriptTypes, Settled, AnswerKept, Next
  PROVE  CallStep
<1>1. CASE RunBegins
  <2>1. /\ script = NoScript /\ client = "none" /\ client' = "connected"
        /\ rpcs' = Append(rpcs, Request("client_connected", <<>>, <<>>))
        /\ call' = [NoCall EXCEPT !.state = "waiting"]
        /\ script' = [op |-> "connect", pc |-> "last"]
        /\ UNCHANGED <<server, job, last>>
    BY <1>1 DEF RunBegins, Connect
  <2>2. /\ Request("client_connected", <<>>, <<>>) \in AppRequest
        /\ Request("client_connected", <<>>, <<>>).rpc = "client_connected"
        /\ Request("client_connected", <<>>, <<>>).waiting
    BY RequestType DEF Request, Rpcs
  <2>3. call.state # "waiting" /\ last' = NoLast /\ call'.state = "waiting"
    BY <2>1 DEF ScriptTypes, Settled, NoCall
  <2>4. script' \in Scripts /\ script'.op = "connect" /\ script'.pc = "last"
    BY <2>1 DEF Scripts
  <2>5. Expected("client_connected")'
    BY <2>4 DEF Expected
  <2>6. Makes("client_connected")
    BY <2>1, <2>2, <2>3, <2>4, <2>5 DEF Makes
  <2>. QED
    BY <2>6 DEF CallStep, Rpcs
<1>2. CASE StartSDL \/ StopSDL \/ WaitForSDLStart \/ ForceStopSDL
  <2>1. Makes("app_check_status") \/ Makes("app_stop")
    BY <1>2, BeginMakes DEF StartSDL, StopSDL, WaitForSDLStart, ForceStopSDL, Rpcs
  <2>. QED
    BY <2>1 DEF CallStep, Rpcs
<1>3. ASSUME Ends, UNCHANGED <<client, server, job>>, call.state = "answered",
             \/ script.pc = "last" \/ call.num # SUCCESS
             \/ script.op = "start" \/ call.text = NOT_RUNNING
      PROVE  CallStep
  <2>1. script # NoScript
    BY <1>3 DEF ScriptTypes
  <2>2. Finishes
    BY <1>3, <2>1 DEF Ends, NoCall, Finishes
  <2>. QED
    BY <2>2 DEF CallStep
<1>4. CASE LastReturns
  BY <1>3, <1>4 DEF LastReturns, At
<1>5. CASE StatusReturns
  <2>1. /\ script.pc = "status" /\ call.state = "answered" /\ UNCHANGED <<client, server, job>>
        /\ script \in Scripts /\ script.op \in {"start", "stop"} /\ script # NoScript
    BY <1>5 DEF StatusReturns, At, ScriptTypes
  <2>2. ASSUME NEW rpc \in {"app_start", "app_stop"}, Goes(rpc), call.num = SUCCESS,
               rpc = "app_start" <=> script.op = "start",
               rpc = "app_start" => call.text = NOT_RUNNING \/ "idle" \in seen'
        PROVE  Makes(rpc)
    <3>1. script' = [script EXCEPT !.pc = "last"] /\ CallApp(rpc) /\ UNCHANGED last
      BY <2>2 DEF Goes
    <3>2. script' \in Scripts /\ script'.op = script.op /\ script'.pc = "last"
      BY <2>1, <3>1 DEF Scripts
    <3>3. Expected(rpc)'
      BY <2>1, <2>2, <3>2 DEF Expected
    <3>4. client # "none" /\ last' = NoLast
      BY <2>1, <3>1 DEF Settled
    <3>5. rpc \in Rpcs /\ rpc # "client_connected"
      BY DEF Rpcs
    <3>. QED
      BY <2>1, <2>2, <3>1, <3>2, <3>3, <3>4, <3>5, CallMakes DEF Makes
  <2>3. CASE call.num # SUCCESS
    BY <1>3, <1>5, <2>1, <2>3 DEF StatusReturns
  <2>4. CASE call.num = SUCCESS /\ script.op = "start" /\ call.text # RUNNING
    <3>1. Goes("app_start")
      BY <1>5, <2>4 DEF StatusReturns
    <3>2. CASE call.text = NOT_RUNNING
      BY <2>2, <2>4, <3>1, <3>2 DEF CallStep, Rpcs
    <3>3. CASE call.text = CRASHED
      BY <1>5, <2>2, <2>4, <3>1, <3>3 DEF StatusReturns, CallStep, Rpcs
    <3>. QED
      BY <2>1, <2>4, <3>2, <3>3 DEF AnswerKept, Reports
  <2>5. CASE call.num = SUCCESS /\ script.op = "start" /\ call.text = RUNNING
    BY <1>3, <1>5, <2>1, <2>5 DEF StatusReturns
  <2>6. CASE call.num = SUCCESS /\ script.op = "stop" /\ call.text # NOT_RUNNING
    <3>1. Goes("app_stop")
      BY <1>5, <2>6 DEF StatusReturns
    <3>. QED
      BY <2>2, <2>6, <3>1 DEF CallStep, Rpcs
  <2>7. CASE call.num = SUCCESS /\ script.op = "stop" /\ call.text = NOT_RUNNING
    BY <1>3, <1>5, <2>1, <2>7 DEF StatusReturns
  <2>. QED
    BY <2>1, <2>3, <2>4, <2>5, <2>6, <2>7
<1>6. CASE CallTimesOut
  <2>1. Leaves
    BY <1>6 DEF CallTimesOut, Timeout, Answered, TIMEOUT_EXPIRED, SUCCESS, Forsakes, Leaves,
                scriptVars
  <2>. QED
    BY <2>1 DEF CallStep
<1>7. CASE RunEnds
  <2>1. Leaves
    BY <1>7 DEF RunEnds, Disconnect, NoCall, Forsakes, Leaves
  <2>. QED
    BY <2>1 DEF CallStep
<1>8. ASSUME NEW r \in AppRequest \cup StartJobs \cup ScanJobs, NEW num \in {SUCCESS, FAILED},
             NEW text \in {<<>>, RUNNING, NOT_RUNNING, CRASHED}, Respond(r, num, text),
             \/ Takes /\ r = Taken
             \/ r = job /\ job.rpc \notin {"none", "hmi"} /\ UNCHANGED rpcs,
             r.rpc = "app_stop" => StopEnds /\ r = job,
             r.rpc = "app_check_status" => StatusEnds /\ r = job,
             UNCHANGED scriptSide
      PROVE  CallStep
  BY <1>8 DEF CallStep, Responds
<1>9. CASE Greets
  <2>1. /\ Takes /\ Respond(Taken, SUCCESS, <<>>) /\ Taken.rpc = "client_connected"
        /\ UNCHANGED scriptSide
    BY <1>9 DEF Greets, ClientConnected, scriptVars, scriptSide
  <2>2. Taken \in AppRequest
    BY <2>1, AfterTakes
  <2>. QED
    BY <1>8, <2>1, <2>2
<1>10. CASE AppSpawns
  <2>1. Takes /\ Taken.rpc = "app_start" /\ UNCHANGED scriptSide
    BY <1>10 DEF AppSpawns, Serves, idleVars, scriptVars, scriptSide
  <2>2. Taken \in AppRequest
    BY <2>1, AfterTakes
  <2>3. CASE Respond(Taken, FAILED, <<>>)
    BY <1>8, <2>1, <2>2, <2>3
  <2>4. ASSUME NEW p \in Pids, UNCHANGED call,
               job' = [rpc |-> Taken.rpc, waiting |-> Taken.waiting, step |-> "spawned", pid |-> p]
        PROVE  Begins
    <3>1. Taken.waiting \in BOOLEAN
      BY <2>2 DEF AppRequest
    <3>2. job' \in StartJobs /\ job'.rpc = Taken.rpc /\ job'.waiting = Taken.waiting
      BY <2>1, <2>4, <3>1 DEF StartJobs
    <3>. QED
      BY <1>10, <2>1, <2>4, <3>2 DEF Begins
  <2>. QED
    BY <1>10, <2>3, <2>4 DEF AppSpawns, CallStep, Free
<1>11. CASE ProcOpens
  <2>1. /\ Takes /\ Taken.rpc \in {"app_stop", "app_check_status"} /\ UNCHANGED <<scriptSide, call>>
        /\ job' = [rpc |-> Taken.rpc, waiting |-> Taken.waiting, step |-> "scan",
                   next |-> 1, found |-> <<>>, sum |-> 0, ok |-> TRUE]
    BY <1>11 DEF ProcOpens, Serves, idleVars, scriptVars, scriptSide
  <2>2. Taken.waiting \in BOOLEAN
    BY <2>1, AfterTakes DEF AppRequest
  <2>3. <<>> \in Seq(Pids)
    OBVIOUS
  <2>4. job' \in ScanJobs /\ job'.rpc = Taken.rpc /\ job'.waiting = Taken.waiting
    BY <2>1, <2>2, <2>3, PlaceFacts DEF ScanJobs
  <2>5. Begins
    BY <1>11, <2>1, <2>4 DEF Begins
  <2>. QED
    BY <2>5 DEF CallStep
<1>12. CASE AppWatched
  <2>1. job.rpc = "app_start" /\ UNCHANGED <<scriptSide, rpcs>>
    BY <1>12 DEF AppWatched, InStep, idleVars, scriptVars, scriptSide
  <2>2. job \in StartJobs
    BY <2>1, Shapes
  <2>3. PICK num \in {SUCCESS, FAILED} : Respond(job, num, <<>>)
    BY <1>12 DEF AppWatched, CodeOf
  <2>. QED
    BY <1>8, <2>1, <2>2, <2>3
<1>13. CASE ProcReads \/ ProcEnds \/ StatusCounts \/ \E sig \in {"SIGTERM", "SIGKILL"} : StopKills(sig)
  <2>1. Works
    BY <1>13, ScanWorks
  <2>. QED
    BY <2>1 DEF CallStep
<1>14. CASE StopEnds
  <2>1. job.rpc = "app_stop" /\ UNCHANGED <<scriptSide, rpcs>>
    BY <1>14 DEF StopEnds, idleVars, scriptVars, scriptSide
  <2>2. job \in ScanJobs
    BY <2>1, Shapes
  <2>3. CASE Respond(job, CodeOf(job.ok), <<>>)
    <3>1. PICK num \in {SUCCESS, FAILED} : Respond(job, num, <<>>)
      BY <2>3 DEF CodeOf
    <3>. QED
      BY <1>8, <1>14, <2>1, <2>2, <3>1
  <2>4. CASE job' = [job EXCEPT !.step = "kill9", !.next = 1, !.ok = TRUE] /\ UNCHANGED call
    <3>1. job' \in ScanJobs /\ job'.rpc = job.rpc /\ job'.waiting = job.waiting
      BY <2>2, <2>4, PlaceFacts DEF ScanJobs
    <3>2. Works
      BY <1>14, <2>1, <2>2, <2>4, <3>1 DEF Works
    <3>. QED
      BY <3>2 DEF CallStep
  <2>. QED
    BY <1>14, <2>3, <2>4 DEF StopEnds
<1>15. CASE StatusEnds
  <2>1. job.rpc = "app_check_status" /\ UNCHANGED <<scriptSide, rpcs>>
    BY <1>15 DEF StatusEnds, InStep, idleVars, scriptVars, scriptSide
  <2>2. job \in ScanJobs
    BY <2>1, Shapes
  <2>3. PICK text \in {RUNNING, NOT_RUNNING, CRASHED} : Respond(job, SUCCESS, text)
    BY <1>15 DEF StatusEnds, StatusOf
  <2>. QED
    BY <1>8, <1>15, <2>1, <2>2, <2>3
<1>16. CASE HmiCall
  <2>1. job = NoJob /\ job' = [NoJob EXCEPT !.rpc = "hmi"] /\ UNCHANGED <<scriptSide, call, rpcs>>
    BY <1>16 DEF HmiCall, idleVars, scriptVars, scriptSide
  <2>2. Hmi
    BY <2>1 DEF Hmi, NoJob, IdleJobs
  <2>. QED
    BY <2>2 DEF CallStep
<1>17. CASE HmiCallEnds
  <2>1. job.rpc = "hmi" /\ job' = NoJob /\ UNCHANGED <<scriptSide, call, rpcs>>
    BY <1>17 DEF HmiCallEnds, idleVars, scriptVars, scriptSide
  <2>2. Hmi
    BY <2>1, Shapes DEF Hmi
  <2>. QED
    BY <2>2 DEF CallStep
<1>18. CASE Dies
  <2>1. Loses
    BY <1>18 DEF Dies, ServerDies, Connected, Loses, scriptVars
  <2>. QED
    BY <2>1 DEF CallStep
<1>19. CASE ByHand \/ IsStartedAgain
  <2>1. Beside
    BY <1>19 DEF ByHand, IsStartedAgain, ServerStarts, Beside, callVars, scriptVars
  <2>. QED
    BY <2>1 DEF CallStep
<1>20. ASSUME NEW p \in Pids, \/ Monitor(p) \/ Exits(p) \/ Moves(p, "boot", "run")
                              \/ Moves(p, "close", "late")
       PROVE  CallStep
  <2>1. Beside
    BY <1>20 DEF Monitor, Exits, Moves, Beside, callVars, scriptVars
  <2>. QED
    BY <2>1 DEF CallStep
<1>. QED
  BY <1>1, <1>2, <1>4, <1>5, <1>6, <1>7, <1>9, <1>10, <1>11, <1>12, <1>13, <1>14, <1>15, <1>16,
     <1>17, <1>18, <1>19, <1>20 DEF Next, Returns, Worker

-----------------------------------------------------------------------------
(* The calls and the script.                                               *)

(* Types of the calls.                                                     *)
LEMMA CallTypesKept ==
  ASSUME CallTypes, CallStep
  PROVE  CallTypes'
<1>1. ASSUME NEW rpc \in Rpcs, Makes(rpc)
      PROVE  CallTypes'
  BY <1>1, AfterCall DEF Makes, CallTypes
<1>2. CASE Finishes \/ Beside
  BY <1>2 DEF Finishes, Beside, CallTypes
<1>3. CASE Leaves
  BY <1>3, AfterForsakes DEF Leaves, CallTypes
<1>4. CASE Begins
  BY <1>4, AfterTakes DEF Begins, CallTypes
<1>5. CASE Works \/ Hmi
  BY <1>5 DEF Works, Hmi, CallTypes
<1>6. CASE Loses
  <2>1. <<>> \in Seq(AppRequest)
    OBVIOUS
  <2>2. rpcs' \in Seq(AppRequest) /\ job' \in IdleJobs
    BY <1>6, <2>1, Shapes DEF Loses
  <2>. QED
    BY <2>2 DEF CallTypes
<1>7. ASSUME NEW r, NEW num, NEW text, Responds(r, num, text)
      PROVE  CallTypes'
  BY <1>7, AfterTakes, Shapes DEF Responds, Respond, CallTypes
<1>. QED
  BY <1>1, <1>2, <1>3, <1>4, <1>5, <1>6, <1>7 DEF CallStep

(* A response goes to a call that is waited for.                           *)
LEMMA ResponseTo ==
  ASSUME CallTypes, Awaited, NEW r, NEW num, NEW text, Responds(r, num, text)
  PROVE  /\ r.waiting \in BOOLEAN
         /\ r.waiting => /\ call.state = "waiting" /\ call' = Answered(num, text)
                         /\ rpcs' = <<>>
                         /\ \A c \in Rpcs : c = r.rpc => Expected(c)
         /\ ~r.waiting => call' = call
         /\ job' = NoJob
         /\ rpcs # <<>> \/ job.rpc \notin {"none", "hmi"}
<1>1. CASE Takes /\ r = Taken
  <2>1. r = rpcs[1] /\ 1 \in 1..Len(rpcs) /\ rpcs' \in Seq(AppRequest)
        /\ Len(rpcs') = Len(rpcs) - 1 /\ Len(rpcs) \in Nat /\ r \in AppRequest
    BY <1>1, AfterTakes
  <2>2. r.waiting \in BOOLEAN
    BY <2>1 DEF AppRequest
  <2>3. r.waiting => /\ call.state = "waiting" /\ Len(rpcs) = 1
                     /\ \A c \in Rpcs : c = r.rpc => Expected(c)
    BY <2>1 DEF Awaited
  <2>4. r.waiting => rpcs' = <<>>
    BY <1>1, <2>3, AfterTakes
  <2>5. rpcs # <<>>
    BY <1>1 DEF Takes
  <2>. QED
    BY <2>2, <2>3, <2>4, <2>5 DEF Responds, Respond
<1>2. CASE r = job /\ job.rpc \notin {"none", "hmi"} /\ UNCHANGED rpcs
  <2>1. r.waiting \in BOOLEAN
    BY <1>2, Shapes
  <2>. QED
    BY <1>2, <2>1 DEF Responds, Respond, Awaited
<1>. QED
  BY <1>1, <1>2 DEF Responds

(* The state of the script and of its call.                                *)
LEMMA ScriptTypesKept ==
  ASSUME CallTypes, ScriptTypes, Awaited, CallStep
  PROVE  ScriptTypes'
<1>0. NoScript \in Scripts /\ NoScript.op = "none" /\ NoScript.pc # "status"
  BY DEF NoScript, Scripts
<1>1. ASSUME NEW rpc \in Rpcs, Makes(rpc)
      PROVE  ScriptTypes'
  BY <1>0, <1>1 DEF Makes, ScriptTypes
<1>2. CASE Finishes \/ Leaves
  BY <1>0, <1>2 DEF Finishes, Leaves, ScriptTypes
<1>3. CASE Begins \/ Works \/ Hmi \/ Loses \/ Beside
  BY <1>3 DEF Begins, Works, Hmi, Loses, Beside, scriptSide, ScriptTypes
<1>4. ASSUME NEW r, NEW num, NEW text, Responds(r, num, text)
      PROVE  ScriptTypes'
  <2>1. UNCHANGED script
    BY <1>4 DEF Responds, scriptSide
  <2>2. (call'.state = "idle") <=> (call.state = "idle")
    BY <1>4, ResponseTo DEF Answered
  <2>. QED
    BY <2>1, <2>2 DEF ScriptTypes
<1>. QED
  BY <1>1, <1>2, <1>3, <1>4 DEF CallStep

(* The client and the server.                                              *)
LEMMA ClientTypesKept ==
  ASSUME ClientTypes, CallStep
  PROVE  ClientTypes'
<1>1. \A rpc \in Rpcs : Makes(rpc) => ClientTypes'
  BY DEF Makes, ClientTypes
<1>2. \A r, num, text : Responds(r, num, text) => ClientTypes'
  BY DEF Responds, scriptSide, ClientTypes
<1>3. Finishes \/ Leaves \/ Begins \/ Works \/ Hmi => ClientTypes'
  BY DEF Finishes, Leaves, Begins, Works, Hmi, scriptSide, ClientTypes
<1>4. Loses \/ Beside => ClientTypes'
  BY DEF Loses, Beside, ClientTypes
<1>. QED
  BY <1>1, <1>2, <1>3, <1>4 DEF CallStep

(* The call the script waits for is the last one.                          *)
LEMMA AwaitedKept ==
  ASSUME CallTypes, ScriptTypes, Awaited, CallStep
  PROVE  Awaited'
<1>0. ~NoJob.waiting /\ job.waiting \in BOOLEAN
  BY Shapes
<1>1. ASSUME NEW rpc \in Rpcs, Makes(rpc)
      PROVE  Awaited'
  <2>1. ~job'.waiting /\ \A i \in 1..Len(rpcs) : ~rpcs[i].waiting
    BY <1>1 DEF Makes, Awaited
  <2>2. CASE UNCHANGED rpcs
    BY <2>1, <2>2 DEF Awaited
  <2>3. ASSUME NEW r \in AppRequest, r.rpc = rpc, rpcs' = Append(rpcs, r), call'.state = "waiting"
        PROVE  Awaited'
    <3>1. /\ Len(rpcs) \in Nat /\ Len(rpcs') = Len(rpcs) + 1
          /\ rpcs'[Len(rpcs) + 1] = r
          /\ \A i \in 1..Len(rpcs) : rpcs'[i] = rpcs[i]
          /\ \A i \in 1..Len(rpcs') : i \in 1..Len(rpcs) \/ i = Len(rpcs) + 1
      BY <2>3, AfterCall
    <3>2. \A c \in Rpcs : c = rpc => Expected(c)'
      BY <1>1 DEF Makes
    <3>3. ASSUME NEW i \in 1..Len(rpcs'), rpcs'[i].waiting
          PROVE  i = Len(rpcs') /\ rpcs'[i].rpc = rpc
      BY <2>1, <2>3, <3>1, <3>3
    <3>. QED
      BY <2>1, <2>3, <3>2, <3>3 DEF Awaited
  <2>. QED
    BY <1>1, <2>2, <2>3 DEF Makes
<1>2. CASE Finishes
  <2>1. ~job'.waiting /\ \A i \in 1..Len(rpcs') : ~rpcs'[i].waiting
    BY <1>2 DEF Finishes, Awaited
  <2>. QED
    BY <2>1 DEF Awaited
<1>3. CASE Leaves
  <2>1. job'.waiting = FALSE /\ \A i \in 1..Len(rpcs') : rpcs'[i].waiting = FALSE
    BY <1>3, AfterForsakes DEF Leaves
  <2>. QED
    BY <2>1 DEF Awaited
<1>4. CASE Begins
  <2>1. /\ Taken = rpcs[1] /\ 1 \in 1..Len(rpcs) /\ Len(rpcs) \in Nat
        /\ rpcs' \in Seq(AppRequest) /\ Len(rpcs') = Len(rpcs) - 1
        /\ \A i \in 1..Len(rpcs') :
             i \in Nat /\ i >= 1 /\ i + 1 \in 1..Len(rpcs) /\ rpcs'[i] = rpcs[i + 1]
    BY <1>4, AfterTakes DEF Begins
  <2>2. /\ job'.rpc = rpcs[1].rpc /\ job'.waiting = rpcs[1].waiting
        /\ UNCHANGED <<call, script>>
    BY <1>4, <2>1 DEF Begins, scriptSide
  <2>3. \A c \in Rpcs : Expected(c)' <=> Expected(c)
    BY <2>2 DEF Expected
  <2>4. job'.waiting => /\ call.state = "waiting" /\ Len(rpcs) = 1
                        /\ \A c \in Rpcs : c = job'.rpc => Expected(c)
    BY <2>1, <2>2 DEF Awaited
  <2>5. job'.waiting => rpcs' = <<>>
    BY <1>4, <2>4, AfterTakes DEF Begins
  <2>6. ASSUME NEW i \in 1..Len(rpcs'), rpcs'[i].waiting
        PROVE  /\ call.state = "waiting" /\ i = Len(rpcs')
               /\ \A c \in Rpcs : c = rpcs'[i].rpc => Expected(c)
    <3>1. i + 1 \in 1..Len(rpcs) /\ rpcs[i + 1].waiting
      BY <2>1, <2>6
    <3>2. call.state = "waiting" /\ i + 1 = Len(rpcs) /\ \A c \in Rpcs : c = rpcs[i + 1].rpc => Expected(c)
      BY <3>1 DEF Awaited
    <3>. QED
      BY <2>1, <3>2
  <2>. QED
    BY <2>2, <2>3, <2>4, <2>5, <2>6 DEF Awaited
<1>5. CASE Works
  <2>1. \A c \in Rpcs : Expected(c)' <=> Expected(c)
    BY <1>5 DEF Works, scriptSide, Expected
  <2>. QED
    BY <1>5, <2>1 DEF Works, Awaited
<1>6. CASE Hmi
  <2>1. \A c \in Rpcs : Expected(c)' <=> Expected(c)
    BY <1>6 DEF Hmi, scriptSide, Expected
  <2>2. ~job'.waiting
    BY <1>6 DEF Hmi, IdleJobs
  <2>. QED
    BY <1>6, <2>1, <2>2 DEF Hmi, Awaited
<1>7. CASE Loses
  <2>1. Len(rpcs') = 0 /\ ~job'.waiting
    BY <1>0, <1>7 DEF Loses
  <2>. QED
    BY <2>1 DEF Awaited
<1>8. CASE Beside
  <2>1. \A c \in Rpcs : Expected(c)' <=> Expected(c)
    BY <1>8 DEF Beside, Expected
  <2>. QED
    BY <1>8, <2>1 DEF Beside, Awaited
<1>9. ASSUME NEW r, NEW num, NEW text, Responds(r, num, text)
      PROVE  Awaited'
  <2>1. ~job'.waiting
    BY <1>0, <1>9, ResponseTo
  <2>2. CASE r.waiting
    <3>1. Len(rpcs') = 0
      BY <1>9, <2>2, ResponseTo
    <3>. QED
      BY <2>1, <3>1 DEF Awaited
  <2>3. CASE ~r.waiting
    <3>1. UNCHANGED <<call, script>>
      BY <1>9, <2>3, ResponseTo DEF Responds, scriptSide
    <3>2. \A c \in Rpcs : Expected(c)' <=> Expected(c)
      BY <3>1 DEF Expected
    <3>3. CASE UNCHANGED rpcs
      BY <2>1, <3>1, <3>2, <3>3 DEF Awaited
    <3>4. CASE Takes
      <4>1. /\ Len(rpcs) \in Nat /\ Len(rpcs') = Len(rpcs) - 1
            /\ \A i \in 1..Len(rpcs') :
                 i \in Nat /\ i >= 1 /\ i + 1 \in 1..Len(rpcs) /\ rpcs'[i] = rpcs[i + 1]
        BY <3>4, AfterTakes
      <4>2. ASSUME NEW i \in 1..Len(rpcs'), rpcs'[i].waiting
            PROVE  /\ call.state = "waiting" /\ i = Len(rpcs')
                   /\ \A c \in Rpcs : c = rpcs'[i].rpc => Expected(c)
        <5>1. i + 1 \in 1..Len(rpcs) /\ rpcs[i + 1].waiting
          BY <4>1, <4>2
        <5>2. /\ call.state = "waiting" /\ i + 1 = Len(rpcs)
              /\ \A c \in Rpcs : c = rpcs[i + 1].rpc => Expected(c)
          BY <5>1 DEF Awaited
        <5>. QED
          BY <4>1, <5>2
      <4>. QED
        BY <2>1, <3>1, <3>2, <4>2 DEF Awaited
    <3>. QED
      BY <1>9, <3>3, <3>4 DEF Responds
  <2>. QED
    BY <1>9, <2>2, <2>3, ResponseTo
<1>. QED
  BY <1>1, <1>2, <1>3, <1>4, <1>5, <1>6, <1>7, <1>8, <1>9 DEF CallStep

(* A good answer leaves nothing behind.                                    *)
LEMMA SettledKept ==
  ASSUME CallTypes, ScriptTypes, Awaited, Settled, CallStep
  PROVE  Settled'
<1>0. /\ NoLast.op = "none" /\ NoJob.rpc = "none"
      /\ Still => job.rpc \in {"none", "hmi"} /\ rpcs = <<>>
  BY DEF NoLast, NoJob, Still
<1>1. ASSUME NEW rpc \in Rpcs, Makes(rpc)
      PROVE  Settled'
  BY <1>0, <1>1 DEF Makes, Settled
<1>2. CASE Finishes
  <2>1. (Still' <=> Still) /\ last'.op = script.op /\ last'.num = call.num
    BY <1>2 DEF Finishes, Still
  <2>2. client # "none"
    BY <1>2 DEF Finishes, Settled
  <2>. QED
    BY <1>2, <2>1, <2>2 DEF Finishes, Settled
<1>3. CASE Leaves
  <2>1. Still => Still'
    BY <1>3, AfterForsakes DEF Leaves, Still
  <2>. QED
    BY <1>0, <1>3, <2>1 DEF Leaves, Settled
<1>4. CASE Begins
  <2>1. ~Still
    BY <1>4 DEF Begins, Takes, Still
  <2>. QED
    BY <1>4, <2>1 DEF Begins, scriptSide, Settled
<1>5. CASE Works
  <2>1. (Still' <=> Still)
    BY <1>5 DEF Works, Still
  <2>. QED
    BY <1>5, <2>1 DEF Works, scriptSide, Settled
<1>6. CASE Hmi
  <2>1. Still => Still'
    BY <1>6 DEF Hmi, Still, IdleJobs
  <2>. QED
    BY <1>6, <2>1 DEF Hmi, scriptSide, Settled
<1>7. CASE Loses
  <2>1. Still'
    BY <1>0, <1>7 DEF Loses, Still
  <2>. QED
    BY <1>7, <2>1 DEF Loses, Settled
<1>8. CASE Beside
  <2>1. (Still' <=> Still)
    BY <1>8 DEF Beside, Still
  <2>. QED
    BY <1>8, <2>1 DEF Beside, Settled
<1>9. ASSUME NEW r, NEW num, NEW text, Responds(r, num, text)
      PROVE  Settled'
  <2>1. ~Still
    BY <1>9, ResponseTo DEF Still
  <2>2. UNCHANGED <<client, script, last>>
    BY <1>9 DEF Responds, scriptSide
  <2>3. CASE r.waiting
    <3>1. Still'
      BY <1>0, <1>9, <2>3, ResponseTo DEF Still
    <3>. QED
      BY <2>2, <3>1 DEF Settled
  <2>4. CASE ~r.waiting
    <3>1. UNCHANGED call
      BY <1>9, <2>4, ResponseTo
    <3>. QED
      BY <2>1, <2>2, <3>1 DEF Settled
  <2>. QED
    BY <1>9, <2>3, <2>4, ResponseTo
<1>. QED
  BY <1>1, <1>2, <1>3, <1>4, <1>5, <1>6, <1>7, <1>8, <1>9 DEF CallStep


-----------------------------------------------------------------------------
(* The processes.                                                          *)

(* Process p is on its way: it does not come back.                         *)
Alters(p) ==
  /\ proc' \in [Pids -> Process]
  /\ \A q \in Pids : q # p => proc'[q] = proc[q]
  /\ proc'[p].stage \notin {"free", "zombie"} =>
       /\ Alive(p) /\ proc'[p].since = proc[p].since
       /\ ~proc'[p].told => ~proc[p].told
       /\ proc'[p].stage = "run" => proc[p].stage \in {"boot", "run"}
       /\ proc'[p].stage = "boot" => proc[p].stage = "boot"
  /\ proc'[p].stage = "free" => proc'[p] = NoProcess
  /\ proc'[p].stage = "zombie" => proc'[p].since = proc[p].since
  /\ proc[p].child => proc'[p].child

(* Process p is started.                                                   *)
Born(p) ==
  /\ proc[p].stage = "free"
  /\ \E ours \in BOOLEAN : proc' = [proc EXCEPT ![p] = Started(ours)]
  /\ \/ /\ AppSpawns /\ job.rpc = "none" /\ job'.rpc = "app_start" /\ job'.pid = p
        /\ proc'[p].child
     \/ ByHand

ProcStep ==
  \/ UNCHANGED proc
  \/ \E p \in Pids : Alters(p) /\ UNCHANGED monitored
  \/ \E p \in Pids : Born(p) /\ UNCHANGED monitored
  \/ \E p \in Pids : Monitor(p)
  \/ ProcOpens \/ Dies

(* A record of a process put in place of another.                          *)
LEMMA OneChanged ==
  ASSUME ProcTypes, NEW p \in Pids, NEW new \in Process, proc' = [proc EXCEPT ![p] = new]
  PROVE  /\ proc' \in [Pids -> Process] /\ proc'[p] = new
         /\ \A q \in Pids : q # p => proc'[q] = proc[q]
  BY DEF ProcTypes

(* NoProcess and Started.                                                  *)
LEMMA NewProcess ==
  /\ NoProcess \in Process /\ NoProcess.stage = "free"
  /\ ~NoProcess.child /\ NoProcess.since = "free"
  /\ \A ours \in BOOLEAN :
       /\ Started(ours) \in Process /\ Started(ours).stage = "boot"
       /\ Started(ours).child = ours /\ Started(ours).since = "free"
  BY DEF NoProcess, Started, Process, Stages

(* What is left of a process.                                              *)
LEMMA EndAlters ==
  ASSUME ProcTypes, NEW p \in Pids, Alive(p), proc' = [proc EXCEPT ![p] = Ended(p)]
  PROVE  Alters(p)
<1>1. proc[p] \in Process
  BY DEF ProcTypes
<1>2. CASE proc[p].child
  <2>1. Ended(p) = [proc[p] EXCEPT !.stage = "zombie"]
    BY <1>2 DEF Ended
  <2>2. /\ Ended(p) \in Process /\ Ended(p).stage = "zombie"
        /\ Ended(p).since = proc[p].since /\ Ended(p).child
    BY <1>1, <1>2, <2>1 DEF Process, Stages
  <2>. QED
    BY <2>2, OneChanged DEF Alters
<1>3. CASE ~proc[p].child
  <2>1. Ended(p) = NoProcess
    BY <1>3 DEF Ended
  <2>. QED
    BY <1>3, <2>1, OneChanged, NewProcess DEF Alters
<1>. QED
  BY <1>2, <1>3

(* SDL gets threads or loses them.                                         *)
LEMMA MoveAlters ==
  ASSUME ProcTypes, NEW p \in Pids, Moves(p, "boot", "run") \/ Moves(p, "close", "late")
  PROVE  Alters(p)
<1>1. proc[p] \in Process
  BY DEF ProcTypes
<1>2. PICK to \in {"run", "late"} :
        /\ proc' = [proc EXCEPT ![p].stage = to]
        /\ proc[p].stage = IF to = "run" THEN "boot" ELSE "close"
  BY DEF Moves
<1>3. proc' = [proc EXCEPT ![p] = [proc[p] EXCEPT !.stage = to]]
  BY <1>2 DEF ProcTypes
<1>4. /\ [proc[p] EXCEPT !.stage = to] \in Process
      /\ [proc[p] EXCEPT !.stage = to].stage = to
      /\ [proc[p] EXCEPT !.stage = to].since = proc[p].since
      /\ [proc[p] EXCEPT !.stage = to].told = proc[p].told
      /\ [proc[p] EXCEPT !.stage = to].child = proc[p].child
  BY <1>1 DEF Process, Stages
<1>. QED
  BY <1>2, <1>3, <1>4, OneChanged DEF Alters, Alive

(* What a signal does, to the stage and else.                              *)
LEMMA SignalAlters ==
  ASSUME ProcTypes, NEW p \in Pids, NEW sig \in {"SIGTERM", "SIGKILL"},
         proc' = [proc EXCEPT ![p] = Signalled(p, sig)]
  PROVE  Alters(p) \/ UNCHANGED proc
<1>1. proc[p] \in Process
  BY DEF ProcTypes
<1>2. CASE ~Alive(p)
  BY <1>2 DEF Signalled, ProcTypes
<1>3. CASE Alive(p) /\ sig = "SIGKILL"
  BY <1>3, EndAlters DEF Signalled
<1>4. CASE Alive(p) /\ sig # "SIGKILL"
  <2>1. PICK stage \in {proc[p].stage, "close"} :
          Signalled(p, sig) = [proc[p] EXCEPT !.told = TRUE, !.stage = stage]
    BY <1>1, <1>4 DEF Signalled, Process
  <2>2. /\ Signalled(p, sig) \in Process /\ Signalled(p, sig).stage = stage
        /\ Signalled(p, sig).since = proc[p].since /\ Signalled(p, sig).told
        /\ Signalled(p, sig).child = proc[p].child
    BY <1>1, <2>1 DEF Process, Stages
  <2>. QED
    BY <1>4, <2>1, <2>2, OneChanged DEF Alters, Alive
<1>. QED
  BY <1>2, <1>3, <1>4

(* A round of signals reads a process that was found.                      *)
LEMMA PidFound ==
  ASSUME CallTypes, job.rpc \in {"app_stop", "app_check_status"}, HasPid
  PROVE  Pid \in Pids /\ job.next \in 1..Len(job.found)
<1>1. job.found \in Seq(Pids) /\ job.next \in Nat /\ job.next >= 1
  BY Shapes, PlaceFacts DEF ScanJobs
<1>2. job.next \in 1..Len(job.found)
  BY <1>1 DEF HasPid
<1>. QED
  BY <1>1, <1>2 DEF Pid

(* Every step is one of these.                                             *)
LEMMA ProcSteps ==
  ASSUME CallTypes, ProcTypes, Next
  PROVE  ProcStep
<1>1. CASE \/ RunBegins \/ RunEnds \/ StartSDL \/ StopSDL \/ WaitForSDLStart \/ ForceStopSDL
           \/ Returns \/ CallTimesOut
  BY <1>1 DEF RunBegins, RunEnds, StartSDL, StopSDL, WaitForSDLStart, ForceStopSDL, Begin,
              Returns, LastReturns, StatusReturns, CallTimesOut, restOfScript, ProcStep
<1>2. CASE \/ Greets \/ AppWatched \/ ProcReads \/ ProcEnds \/ StopEnds \/ StatusCounts
           \/ StatusEnds \/ HmiCall \/ HmiCallEnds \/ IsStartedAgain
  BY <1>2 DEF Greets, AppWatched, ProcReads, ProcEnds, StopEnds, StatusCounts, StatusEnds,
              HmiCall, HmiCallEnds, IsStartedAgain, restOfScript, ProcStep
<1>3. CASE ProcOpens \/ Dies
  BY <1>3 DEF ProcStep
<1>4. CASE AppSpawns
  <2>1. CASE UNCHANGED proc
    BY <2>1 DEF ProcStep
  <2>2. ASSUME NEW p \in Free, proc' = [proc EXCEPT ![p] = Started(TRUE)],
               job' = [rpc |-> Taken.rpc, waiting |-> Taken.waiting, step |-> "spawned", pid |-> p]
        PROVE  ProcStep
    <3>1. p \in Pids /\ proc[p].stage = "free"
      BY DEF Free
    <3>2. proc'[p].child
      BY <2>2, <3>1, OneChanged, NewProcess
    <3>3. /\ job.rpc = "none" /\ job'.rpc = "app_start" /\ job'.pid = p
          /\ UNCHANGED monitored
      BY <1>4, <2>2, AfterTakes DEF AppSpawns, Serves
    <3>4. Born(p)
      BY <1>4, <2>2, <3>1, <3>2, <3>3 DEF Born
    <3>. QED
      BY <3>1, <3>3, <3>4 DEF ProcStep
  <2>. QED
    BY <1>4, <2>1, <2>2 DEF AppSpawns
<1>5. CASE ByHand
  <2>1. PICK p \in Free : proc' = [proc EXCEPT ![p] = Started(FALSE)]
    BY <1>5 DEF ByHand
  <2>2. p \in Pids /\ proc[p].stage = "free" /\ UNCHANGED monitored
    BY <1>5 DEF Free, ByHand
  <2>3. Born(p)
    BY <1>5, <2>1, <2>2 DEF Born
  <2>. QED
    BY <2>2, <2>3 DEF ProcStep
<1>6. ASSUME NEW sig \in {"SIGTERM", "SIGKILL"}, StopKills(sig)
      PROVE  ProcStep
  <2>1. Pid \in Pids
    BY <1>6, PidFound DEF StopKills, InStep
  <2>2. /\ \/ UNCHANGED proc
           \/ proc' = [proc EXCEPT ![Pid] = Signalled(Pid, sig)]
        /\ UNCHANGED monitored
    BY <1>6 DEF StopKills
  <2>3. UNCHANGED proc \/ Alters(Pid)
    BY <2>1, <2>2, SignalAlters
  <2>. QED
    BY <2>1, <2>2, <2>3 DEF ProcStep
<1>7. ASSUME NEW p \in Pids, Monitor(p)
      PROVE  ProcStep
  BY <1>7 DEF ProcStep
<1>8. ASSUME NEW p \in Pids, Exits(p)
      PROVE  ProcStep
  <2>1. Alive(p) /\ proc' = [proc EXCEPT ![p] = Ended(p)] /\ UNCHANGED monitored
    BY <1>8 DEF Exits
  <2>. QED
    BY <2>1, EndAlters DEF ProcStep
<1>9. ASSUME NEW p \in Pids, Moves(p, "boot", "run") \/ Moves(p, "close", "late")
      PROVE  ProcStep
  <2>1. Alters(p)
    BY <1>9, MoveAlters
  <2>2. UNCHANGED monitored
    BY <1>9 DEF Moves
  <2>. QED
    BY <2>1, <2>2 DEF ProcStep
<1>. QED
  BY <1>1, <1>2, <1>3, <1>4, <1>5, <1>6, <1>7, <1>8, <1>9 DEF Next, Worker

(* GetAppPids begins: what is there now is what the call is about.         *)
LEMMA AfterOpens ==
  ASSUME ProcTypes, ProcOpens
  PROVE  /\ proc' \in [Pids -> Process]
         /\ \A p \in Pids : /\ proc'[p].stage = proc[p].stage /\ proc'[p].since = proc[p].stage
                            /\ ~proc'[p].told /\ proc'[p].child = proc[p].child
<1>1. \A p \in Pids :
        /\ proc[p] \in Process
        /\ proc'[p] = [proc[p] EXCEPT !.told = FALSE, !.since = proc[p].stage]
  BY DEF ProcTypes, ProcOpens
<1>2. \A p \in Pids :
        /\ proc'[p] \in Process
        /\ proc'[p].stage = proc[p].stage /\ proc'[p].since = proc[p].stage
        /\ ~proc'[p].told /\ proc'[p].child = proc[p].child
  BY <1>1 DEF Process
<1>3. proc' \in [Pids -> Process]
  BY <1>2 DEF ProcOpens
<1>. QED
  BY <1>2, <1>3

(* The server dies.                                                        *)
LEMMA AfterDies ==
  ASSUME ProcTypes, Dies
  PROVE  /\ proc' \in [Pids -> Process]
         /\ \A p \in Pids :
              \/ proc'[p] = NoProcess
              \/ /\ proc'[p].stage = proc[p].stage /\ proc'[p].since = proc[p].since
                 /\ proc'[p].told = proc[p].told /\ ~proc'[p].child
<1>1. \A p \in Pids :
        /\ proc[p] \in Process
        /\ proc'[p] = NoProcess \/ proc'[p] = [proc[p] EXCEPT !.child = FALSE]
  BY DEF ProcTypes, Dies
<1>2. ASSUME NEW p \in Pids
      PROVE  /\ proc'[p] \in Process
             /\ \/ proc'[p] = NoProcess
                \/ /\ proc'[p].stage = proc[p].stage /\ proc'[p].since = proc[p].since
                   /\ proc'[p].told = proc[p].told /\ ~proc'[p].child
  <2>1. CASE proc'[p] = NoProcess
    BY <2>1, NewProcess
  <2>2. CASE proc'[p] = [proc[p] EXCEPT !.child = FALSE]
    BY <1>1, <2>2 DEF Process
  <2>. QED
    BY <1>1, <2>1, <2>2
<1>3. proc' \in [Pids -> Process]
  BY <1>2 DEF Dies
<1>. QED
  BY <1>2, <1>3

(* SDL is started.                                                         *)
LEMMA AfterBirth ==
  ASSUME ProcTypes, NEW p \in Pids, Born(p)
  PROVE  /\ proc' \in [Pids -> Process]
         /\ proc[p].stage = "free"
         /\ proc'[p].stage = "boot" /\ proc'[p].since = "free"
         /\ \A q \in Pids : q # p => proc'[q] = proc[q]
<1>1. PICK ours \in BOOLEAN : proc' = [proc EXCEPT ![p] = Started(ours)]
  BY DEF Born
<1>. QED
  BY <1>1, OneChanged, NewProcess DEF Born

(* waitpid returns.                                                        *)
LEMMA AfterWait ==
  ASSUME ProcTypes, NEW p \in Pids, Monitor(p)
  PROVE  /\ proc' \in [Pids -> Process]
         /\ proc'[p] = NoProcess
         /\ \A q \in Pids : q # p => proc'[q] = proc[q]
         /\ p \in monitored /\ monitored' = monitored \ {p} /\ UNCHANGED job
  BY OneChanged, NewProcess DEF Monitor, callVars

(* While a call lasts, the processes it is about only become fewer.        *)
Fading ==
  \A p \in Pids : /\ InCall(p)' => InCall(p)
                  /\ Untold(p)' => Untold(p)
                  /\ Runs(p)' => Runs(p)
NoBirth == \A p \in Pids : Alive(p)' => Alive(p)

(* Only the beginning of a call makes the processes there its own.         *)
LEMMA Fades ==
  ASSUME ProcTypes, Children, ProcStep, ~ProcOpens
  PROVE  Fading
<1>1. CASE UNCHANGED proc
  BY <1>1 DEF Fading, InCall, Untold, Runs, Alive
<1>2. ASSUME NEW p \in Pids, Alters(p)
      PROVE  Fading
  <2>1. proc'[p].stage = "run" => proc'[p].since = proc[p].since /\ proc[p].stage \in {"boot", "run"}
    BY <1>2 DEF Alters
  <2>2. Runs(p)' => Runs(p)
    BY <2>1 DEF Runs, Children
  <2>3. (InCall(p)' => InCall(p)) /\ (Untold(p)' => Untold(p))
    BY <1>2 DEF Alters, InCall, Untold, Alive
  <2>4. \A q \in Pids : q # p => proc'[q] = proc[q]
    BY <1>2 DEF Alters
  <2>. QED
    BY <2>2, <2>3, <2>4 DEF Fading, InCall, Untold, Runs, Alive
<1>3. ASSUME NEW p \in Pids, Born(p)
      PROVE  Fading
  <2>1. proc'[p].since = "free" /\ \A q \in Pids : q # p => proc'[q] = proc[q]
    BY <1>3, AfterBirth
  <2>. QED
    BY <2>1 DEF Fading, InCall, Untold, Runs, Alive
<1>4. ASSUME NEW p \in Pids, Monitor(p)
      PROVE  Fading
  <2>1. proc'[p].since = "free" /\ \A q \in Pids : q # p => proc'[q] = proc[q]
    BY <1>4, AfterWait, NewProcess
  <2>. QED
    BY <2>1 DEF Fading, InCall, Untold, Runs, Alive
<1>5. CASE Dies
  <2>1. \A p \in Pids :
          \/ proc'[p].since = "free"
          \/ /\ proc'[p].stage = proc[p].stage /\ proc'[p].since = proc[p].since
             /\ proc'[p].told = proc[p].told
    BY <1>5, AfterDies, NewProcess
  <2>. QED
    BY <2>1 DEF Fading, InCall, Untold, Runs, Alive
<1>. QED
  BY <1>1, <1>2, <1>3, <1>4, <1>5 DEF ProcStep

(* Only app_start and the hand of a user start SDL.                        *)
LEMMA Births ==
  ASSUME ProcTypes, ProcStep
  PROVE  NoBirth \/ \E p \in Pids : Born(p)
<1>1. CASE UNCHANGED proc
  BY <1>1 DEF NoBirth, Alive
<1>2. ASSUME NEW p \in Pids, Alters(p)
      PROVE  NoBirth
  BY <1>2 DEF Alters, NoBirth, Alive
<1>3. ASSUME NEW p \in Pids, Monitor(p)
      PROVE  NoBirth
  <2>1. proc'[p].stage = "free" /\ \A q \in Pids : q # p => proc'[q] = proc[q]
    BY <1>3, AfterWait, NewProcess
  <2>. QED
    BY <2>1 DEF NoBirth, Alive
<1>4. CASE ProcOpens
  BY <1>4, AfterOpens DEF NoBirth, Alive
<1>5. CASE Dies
  <2>1. \A p \in Pids : proc'[p].stage = "free" \/ proc'[p].stage = proc[p].stage
    BY <1>5, AfterDies, NewProcess
  <2>. QED
    BY <2>1 DEF NoBirth, Alive
<1>. QED
  BY <1>1, <1>2, <1>3, <1>4, <1>5 DEF ProcStep

(* Only app_start has a thread wait.                                       *)
LEMMA Watches ==
  ASSUME Next
  PROVE  \/ monitored' \subseteq monitored
         \/ /\ AppWatched /\ job.rpc = "app_start" /\ job' = NoJob /\ UNCHANGED proc
            /\ monitored' \subseteq monitored \cup {job.pid}
<1>1. CASE \/ RunBegins \/ RunEnds \/ StartSDL \/ StopSDL \/ WaitForSDLStart \/ ForceStopSDL
           \/ Returns \/ CallTimesOut
  BY <1>1 DEF RunBegins, RunEnds, StartSDL, StopSDL, WaitForSDLStart, ForceStopSDL, Begin,
              Returns, LastReturns, StatusReturns, CallTimesOut, restOfScript
<1>2. CASE \/ Greets \/ AppSpawns \/ ProcOpens \/ ProcReads \/ ProcEnds \/ StopEnds \/ StatusCounts
           \/ StatusEnds \/ HmiCall \/ HmiCallEnds \/ IsStartedAgain
  BY <1>2 DEF Greets, AppSpawns, ProcOpens, ProcReads, ProcEnds, StopEnds, StatusCounts, StatusEnds,
              HmiCall, HmiCallEnds, IsStartedAgain, restOfScript
<1>3. CASE AppWatched
  BY <1>3 DEF AppWatched, InStep, Respond
<1>4. CASE ByHand \/ Dies \/ \E sig \in {"SIGTERM", "SIGKILL"} : StopKills(sig)
  BY <1>4 DEF ByHand, Dies, StopKills
<1>5. ASSUME NEW p \in Pids, \/ Monitor(p) \/ Exits(p) \/ Moves(p, "boot", "run")
                             \/ Moves(p, "close", "late")
      PROVE  monitored' \subseteq monitored
  BY <1>5 DEF Monitor, Exits, Moves
<1>. QED
  BY <1>1, <1>2, <1>3, <1>4, <1>5 DEF Next, Worker

(* The process of a job.                                                   *)
LEMMA JobPid ==
  ASSUME CallTypes, CallStep, job'.rpc = "app_start"
  PROVE  AppSpawns \/ (job.rpc = "app_start" /\ job'.pid = job.pid)
<1>1. ASSUME ProcOpens
      PROVE  FALSE
  BY <1>1 DEF ProcOpens, Serves
<1>2. \A rpc \in Rpcs : ~Makes(rpc) \/ job' = job
  BY DEF Makes
<1>3. Finishes \/ Beside => job' = job
  BY DEF Finishes, Beside
<1>4. Leaves => job.rpc = "app_start" /\ job'.pid = job.pid
  BY AfterForsakes DEF Leaves
<1>5. Begins => AppSpawns
  BY <1>1 DEF Begins
<1>6. ~Works /\ ~Hmi
  BY DEF Works, Hmi, ScanJobs, IdleJobs
<1>7. job' # NoJob
  BY DEF NoJob
<1>8. ~Loses /\ \A r, num, text : ~Responds(r, num, text)
  BY <1>7 DEF Loses, Responds, Respond
<1>. QED
  BY <1>2, <1>3, <1>4, <1>5, <1>6, <1>8 DEF CallStep

(* Types of the processes.                                                 *)
LEMMA ProcTypesKept ==
  ASSUME CallTypes, ProcTypes, ProcStep, Next
  PROVE  ProcTypes'
<1>1. proc' \in [Pids -> Process]
  BY AfterBirth, AfterWait, AfterOpens, AfterDies DEF ProcStep, Alters, ProcTypes
<1>2. job.rpc = "app_start" => job.pid \in Pids
  BY Shapes DEF StartJobs
<1>. QED
  BY <1>1, <1>2, Watches DEF ProcTypes

(* Only children are waited for.                                           *)
LEMMA ChildrenKept ==
  ASSUME CallTypes, ProcTypes, Children, CallStep, ProcStep, Next
  PROVE  Children'
<1>1. ASSUME NEW p \in Pids
      PROVE  /\ proc'[p].since = "run" => proc'[p].stage # "boot"
             /\ proc'[p].stage = "free" => ~proc'[p].child
  <2>0. /\ proc[p].since = "run" => proc[p].stage # "boot"
        /\ proc[p].stage = "free" => ~proc[p].child
    BY DEF Children
  <2>1. CASE UNCHANGED proc
    BY <2>0, <2>1
  <2>2. ASSUME NEW q \in Pids, Alters(q)
        PROVE  /\ proc'[p].since = "run" => proc'[p].stage # "boot"
               /\ proc'[p].stage = "free" => ~proc'[p].child
    BY <2>0, <2>2, NewProcess DEF Alters
  <2>3. ASSUME NEW q \in Pids, Born(q) \/ Monitor(q)
        PROVE  /\ proc'[p].since = "run" => proc'[p].stage # "boot"
               /\ proc'[p].stage = "free" => ~proc'[p].child
    BY <2>0, <2>3, AfterBirth, AfterWait, NewProcess
  <2>4. CASE ProcOpens
    BY <2>0, <2>4, AfterOpens
  <2>5. CASE Dies
    BY <2>0, <2>5, AfterDies, NewProcess
  <2>. QED
    BY <2>1, <2>2, <2>3, <2>4, <2>5 DEF ProcStep
<1>2. ASSUME NEW p \in Pids, proc[p].child, p \in monitored \/ (job.rpc = "app_start" /\ job.pid = p)
      PROVE  proc'[p].child \/ Dies \/ (Monitor(p) /\ p \in monitored)
  <2>1. CASE UNCHANGED proc
    BY <1>2, <2>1
  <2>2. ASSUME NEW q \in Pids, Alters(q)
        PROVE  proc'[p].child
    BY <1>2, <2>2 DEF Alters
  <2>3. ASSUME NEW q \in Pids, Born(q)
        PROVE  proc'[p].child
    <3>1. q # p
      BY <1>2, <2>3 DEF Born, Children
    <3>. QED
      BY <1>2, <2>3, <3>1, AfterBirth
  <2>4. ASSUME NEW q \in Pids, Monitor(q)
        PROVE  proc'[p].child \/ (Monitor(p) /\ p \in monitored)
    BY <1>2, <2>4, AfterWait
  <2>5. CASE ProcOpens
    BY <1>2, <2>5, AfterOpens
  <2>. QED
    BY <2>1, <2>2, <2>3, <2>4, <2>5 DEF ProcStep
<1>3. ASSUME NEW p \in Pids, p \in monitored'
      PROVE  proc'[p].child
  <2>1. CASE p \in monitored
    <3>1. proc[p].child
      BY <2>1 DEF Children
    <3>2. ~Dies
      BY <1>3 DEF Dies
    <3>3. ~Monitor(p)
      BY <1>3 DEF Monitor
    <3>4. proc'[p].child \/ Dies \/ Monitor(p)
      BY <1>2, <2>1, <3>1
    <3>. QED
      BY <3>2, <3>3, <3>4
  <2>2. CASE p \notin monitored
    <3>1. job.rpc = "app_start" /\ p = job.pid /\ UNCHANGED proc
      BY <1>3, <2>2, Watches
    <3>. QED
      BY <3>1 DEF Children
  <2>. QED
    BY <2>1, <2>2
<1>4. ASSUME job'.rpc = "app_start"
      PROVE  proc'[job'.pid].child /\ job'.pid \notin monitored'
  <2>0. job' # NoJob
    BY <1>4 DEF NoJob
  <2>1. CASE AppSpawns
    <3>1. PICK p \in Free :
            /\ proc' = [proc EXCEPT ![p] = Started(TRUE)]
            /\ job' = [rpc |-> Taken.rpc, waiting |-> Taken.waiting, step |-> "spawned", pid |-> p]
      BY <2>0, <2>1 DEF AppSpawns, Respond
    <3>2. p \in Pids /\ proc[p].stage = "free" /\ job'.pid = p
      BY <3>1 DEF Free
    <3>3. proc'[p].child
      BY <3>1, <3>2, OneChanged, NewProcess
    <3>4. p \notin monitored
      BY <3>2 DEF Children
    <3>5. UNCHANGED monitored
      BY <2>1 DEF AppSpawns
    <3>. QED
      BY <3>2, <3>3, <3>4, <3>5
  <2>2. CASE job.rpc = "app_start" /\ job'.pid = job.pid
    <3>1. job.pid \in Pids /\ proc[job.pid].child /\ job.pid \notin monitored
      BY <2>2, Shapes DEF StartJobs, Children
    <3>2. ~Dies
      BY <2>0 DEF Dies, ServerDies
    <3>3. monitored' \subseteq monitored
      BY <2>0, Watches
    <3>. QED
      BY <1>2, <2>2, <3>1, <3>2, <3>3
  <2>. QED
    BY <1>4, <2>1, <2>2, JobPid
<1>5. monitored' \subseteq Pids
  BY ProcTypesKept DEF ProcTypes
<1>. QED
  BY <1>1, <1>3, <1>4, <1>5 DEF Children

-----------------------------------------------------------------------------
(* The scans of /proc.                                                     *)

(* The fields of a scan.                                                   *)
LEMMA ScanFields ==
  ASSUME CallTypes, job.rpc \in {"app_stop", "app_check_status"}
  PROVE  /\ job \in ScanJobs
         /\ job.step \in {"scan", "kill", "kill9", "count"}
         /\ job.next \in Nat /\ job.next >= 1 /\ job.sum \in Nat /\ job.ok \in BOOLEAN
         /\ job.found \in Seq(Pids) /\ Len(job.found) \in Nat
<1>1. job \in ScanJobs
  BY Shapes
<1>2. /\ job.step \in {"scan", "kill", "kill9", "count"} /\ job.next \in Places
      /\ job.sum \in Nat /\ job.ok \in BOOLEAN /\ job.found \in Seq(Pids)
  BY <1>1 DEF ScanJobs
<1>. QED
  BY <1>1, <1>2, PlaceFacts

(* A scan that is not worked on stays true.                                *)
LEMMA ScanWaits ==
  ASSUME ScanTrue, job.rpc \in {"app_stop", "app_check_status"}, Fading,
         job'.rpc = job.rpc, job'.step = job.step, job'.next = job.next,
         job'.found = job.found, job'.sum = job.sum, job'.ok = job.ok
  PROVE  ScanTrue'
<1>1. \A p \in Pids : (Found(p)' <=> Found(p)) /\ (Ahead(p)' <=> Ahead(p))
  BY DEF Found, Ahead
<1>2. \A p \in Pids : /\ InCall(p)' => InCall(p)
                      /\ Untold(p)' => Untold(p)
                      /\ Runs(p)' => Runs(p)
  BY DEF Fading
<1>. QED
  BY <1>1, <1>2 DEF ScanTrue

(* GetAppPids begins.                                                      *)
LEMMA ScanBegins ==
  ASSUME CallTypes, ProcTypes, ProcOpens
  PROVE  ScanTrue'
<1>1. job'.step = "scan" /\ job'.next = 1
  BY DEF ProcOpens
<1>2. \A p \in Pids : p >= 1
  BY AppsAssumption DEF Pids
<1>. QED
  BY <1>1, <1>2 DEF ScanTrue

(* GetAppPids reads an entry, or is at the end of /proc.                   *)
LEMMA ScanReads ==
  ASSUME CallTypes, ProcTypes, ScanTrue, ProcReads \/ ProcEnds
  PROVE  ScanTrue'
<1>0. job.rpc \in {"app_stop", "app_check_status"} /\ job.step = "scan" /\ UNCHANGED proc
  BY DEF ProcReads, ProcEnds
<1>1. /\ job \in ScanJobs /\ job.next \in Nat /\ job.next >= 1
      /\ job.found \in Seq(Pids) /\ Len(job.found) \in Nat
  BY <1>0, ScanFields
<1>2. \A p \in Pids : /\ InCall(p)' <=> InCall(p)
                      /\ Untold(p)' <=> Untold(p)
                      /\ Runs(p)' <=> Runs(p)
  BY <1>0 DEF InCall, Untold, Runs, Alive
<1>3. \A p \in Pids : InCall(p) => p >= job.next \/ Found(p)
  BY <1>0 DEF ScanTrue
<1>4. \A p \in Pids : (Untold(p) => InCall(p)) /\ (Runs(p) => InCall(p))
  BY DEF Untold, Runs, InCall, Alive
<1>5. \A p \in Pids : p \in Nat /\ p <= MaxPid /\ MaxPid \in Nat
  BY AppsAssumption DEF Pids
<1>6. CASE ProcReads
  <2>1. /\ job'.rpc = job.rpc /\ job'.step = "scan" /\ job'.next = job.next + 1
        /\ job'.found = IF Alive(job.next) THEN Append(job.found, job.next) ELSE job.found
        /\ job.next \in Pids
    BY <1>0, <1>1, <1>6, AppsAssumption DEF ProcReads, ScanJobs, Pids
  <2>2. ASSUME NEW p \in Pids, Found(p)
        PROVE  Found(p)'
    <3>1. PICK i \in 1..Len(job.found) : job.found[i] = p
      BY <2>2 DEF Found
    <3>2. i \in 1..Len(job'.found) /\ job'.found[i] = p
      BY <1>1, <2>1, <3>1
    <3>. QED
      BY <3>2 DEF Found
  <2>3. ASSUME NEW p \in Pids, p = job.next, InCall(p)
        PROVE  Found(p)'
    <3>1. job'.found = Append(job.found, p)
      BY <2>1, <2>3 DEF InCall
    <3>2. Len(job'.found) = Len(job.found) + 1 /\ job'.found[Len(job.found) + 1] = p
      BY <1>1, <3>1
    <3>3. Len(job.found) + 1 \in 1..Len(job'.found)
      BY <1>1, <3>2
    <3>. QED
      BY <3>2, <3>3 DEF Found
  <2>4. ASSUME NEW p \in Pids, InCall(p)
        PROVE  p >= job.next + 1 \/ Found(p)'
    <3>1. p > job.next => p >= job.next + 1
      BY <1>1, <1>5
    <3>2. p > job.next \/ p = job.next \/ Found(p)
      BY <1>1, <1>3, <1>5, <2>4
    <3>. QED
      BY <2>2, <2>3, <2>4, <3>1, <3>2
  <2>. QED
    BY <1>0, <1>2, <2>1, <2>4 DEF ScanTrue
<1>7. CASE ProcEnds
  <2>1. /\ job'.rpc = job.rpc /\ job'.next = 1 /\ job'.found = job.found
        /\ job'.step = IF job.rpc = "app_stop" THEN "kill" ELSE "count"
        /\ job.next > MaxPid
    BY <1>0, <1>1, <1>7 DEF ProcEnds, ScanJobs
  <2>2. \A p \in Pids : InCall(p) => Found(p)
    BY <1>1, <1>3, <1>5, <2>1
  <2>3. \A p \in Pids : Found(p) => Found(p)' /\ Ahead(p)'
    BY <2>1 DEF Found, Ahead
  <2>. QED
    BY <1>0, <1>2, <1>4, <2>1, <2>2, <2>3 DEF ScanTrue
<1>. QED
  BY <1>6, <1>7

(* The place of a process that is ahead, when the first is done.           *)
LEMMA AheadMoves ==
  ASSUME CallTypes, job.rpc \in {"app_stop", "app_check_status"},
         job'.next = job.next + 1, job'.found = job.found
  PROVE  \A p \in Pids : /\ Found(p)' <=> Found(p)
                         /\ Ahead(p) => Ahead(p)' \/ p = Pid
<1>1. job.next \in Nat /\ job.next >= 1 /\ Len(job.found) \in Nat
  BY ScanFields
<1>2. ASSUME NEW p \in Pids, Ahead(p), p # Pid
      PROVE  Ahead(p)'
  <2>1. PICK i \in job.next..Len(job.found) : job.found[i] = p
    BY <1>2 DEF Ahead
  <2>2. i # job.next
    BY <1>2, <2>1 DEF Pid
  <2>3. i \in (job.next + 1)..Len(job.found)
    BY <1>1, <2>1, <2>2
  <2>. QED
    BY <2>1, <2>3 DEF Ahead
<1>. QED
  BY <1>2 DEF Found

(* StopApp sends a signal.                                                 *)
LEMMA ScanKills ==
  ASSUME CallTypes, ProcTypes, ScanTrue, Fading, NEW sig \in {"SIGTERM", "SIGKILL"},
         StopKills(sig)
  PROVE  ScanTrue'
<1>1. /\ job.rpc = "app_stop" /\ job.step = IF sig = "SIGTERM" THEN "kill" ELSE "kill9"
      /\ HasPid /\ job' = [job EXCEPT !.next = @ + 1, !.ok = @ /\ Killed(Pid)]
      /\ proc' = IF MayKill(Pid) THEN [proc EXCEPT ![Pid] = Signalled(Pid, sig)] ELSE proc
  BY DEF StopKills, InStep
<1>2. job \in ScanJobs /\ job.ok \in BOOLEAN /\ Pid \in Pids
  BY <1>1, ScanFields, PidFound
<1>3. /\ job'.rpc = job.rpc /\ job'.step = job.step /\ job'.next = job.next + 1
      /\ job'.found = job.found /\ job'.ok = (job.ok /\ Killed(Pid))
  BY <1>1, <1>2 DEF ScanJobs
<1>4. \A p \in Pids : (Found(p)' <=> Found(p)) /\ (Ahead(p) => Ahead(p)' \/ p = Pid)
  BY <1>1, <1>3, AheadMoves
<1>5. \A p \in Pids : (InCall(p)' => InCall(p)) /\ (Untold(p)' => Untold(p))
  BY DEF Fading
<1>6. ASSUME NEW p \in Pids, p = Pid, Killed(Pid)
      PROVE  ~Untold(p)'
  <2>1. CASE ~Alive(p)
    BY <1>5, <2>1 DEF Untold, InCall
  <2>2. CASE Alive(p)
    <3>1. MayKill(p)
      BY <1>6, <2>2 DEF Killed, AppExists, Alive
    <3>2. proc' = [proc EXCEPT ![p] = Signalled(p, sig)]
      BY <1>1, <1>6, <3>1
    <3>3. proc'[p] = Signalled(p, sig) /\ proc[p] \in Process
      BY <3>2 DEF ProcTypes
    <3>4. CASE sig = "SIGKILL"
      <4>1. Signalled(p, sig) = Ended(p)
        BY <2>2, <3>4 DEF Signalled
      <4>2. Ended(p).stage \in {"free", "zombie"}
        BY <3>3 DEF Ended, NoProcess, Process
      <4>. QED
        BY <3>3, <4>1, <4>2 DEF Untold, InCall, Alive
    <3>5. CASE sig = "SIGTERM"
      <4>1. Signalled(p, sig).told
        BY <2>2, <3>3, <3>5 DEF Signalled, Process
      <4>. QED
        BY <3>3, <4>1 DEF Untold
    <3>. QED
      BY <3>4, <3>5
  <2>. QED
    BY <2>1, <2>2
<1>7. \A p \in Pids : InCall(p) => Found(p)
  BY <1>1 DEF ScanTrue
<1>8. job.ok => \A p \in Pids : Untold(p) => Ahead(p)
  BY <1>1 DEF ScanTrue
<1>9. job'.ok => \A p \in Pids : Untold(p)' => Ahead(p)'
  BY <1>3, <1>4, <1>5, <1>6, <1>8
<1>. QED
  BY <1>1, <1>3, <1>4, <1>5, <1>7, <1>9 DEF ScanTrue

(* StopApp begins the second round.                                        *)
LEMMA ScanAgain ==
  ASSUME CallTypes, ScanTrue, StopEnds, job'.rpc = job.rpc
  PROVE  ScanTrue'
<1>1. job.rpc = "app_stop" /\ job.step \in {"kill", "kill9"} /\ UNCHANGED proc
  BY DEF StopEnds
<1>2. job' # NoJob
  BY <1>1 DEF NoJob
<1>3. job' = [job EXCEPT !.step = "kill9", !.next = 1, !.ok = TRUE]
  BY <1>2 DEF StopEnds, Respond
<1>4. job'.rpc = job.rpc /\ job'.step = "kill9" /\ job'.next = 1 /\ job'.found = job.found
  BY <1>1, <1>3, ScanFields DEF ScanJobs
<1>5. \A p \in Pids : (InCall(p)' <=> InCall(p)) /\ (Untold(p)' <=> Untold(p)) /\ (Untold(p) => InCall(p))
  BY <1>1 DEF InCall, Untold, Alive
<1>6. \A p \in Pids : InCall(p) => Found(p)
  BY <1>1 DEF ScanTrue
<1>7. \A p \in Pids : Found(p) => Found(p)' /\ Ahead(p)'
  BY <1>4 DEF Found, Ahead
<1>. QED
  BY <1>1, <1>4, <1>5, <1>6, <1>7 DEF ScanTrue

(* CheckAppStatus counts threads.                                          *)
LEMMA ScanCounts ==
  ASSUME CallTypes, ScanTrue, StatusCounts
  PROVE  ScanTrue'
<1>1. /\ job.rpc = "app_check_status" /\ job.step = "count" /\ UNCHANGED proc
      /\ HasPid /\ job' = [job EXCEPT !.next = @ + 1, !.sum = @ + Threads(Pid)]
  BY DEF StatusCounts, InStep
<1>2. job \in ScanJobs /\ job.sum \in Nat /\ Threads(Pid) \in Nat
  BY <1>1, ScanFields DEF Threads
<1>3. /\ job'.rpc = job.rpc /\ job'.step = job.step /\ job'.next = job.next + 1
      /\ job'.found = job.found /\ job'.sum = job.sum + Threads(Pid)
  BY <1>1, <1>2 DEF ScanJobs
<1>4. \A p \in Pids : (Found(p)' <=> Found(p)) /\ (Ahead(p) => Ahead(p)' \/ p = Pid)
  BY <1>1, <1>3, AheadMoves
<1>5. \A p \in Pids : (InCall(p)' <=> InCall(p)) /\ (Runs(p)' <=> Runs(p))
  BY <1>1 DEF InCall, Runs, Alive
<1>6. ASSUME NEW p \in Pids, p = Pid, Runs(p)
      PROVE  job'.sum > 1
  <2>1. Threads(Pid) = 2
    BY <1>6 DEF Threads, Runs
  <2>. QED
    BY <1>2, <1>3, <2>1
<1>7. job.sum > 1 => job'.sum > 1
  BY <1>2, <1>3
<1>8. \A p \in Pids : (InCall(p) => Found(p)) /\ (Runs(p) => Ahead(p) \/ job.sum > 1)
  BY <1>1 DEF ScanTrue
<1>9. \A p \in Pids : Runs(p)' => Ahead(p)' \/ job'.sum > 1
  BY <1>4, <1>5, <1>6, <1>7, <1>8
<1>. QED
  BY <1>1, <1>3, <1>4, <1>5, <1>8, <1>9 DEF ScanTrue

(* What a scan has found stays true.                                       *)
LEMMA ScanTrueKept ==
  ASSUME CallTypes, ProcTypes, Children, ScanTrue, CallStep, ProcStep
  PROVE  ScanTrue'
<1>1. ASSUME job'.rpc \notin {"app_stop", "app_check_status"}
      PROVE  ScanTrue'
  BY <1>1 DEF ScanTrue
<1>2. ASSUME job.rpc \in {"app_stop", "app_check_status"}
      PROVE  Fading
  <2>1. ~ProcOpens
    BY <1>2, AfterTakes DEF ProcOpens, Serves
  <2>. QED
    BY <2>1, Fades
<1>3. ASSUME UNCHANGED job
      PROVE  ScanTrue'
  BY <1>1, <1>2, <1>3, ScanWaits
<1>4. CASE Leaves
  BY <1>1, <1>2, <1>4, AfterForsakes, ScanWaits DEF Leaves
<1>5. CASE Begins
  <2>1. CASE AppSpawns
    <3>1. job'.rpc = "app_start"
      BY <1>5, <2>1 DEF Begins, AppSpawns, Serves
    <3>. QED
      BY <1>1, <3>1
  <2>2. CASE ProcOpens
    BY <2>2, ScanBegins
  <2>. QED
    BY <1>5, <2>1, <2>2 DEF Begins
<1>6. CASE Works
  <2>1. job.rpc \in {"app_stop", "app_check_status"} /\ job'.rpc = job.rpc
    BY <1>6 DEF Works, ScanJobs
  <2>. QED
    BY <1>2, <1>6, <2>1, ScanReads, ScanKills, ScanAgain, ScanCounts DEF Works
<1>7. CASE Hmi
  <2>1. job'.rpc \in {"none", "hmi"}
    BY <1>7 DEF Hmi, IdleJobs
  <2>. QED
    BY <1>1, <2>1
<1>8. ASSUME job' = NoJob
      PROVE  ScanTrue'
  BY <1>1, <1>8, Shapes
<1>9. /\ \A rpc \in Rpcs : Makes(rpc) => UNCHANGED job
      /\ Finishes \/ Beside => UNCHANGED job
  BY DEF Makes, Finishes, Beside
<1>10. /\ Loses => job' = NoJob
       /\ \A r, num, text : Responds(r, num, text) => job' = NoJob
  BY DEF Loses, Responds, Respond
<1>. QED
  BY <1>3, <1>4, <1>5, <1>6, <1>7, <1>8, <1>9, <1>10 DEF CallStep

-----------------------------------------------------------------------------
(* The answers.                                                            *)

(* The texts of an answer differ.                                          *)
LEMMA Texts ==
  /\ RUNNING # NOT_RUNNING /\ RUNNING # CRASHED /\ NOT_RUNNING # CRASHED
  /\ <<>> \notin {RUNNING, NOT_RUNNING, CRASHED}
  BY DEF RUNNING, NOT_RUNNING, CRASHED

(* What an answer says is said of fewer processes.                         *)
LEMMA TrueStays ==
  ASSUME Fading
  PROVE  /\ NoneInCall => NoneInCall'
         /\ NoneRuns => NoneRuns'
         /\ AllTold => AllTold'
  BY DEF Fading, NoneInCall, NoneRuns, AllTold

(* StopApp and CheckAppStatus answer what they found.                      *)
LEMMA StopAnswers ==
  ASSUME CallTypes, ScanTrue, StopEnds, job.ok
  PROVE  AllTold
<1>1. /\ job.rpc = "app_stop" /\ job.step \in {"kill", "kill9"} /\ ~HasPid
  BY DEF StopEnds
<1>2. job.next \in Nat /\ Len(job.found) \in Nat
  BY <1>1, ScanFields
<1>3. \A p \in Pids : ~Ahead(p)
  BY <1>1, <1>2 DEF HasPid, Ahead
<1>. QED
  BY <1>1, <1>3 DEF ScanTrue, AllTold

(* What CheckAppStatus reports.                                            *)
LEMMA StatusAnswers ==
  ASSUME CallTypes, ScanTrue, StatusEnds
  PROVE  Reports(StatusOf)
<1>1. job.rpc = "app_check_status" /\ job.step = "count" /\ ~HasPid
  BY DEF StatusEnds, InStep
<1>2. job.next \in Nat /\ Len(job.found) \in Nat
  BY <1>1, ScanFields
<1>3. \A p \in Pids : ~Ahead(p)
  BY <1>1, <1>2 DEF HasPid, Ahead
<1>4. \A p \in Pids : InCall(p) => Found(p)
  BY <1>1 DEF ScanTrue
<1>5. \A p \in Pids : Runs(p) => job.sum > 1 /\ InCall(p)
  BY <1>1, <1>3 DEF ScanTrue, Runs, InCall, Alive
<1>6. job.found = <<>> => NoneInCall /\ NoneRuns
  BY <1>4, <1>5 DEF Found, NoneInCall, NoneRuns
<1>7. ~(job.sum > 1) => NoneRuns
  BY <1>5 DEF NoneRuns
<1>. QED
  BY <1>6, <1>7, Texts DEF StatusOf, Reports

(* The answer to the script is true when it is given.                      *)
LEMMA AnswerGiven ==
  ASSUME CallTypes, ScriptTypes, ScanTrue, Awaited, Settled, AnswerKept, Fading,
         NEW r \in AppRequest \cup StartJobs \cup ScanJobs, NEW num, NEW text,
         Responds(r, num, text), r.waiting
  PROVE  AnswerKept'
<1>1. /\ call' = Answered(num, text) /\ \A c \in Rpcs : c = r.rpc => Expected(c)
      /\ UNCHANGED <<script, last>>
  BY ResponseTo DEF Responds, scriptSide
<1>2. r.rpc \in Rpcs
  BY DEF AppRequest, StartJobs, ScanJobs, Rpcs
<1>3. Expected(r.rpc)
  BY <1>1, <1>2
<1>4. script # NoScript => last = NoLast
  BY DEF Settled
<1>5. last.op = "none"
  <2>1. call.state = "waiting"
    BY ResponseTo
  <2>2. script # NoScript
    BY <2>1 DEF ScriptTypes
  <2>. QED
    BY <1>4, <2>2 DEF NoLast
<1>6. ASSUME num = SUCCESS, script.pc = "status" \/ script.op = "wait"
      PROVE  Reports(text)'
  <2>1. r.rpc = "app_check_status"
    BY <1>3, <1>6 DEF Expected
  <2>2. StatusEnds /\ r = job
    BY <2>1 DEF Responds
  <2>3. UNCHANGED proc /\ call' = Answered(SUCCESS, StatusOf)
    BY <2>2 DEF StatusEnds, Respond
  <2>4. text = StatusOf
    BY <1>1, <2>3 DEF Answered
  <2>5. Reports(StatusOf)
    BY <2>2, StatusAnswers
  <2>. QED
    BY <2>4, <2>5, TrueStays DEF Reports
<1>7. ASSUME num = SUCCESS, script.op \in {"stop", "force"}, script.pc = "last"
      PROVE  AllTold'
  <2>1. r.rpc = "app_stop"
    BY <1>3, <1>7 DEF Expected
  <2>2. StopEnds /\ r = job
    BY <2>1 DEF Responds
  <2>3. job' = NoJob
    BY ResponseTo
  <2>4. job' # [job EXCEPT !.step = "kill9", !.next = 1, !.ok = TRUE]
    BY <2>1, <2>2, <2>3, ScanFields DEF NoJob, ScanJobs
  <2>5. call' = Answered(CodeOf(job.ok), <<>>)
    BY <2>2, <2>4 DEF StopEnds, Respond
  <2>6. job.ok
    BY <1>1, <1>7, <2>5 DEF Answered, CodeOf, SUCCESS, FAILED
  <2>. QED
    BY <2>2, <2>6, StopAnswers, TrueStays
<1>8. call'.num = num /\ call'.text = text /\ script' = script /\ last'.op = "none"
  BY <1>1, <1>5 DEF Answered
<1>9. num = SUCCESS /\ (script.pc = "status" \/ script.op = "wait") => Reports(call.text)'
  BY <1>6, <1>8 DEF Reports
<1>. QED
  BY <1>7, <1>8, <1>9 DEF AnswerKept

(* What an answer says stays true.                                         *)
LEMMA AnswerKeptKept ==
  ASSUME CallTypes, ScriptTypes, ProcTypes, Children, ScanTrue, Awaited, Settled, AnswerKept,
         CallStep, ProcStep
  PROVE  AnswerKept'
<1>1. CASE ProcOpens
  <2>1. ~Still /\ UNCHANGED <<call, last, script>>
    BY <1>1, AfterTakes DEF ProcOpens, Serves, Takes, Still, idleVars, scriptVars
  <2>2. ~(call.state = "answered" /\ call.num = SUCCESS)
    BY <2>1 DEF Settled
  <2>3. ~(last.op # "none" /\ last.num = SUCCESS)
    BY <2>1 DEF Settled
  <2>. QED
    BY <2>1, <2>2, <2>3 DEF AnswerKept
<1>2. CASE ~ProcOpens
  <2>0. Fading
    BY <1>2, Fades
  <2>1. /\ NoneInCall => NoneInCall'
        /\ NoneRuns => NoneRuns'
        /\ AllTold => AllTold'
    BY <2>0, TrueStays
  <2>2. ASSUME UNCHANGED <<call, last, script>>
        PROVE  AnswerKept'
    BY <2>1, <2>2 DEF AnswerKept, Reports
  <2>3. ASSUME NEW rpc \in Rpcs, Makes(rpc)
        PROVE  AnswerKept'
    <3>1. last'.op = "none"
      BY <2>3 DEF Makes, NoLast
    <3>2. ~(call'.state = "answered" /\ call'.num = SUCCESS)
      BY <2>3 DEF Makes
    <3>. QED
      BY <3>1, <3>2 DEF AnswerKept
  <2>4. CASE Finishes
    <3>1. /\ call.state = "answered" /\ call'.state = "idle"
          /\ last'.op = script.op /\ last'.num = call.num /\ last'.text = call.text
          /\ \/ script.pc = "last" \/ call.num # SUCCESS
             \/ script.op = "start" \/ call.text = NOT_RUNNING
      BY <2>4 DEF Finishes
    <3>2. call.num = SUCCESS /\ script.op = "wait" => Reports(last.text)'
      BY <2>1, <3>1 DEF AnswerKept, Reports
    <3>3. call.num = SUCCESS /\ script.op \in {"stop", "force"} /\ call.text = <<>> => AllTold'
      BY <2>1, <3>1, Texts DEF AnswerKept
    <3>. QED
      BY <3>1, <3>2, <3>3 DEF AnswerKept
  <2>5. CASE Leaves
    <3>1. CASE call'.state = "answered" /\ call'.num # SUCCESS /\ UNCHANGED <<script, last>>
      BY <2>1, <3>1 DEF AnswerKept, Reports
    <3>2. CASE call'.state = "idle" /\ last' = NoLast
      <4>1. last'.op = "none"
        BY <3>2 DEF NoLast
      <4>. QED
        BY <3>2, <4>1 DEF AnswerKept
    <3>. QED
      BY <2>5, <3>1, <3>2 DEF Leaves
  <2>6. CASE Begins \/ Works \/ Hmi \/ Loses \/ Beside
    BY <2>2, <2>6 DEF Begins, Works, Hmi, Loses, Beside, scriptSide
  <2>7. ASSUME NEW r \in AppRequest \cup StartJobs \cup ScanJobs, NEW num, NEW text,
               Responds(r, num, text)
        PROVE  AnswerKept'
    <3>1. CASE r.waiting
      BY <2>0, <2>7, <3>1, AnswerGiven
    <3>2. CASE ~r.waiting
      <4>1. UNCHANGED <<call, last, script>>
        BY <2>7, <3>2, ResponseTo DEF Responds, scriptSide
      <4>. QED
        BY <2>2, <4>1
    <3>. QED
      BY <3>1, <3>2
  <2>. QED
    BY <2>3, <2>4, <2>5, <2>6, <2>7 DEF CallStep
<1>. QED
  BY <1>1, <1>2

-----------------------------------------------------------------------------
(* One SDL.                                                                *)

(* The history grows.                                                      *)
LEMMA SeenGrows ==
  ASSUME Next
  PROVE  seen \subseteq seen' /\ (ByHand => "foreign" \in seen')
<1>1. CASE \/ RunBegins \/ RunEnds \/ StartSDL \/ StopSDL \/ WaitForSDLStart \/ ForceStopSDL
           \/ Returns \/ CallTimesOut
  BY <1>1 DEF RunBegins, RunEnds, StartSDL, StopSDL, WaitForSDLStart, ForceStopSDL, Begin,
              Returns, LastReturns, StatusReturns, CallTimesOut, restOfScript, ByHand
<1>2. CASE \/ Greets \/ AppSpawns \/ AppWatched \/ ProcOpens \/ ProcReads \/ ProcEnds \/ StopEnds
           \/ StatusCounts \/ StatusEnds \/ \E sig \in {"SIGTERM", "SIGKILL"} : StopKills(sig)
  BY <1>2 DEF Greets, AppSpawns, AppWatched, ProcOpens, ProcReads, ProcEnds, StopEnds, StatusCounts,
              StatusEnds, StopKills, restOfScript, ByHand
<1>3. CASE HmiCall \/ HmiCallEnds \/ IsStartedAgain \/ ByHand \/ Dies
  BY <1>3 DEF HmiCall, HmiCallEnds, IsStartedAgain, ByHand, Dies, restOfScript
<1>4. ASSUME NEW p \in Pids, \/ Monitor(p) \/ Exits(p) \/ Moves(p, "boot", "run")
                             \/ Moves(p, "close", "late")
      PROVE  seen \subseteq seen' /\ (ByHand => "foreign" \in seen')
  BY <1>4 DEF Monitor, Exits, Moves, ByHand
<1>. QED
  BY <1>1, <1>2, <1>3, <1>4 DEF Next, Worker

(* StartApp: the call is the first, and there is no SDL.                   *)
LEMMA StartsFirst ==
  ASSUME CallTypes, ProcTypes, OneAlive, StartFirst, ProcStep, ~ByHand
  PROVE  /\ OneAlive'
         /\ \/ NoBirth
            \/ AppSpawns /\ job.rpc = "none" /\ job'.rpc = "app_start"
<1>1. CASE NoBirth
  BY <1>1 DEF NoBirth, OneAlive
<1>2. ASSUME NEW p \in Pids, Born(p)
      PROVE  /\ OneAlive'
             /\ AppSpawns /\ job.rpc = "none" /\ job'.rpc = "app_start"
  <2>1. AppSpawns /\ job.rpc = "none" /\ job'.rpc = "app_start"
    BY <1>2 DEF Born
  <2>2. Takes /\ Taken.rpc = "app_start"
    BY <2>1 DEF AppSpawns, Serves
  <2>3. 1 \in 1..Len(rpcs) /\ rpcs[1].rpc = "app_start"
    BY <2>2, AfterTakes
  <2>4. Nobody
    BY <2>3 DEF StartFirst
  <2>5. \A q \in Pids : q # p => proc'[q] = proc[q]
    BY <1>2, AfterBirth
  <2>6. \A q \in Pids : Alive(q)' => q = p
    BY <2>4, <2>5 DEF Nobody, Alive
  <2>. QED
    BY <2>1, <2>6 DEF OneAlive
<1>. QED
  BY <1>1, <1>2, Births

(* An app_start at the server is the first call, and there is no SDL.      *)
LEMMA StartFirstKept ==
  ASSUME CallTypes, ProcTypes, Settled, OneAlive, StartFirst, NoneReported, CallStep, ProcStep,
         ~ByHand, "idle" \notin seen'
  PROVE  StartFirst'
<1>1. NoBirth \/ (AppSpawns /\ job.rpc = "none" /\ job'.rpc = "app_start")
  BY StartsFirst
<1>2. NoBirth /\ Nobody => Nobody'
  BY DEF NoBirth, Nobody
<1>3. ASSUME job'.rpc = job.rpc
      PROVE  Nobody => Nobody'
  BY <1>1, <1>2, <1>3
<1>4. ASSUME job'.rpc = job.rpc, Len(rpcs') = Len(rpcs),
             \A i \in 1..Len(rpcs) : rpcs'[i].rpc = rpcs[i].rpc
      PROVE  StartFirst'
  BY <1>3, <1>4 DEF StartFirst
<1>5. ASSUME NEW rpc \in Rpcs, Makes(rpc)
      PROVE  StartFirst'
  <2>1. UNCHANGED job
    BY <1>5 DEF Makes
  <2>2. CASE UNCHANGED rpcs
    BY <1>4, <2>1, <2>2
  <2>3. ASSUME NEW r \in AppRequest, r.rpc = rpc, rpcs' = Append(rpcs, r)
        PROVE  StartFirst'
    <3>1. /\ Len(rpcs) \in Nat /\ Len(rpcs') = Len(rpcs) + 1
          /\ rpcs'[Len(rpcs) + 1] = r
          /\ \A i \in 1..Len(rpcs) : rpcs'[i] = rpcs[i]
          /\ \A i \in 1..Len(rpcs') : i \in 1..Len(rpcs) \/ i = Len(rpcs) + 1
      BY <2>3, AfterCall
    <3>2. ASSUME rpc = "app_start"
          PROVE  Len(rpcs) = 0 /\ job.rpc \in {"none", "hmi"} /\ Nobody
      <4>1. /\ call.state = "answered" /\ call.num = SUCCESS
            /\ script.op = "start" /\ script.pc = "status" /\ call.text = NOT_RUNNING
        BY <1>5, <3>2 DEF Makes
      <4>2. Still /\ Nobody
        BY <4>1 DEF Settled, NoneReported
      <4>. QED
        BY <4>2 DEF Still
    <3>3. ASSUME NEW i \in 1..Len(rpcs'), rpcs'[i].rpc = "app_start"
          PROVE  i = 1 /\ job.rpc \in {"none", "hmi"} /\ Nobody
      <4>1. CASE i \in 1..Len(rpcs)
        BY <3>1, <3>3, <4>1 DEF StartFirst
      <4>2. CASE i = Len(rpcs) + 1
        BY <2>3, <3>1, <3>2, <3>3, <4>2
      <4>. QED
        BY <3>1, <4>1, <4>2
    <3>. QED
      BY <1>3, <2>1, <3>3 DEF StartFirst
  <2>. QED
    BY <1>5, <2>2, <2>3 DEF Makes
<1>6. CASE Finishes \/ Beside
  BY <1>4, <1>6 DEF Finishes, Beside
<1>7. CASE Leaves
  BY <1>4, <1>7, AfterForsakes DEF Leaves
<1>8. ASSUME Takes
      PROVE  StartFirst'
  <2>1. /\ Len(rpcs) \in Nat
        /\ \A i \in 1..Len(rpcs') :
             i \in Nat /\ i >= 1 /\ i + 1 \in 1..Len(rpcs) /\ rpcs'[i] = rpcs[i + 1]
    BY <1>8, AfterTakes
  <2>2. ASSUME NEW i \in 1..Len(rpcs')
        PROVE  rpcs'[i].rpc # "app_start"
    <3>1. i + 1 \in 1..Len(rpcs) /\ rpcs'[i] = rpcs[i + 1] /\ i + 1 # 1
      BY <2>1
    <3>. QED
      BY <3>1 DEF StartFirst
  <2>. QED
    BY <2>2 DEF StartFirst
<1>9. ASSUME UNCHANGED rpcs, job.rpc \notin {"none", "hmi"}
      PROVE  StartFirst'
  BY <1>9 DEF StartFirst
<1>10. CASE Begins
  BY <1>8, <1>10 DEF Begins
<1>11. CASE Works
  <2>1. job.rpc \notin {"none", "hmi"} /\ UNCHANGED rpcs
    BY <1>11 DEF Works, ScanJobs
  <2>. QED
    BY <1>9, <2>1
<1>12. CASE Hmi
  <2>1. UNCHANGED rpcs /\ job'.rpc \in {"none", "hmi"}
    BY <1>12 DEF Hmi, IdleJobs
  <2>2. NoBirth
    BY <1>1, <2>1
  <2>. QED
    BY <1>2, <2>1, <2>2 DEF StartFirst
<1>13. CASE Loses
  <2>1. Len(rpcs') = 0
    BY <1>13 DEF Loses
  <2>. QED
    BY <2>1 DEF StartFirst
<1>14. ASSUME NEW r, NEW num, NEW text, Responds(r, num, text)
       PROVE  StartFirst'
  BY <1>8, <1>9, <1>14 DEF Responds
<1>. QED
  BY <1>5, <1>6, <1>7, <1>10, <1>11, <1>12, <1>13, <1>14 DEF CallStep

(* While /proc is read, an SDL that was not found is ahead.                *)
LEMMA NoneSeenKept ==
  ASSUME CallTypes, ProcTypes, OneAlive, StartFirst, NoneSeen, CallStep, ProcStep, ~ByHand
  PROVE  NoneSeen'
<1>1. ASSUME job'.rpc # "app_check_status"
      PROVE  NoneSeen'
  BY <1>1 DEF NoneSeen
<1>2. ASSUME job.rpc = "app_check_status"
      PROVE  NoBirth
  BY <1>2, StartsFirst
<1>3. ASSUME job.rpc = "app_check_status", job'.rpc = job.rpc, job'.step = job.step,
             job'.next = job.next, job'.found = job.found
      PROVE  NoneSeen'
  BY <1>2, <1>3 DEF NoneSeen, NoBirth
<1>4. ASSUME UNCHANGED job
      PROVE  NoneSeen'
  BY <1>1, <1>3, <1>4
<1>5. CASE Leaves
  BY <1>1, <1>3, <1>5, AfterForsakes DEF Leaves
<1>6. CASE Begins
  <2>1. CASE AppSpawns
    <3>1. job'.rpc = "app_start"
      BY <1>6, <2>1 DEF Begins, AppSpawns, Serves
    <3>. QED
      BY <1>1, <3>1
  <2>2. CASE ProcOpens
    <3>1. job'.step = "scan" /\ job'.next = 1
      BY <2>2 DEF ProcOpens
    <3>2. \A p \in Pids : p >= 1
      BY AppsAssumption DEF Pids
    <3>. QED
      BY <3>1, <3>2 DEF NoneSeen
  <2>. QED
    BY <1>6, <2>1, <2>2 DEF Begins
<1>7. CASE Works
  <2>1. job.rpc \in {"app_stop", "app_check_status"} /\ job'.rpc = job.rpc /\ job \in ScanJobs
    BY <1>7 DEF Works, ScanJobs
  <2>2. CASE job.rpc = "app_stop"
    BY <1>1, <2>1, <2>2
  <2>3. ASSUME job.rpc = "app_check_status", job'.found = <<>>
        PROVE  \A p \in Pids : Alive(p)' => job'.step = "scan" /\ p >= job'.next
    <3>0. /\ job.next \in Nat /\ job.found \in Seq(Pids) /\ MaxPid \in Nat
          /\ \A p \in Pids : p \in Nat /\ p <= MaxPid
      BY <2>1, ScanFields, AppsAssumption DEF Pids
    <3>1. \A p \in Pids : Alive(p)' => Alive(p)
      BY <1>2, <2>3 DEF NoBirth
    <3>2. CASE ProcReads
      <4>1. /\ job'.found = IF Alive(job.next) THEN Append(job.found, job.next) ELSE job.found
            /\ job'.step = "scan" /\ job'.next = job.next + 1 /\ job.next \in Pids
        BY <2>1, <3>2, ScanFields, AppsAssumption DEF ProcReads, ScanJobs, Pids
      <4>2. Append(job.found, job.next) # <<>>
        <5>1. job.found \in Seq(Pids) /\ job.next \in Pids
          BY <3>0, <4>1
        <5>2. Len(Append(job.found, job.next)) = Len(job.found) + 1 /\ Len(job.found) \in Nat
          BY <5>1
        <5>3. Len(Append(job.found, job.next)) # Len(<<>>)
          BY <5>2
        <5>. QED
          BY <5>3
      <4>3. ~Alive(job.next) /\ job.found = <<>>
        BY <2>3, <4>1, <4>2
      <4>4. \A p \in Pids : Alive(p) => p >= job.next /\ p # job.next
        BY <2>3, <4>3 DEF NoneSeen
      <4>. QED
        BY <3>0, <3>1, <4>1, <4>4
    <3>3. CASE ProcEnds
      <4>1. job.next > MaxPid /\ job'.found = job.found
        BY <2>1, <3>3 DEF ProcEnds, ScanJobs
      <4>2. \A p \in Pids : Alive(p) => p >= job.next
        BY <2>3, <4>1 DEF NoneSeen
      <4>. QED
        BY <3>0, <3>1, <4>1, <4>2
    <3>4. CASE StatusCounts
      <4>1. job'.found = job.found /\ HasPid
        BY <2>1, <3>4 DEF StatusCounts, ScanJobs
      <4>2. job.next \in 1..Len(job.found)
        BY <2>1, <4>1, PidFound
      <4>3. Len(job.found) = 0
        BY <2>3, <4>1
      <4>. QED
        BY <4>2, <4>3
    <3>. QED
      BY <1>7, <2>3, <3>2, <3>3, <3>4 DEF Works, StopEnds, StopKills, InStep
  <2>. QED
    BY <2>1, <2>2, <2>3 DEF NoneSeen
<1>8. CASE Hmi
  <2>1. job'.rpc \in {"none", "hmi"}
    BY <1>8 DEF Hmi, IdleJobs
  <2>. QED
    BY <1>1, <2>1
<1>9. ASSUME job' = NoJob
      PROVE  NoneSeen'
  BY <1>1, <1>9, Shapes
<1>10. /\ \A rpc \in Rpcs : Makes(rpc) => UNCHANGED job
       /\ Finishes \/ Beside => UNCHANGED job
  BY DEF Makes, Finishes, Beside
<1>11. /\ Loses => job' = NoJob
       /\ \A r, num, text : Responds(r, num, text) => job' = NoJob
  BY DEF Loses, Responds, Respond
<1>. QED
  BY <1>4, <1>5, <1>6, <1>7, <1>8, <1>9, <1>10, <1>11 DEF CallStep

(* After the status NOT_RUNNING there is no SDL until StartSDL goes on.    *)
LEMMA NoneReportedKept ==
  ASSUME CallTypes, ScriptTypes, ProcTypes, ScanTrue, Awaited, Settled, OneAlive, StartFirst,
         NoneSeen, NoneReported, CallStep, ProcStep, ~ByHand
  PROVE  NoneReported'
<1>1. NoBirth \/ AppSpawns
  BY StartsFirst
<1>2. NoBirth /\ Nobody => Nobody'
  BY DEF NoBirth, Nobody
<1>3. ASSUME UNCHANGED <<call, script>>
      PROVE  NoneReported'
  <2>1. CASE ~Still
    <3>1. ~(call.state = "answered" /\ call.num = SUCCESS)
      BY <2>1 DEF Settled
    <3>. QED
      BY <1>3, <3>1 DEF NoneReported
  <2>2. CASE Still
    <3>1. ~AppSpawns
      BY <2>2 DEF AppSpawns, Serves, Takes, Still
    <3>. QED
      BY <1>1, <1>2, <1>3, <3>1 DEF NoneReported
  <2>. QED
    BY <2>1, <2>2
<1>4. ASSUME ~(call'.state = "answered" /\ call'.num = SUCCESS)
      PROVE  NoneReported'
  BY <1>4 DEF NoneReported
<1>5. \A rpc \in Rpcs : Makes(rpc) => ~(call'.state = "answered" /\ call'.num = SUCCESS)
  BY DEF Makes
<1>6. Finishes \/ Leaves => ~(call'.state = "answered" /\ call'.num = SUCCESS)
  BY DEF Finishes, Leaves
<1>7. Begins \/ Works \/ Hmi \/ Loses \/ Beside => UNCHANGED <<call, script>>
  BY DEF Begins, Works, Hmi, Loses, Beside, scriptSide
<1>8. ASSUME NEW r \in AppRequest \cup StartJobs \cup ScanJobs, NEW num, NEW text,
             Responds(r, num, text)
      PROVE  NoneReported'
  <2>1. CASE ~r.waiting
    <3>1. UNCHANGED <<call, script>>
      BY <1>8, <2>1, ResponseTo DEF Responds, scriptSide
    <3>. QED
      BY <1>3, <3>1
  <2>2. CASE r.waiting
    <3>1. /\ call' = Answered(num, text) /\ \A c \in Rpcs : c = r.rpc => Expected(c)
          /\ UNCHANGED script
      BY <1>8, <2>2, ResponseTo DEF Responds, scriptSide
    <3>2. r.rpc \in Rpcs
      BY DEF AppRequest, StartJobs, ScanJobs, Rpcs
    <3>3. ASSUME script.op = "start", script.pc = "status", text = NOT_RUNNING
          PROVE  Nobody'
      <4>1. r.rpc = "app_check_status"
        BY <3>1, <3>2, <3>3 DEF Expected
      <4>2. StatusEnds /\ r = job
        BY <1>8, <4>1 DEF Responds
      <4>3. call' = Answered(SUCCESS, StatusOf) /\ UNCHANGED proc /\ job.step = "count"
        BY <2>2, <4>2 DEF StatusEnds, Respond, InStep
      <4>4. StatusOf = NOT_RUNNING
        BY <3>1, <3>3, <4>3 DEF Answered
      <4>5. job.found = <<>>
        BY <4>4, Texts DEF StatusOf
      <4>6. Nobody
        BY <4>1, <4>2, <4>3, <4>5 DEF NoneSeen, Nobody
      <4>. QED
        BY <4>3, <4>6 DEF Nobody, Alive
    <3>4. call'.text = text
      BY <3>1 DEF Answered
    <3>. QED
      BY <3>1, <3>3, <3>4 DEF NoneReported
  <2>. QED
    BY <2>1, <2>2
<1>. QED
  BY <1>3, <1>4, <1>5, <1>6, <1>7, <1>8 DEF CallStep

(* One SDL at most.                                                        *)
LEMMA OneStartKept ==
  ASSUME CallTypes, ScriptTypes, ProcTypes, ScanTrue, Awaited, Settled, OneStart,
         CallStep, ProcStep, Next
  PROVE  OneStart'
<1>. SUFFICES ASSUME ~Excused'
     PROVE  OneAlive' /\ StartFirst' /\ NoneSeen' /\ NoneReported'
  BY DEF OneStart
<1>1. ~Excused /\ ~ByHand /\ "idle" \notin seen'
  BY SeenGrows DEF Excused
<1>2. OneAlive /\ StartFirst /\ NoneSeen /\ NoneReported
  BY <1>1 DEF OneStart
<1>. QED
  BY <1>1, <1>2, StartsFirst, StartFirstKept, NoneSeenKept, NoneReportedKept

-----------------------------------------------------------------------------
(* The invariant.                                                          *)

(* It holds at the start.                                                  *)
LEMMA InvInit == Init => Inv
<1>. SUFFICES ASSUME Init
     PROVE  Inv
  OBVIOUS
<1>1. /\ client = "none" /\ server = TRUE /\ rpcs = <<>> /\ job = NoJob /\ call = NoCall
      /\ proc = [p \in Pids |-> NoProcess] /\ monitored = {} /\ script = NoScript
      /\ last = NoLast
  BY DEF Init, CallInit
<1>2. /\ job \in IdleJobs /\ job.rpc = "none" /\ ~job.waiting /\ call.state = "idle"
      /\ last.op = "none" /\ Len(rpcs) = 0
  BY <1>1 DEF NoJob, IdleJobs, NoCall, NoLast
<1>3. <<>> \in Seq(AppRequest)
  OBVIOUS
<1>4. CallTypes /\ ClientTypes
  BY <1>1, <1>2, <1>3 DEF CallTypes, ClientTypes
<1>5. ScriptTypes
  BY <1>1, <1>2 DEF ScriptTypes, NoScript, Scripts
<1>6. proc \in [Pids -> Process] /\ \A p \in Pids : proc[p] = NoProcess
  BY <1>1, NewProcess
<1>7. ProcTypes /\ Children
  BY <1>1, <1>2, <1>6, NewProcess DEF ProcTypes, Children
<1>8. Awaited
  BY <1>2 DEF Awaited
<1>9. Settled
  BY <1>1, <1>2 DEF Settled
<1>10. ScanTrue /\ AnswerKept
  BY <1>2 DEF ScanTrue, AnswerKept
<1>11. \A p \in Pids : ~Alive(p)
  BY <1>6, NewProcess DEF Alive
<1>12. OneStart
  BY <1>2, <1>11 DEF OneStart, OneAlive, StartFirst, NoneSeen, NoneReported
<1>. QED
  BY <1>4, <1>5, <1>7, <1>8, <1>9, <1>10, <1>12 DEF Inv

(* Every step keeps it.                                                    *)
LEMMA InvStep ==
  ASSUME Inv, Next
  PROVE  Inv'
<1>1. /\ CallTypes /\ ScriptTypes /\ ProcTypes /\ ClientTypes
      /\ Children /\ Awaited /\ Settled /\ ScanTrue /\ AnswerKept /\ OneStart
  BY DEF Inv
<1>2. CallStep /\ ProcStep
  BY <1>1, CallSteps, ProcSteps
<1>3. CallTypes' /\ ScriptTypes' /\ ProcTypes' /\ ClientTypes'
  BY <1>1, <1>2, CallTypesKept, ScriptTypesKept, ProcTypesKept, ClientTypesKept
<1>4. Children' /\ Awaited' /\ Settled'
  BY <1>1, <1>2, ChildrenKept, AwaitedKept, SettledKept
<1>5. ScanTrue' /\ AnswerKept' /\ OneStart'
  BY <1>1, <1>2, ScanTrueKept, AnswerKeptKept, OneStartKept
<1>. QED
  BY <1>3, <1>4, <1>5 DEF Inv

(* A step that changes nothing keeps it.                                   *)
LEMMA InvStutter ==
  ASSUME Inv, UNCHANGED vars
  PROVE  Inv'
<1>1. UNCHANGED <<client, call, server, rpcs, job, proc, monitored, script, last, seen>>
  BY DEF vars, callVars
<1>2. (CallTypes' <=> CallTypes) /\ (ScriptTypes' <=> ScriptTypes) /\ (ProcTypes' <=> ProcTypes)
  BY <1>1 DEF CallTypes, ScriptTypes, ProcTypes
<1>3. (ClientTypes' <=> ClientTypes) /\ (Children' <=> Children)
  BY <1>1 DEF ClientTypes, Children
<1>4. (Awaited' <=> Awaited) /\ (Settled' <=> Settled)
  BY <1>1 DEF Awaited, Expected, Settled, Still
<1>5. \A p \in Pids : /\ Alive(p)' <=> Alive(p)
                      /\ InCall(p)' <=> InCall(p)
                      /\ Untold(p)' <=> Untold(p)
                      /\ Runs(p)' <=> Runs(p)
                      /\ Found(p)' <=> Found(p)
                      /\ Ahead(p)' <=> Ahead(p)
  BY <1>1 DEF Alive, InCall, Untold, Runs, Found, Ahead
<1>6. ScanTrue' <=> ScanTrue
  BY <1>1, <1>5 DEF ScanTrue
<1>7. /\ NoneInCall' <=> NoneInCall
      /\ NoneRuns' <=> NoneRuns
      /\ AllTold' <=> AllTold
      /\ Nobody' <=> Nobody
      /\ OneAlive' <=> OneAlive
      /\ Excused' <=> Excused
  BY <1>1, <1>5 DEF NoneInCall, NoneRuns, AllTold, Nobody, OneAlive, Excused
<1>8. AnswerKept' <=> AnswerKept
  BY <1>1, <1>7 DEF AnswerKept, Reports
<1>9. OneStart' <=> OneStart
  BY <1>1, <1>5, <1>7 DEF OneStart, StartFirst, NoneSeen, NoneReported
<1>. QED
  BY <1>2, <1>3, <1>4, <1>6, <1>8, <1>9 DEF Inv

(* The invariant holds always.                                             *)
THEOREM Invariant == Spec => []Inv
<1>1. Inv /\ [Next]_vars => Inv'
  BY InvStep, InvStutter
<1>. QED
  BY <1>1, InvInit, PTL DEF Spec

(* TypeOK: clients, processes and the script's call have their types, and  *)
(* thread_monitor_app (utils_manager.cc:40) waits only for children of the *)
(* server, whose death it alone takes notice of.                           *)
THEOREM TypeCorrect == Spec => []TypeOK
<1>1. Inv => TypeOK
  <2>. SUFFICES ASSUME Inv
       PROVE  TypeOK
    OBVIOUS
  <2>1. \A p \in Pids : proc[p] \in Process
    BY DEF Inv, ProcTypes
  <2>2. \A p \in Pids : proc[p].stage \in Stages /\ proc[p].since \in Stages
    BY <2>1 DEF Process
  <2>3. monitored \subseteq {p \in Pids : proc[p].child}
    BY DEF Inv, ProcTypes, Children
  <2>. QED
    BY <2>2, <2>3 DEF Inv, ClientTypes, ScriptTypes, TypeOK
<1>. QED
  BY <1>1, Invariant, PTL

(* OneSDL: StartSDL (SDL.lua:642) never has the server start a second SDL  *)
(* unless one was started by hand or CheckAppStatus (utils_manager.cc:465) *)
(* called one with a single thread CRASHED; for any number of processes,   *)
(* runs of ATF, aborted or not, and calls that are executed after they     *)
(* have timed out.                                                         *)
THEOREM OneSDLCorrect == Spec => []OneSDL
<1>1. Inv => OneSDL
  BY DEF Inv, OneStart, OneAlive, Excused, OneSDL
<1>. QED
  BY <1>1, Invariant, PTL

(* AnswersTrue: what StopApp (utils_manager.cc:437) and CheckAppStatus     *)
(* (utils_manager.cc:465) answer is true of the processes that were there  *)
(* during the whole call, however they come and go while /proc is read,    *)
(* and stays true until the script's next operation.                       *)
THEOREM AnswersCorrect == Spec => []AnswersTrue
<1>1. Inv => AnswersTrue
  <2>. SUFFICES ASSUME Inv
       PROVE  AnswersTrue
    OBVIOUS
  <2>1. AnswerKept
    BY DEF Inv
  <2>2. StopTold
    BY <2>1 DEF AnswerKept, AllTold, Untold, InCall, StopTold
  <2>3. StatusTold
    BY <2>1, Texts DEF AnswerKept, Reports, NoneInCall, NoneRuns, InCall, Runs, StatusTold
  <2>. QED
    BY <2>2, <2>3 DEF AnswersTrue
<1>. QED
  BY <1>1, Invariant, PTL
=============================================================================
