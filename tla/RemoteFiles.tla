----------------------------- MODULE RemoteFiles -----------------------------
(***************************************************************************)
(* Files of SDL in remote mode.  A script of ATF uses backup, restore, get,*)
(* set and clean (SDL.lua), which make calls through remote_file_utils.lua *)
(* and RemoteClient; the worker of the server serves them with the file and*)
(* folder functions of UtilsManager (utils_manager.cc).                    *)
(*                                                                         *)
(* A file is a sequence of blocks.  A function of the server touches its   *)
(* files in several steps; between them SDL may write the log, and the     *)
(* server or ATF may die.  After that a new ATF runs the script again.     *)
(***************************************************************************)
EXTENDS RemoteCall, FiniteSets, SequencesExt

CONSTANTS
  Absent,      \* no such file
  Originals,   \* contents the configuration may have before the first run
  MaxPiece,    \* kMaxSizeData, in blocks
  MaxInt,      \* the largest int, in blocks
  Root, Sub, Crt, Hash, Extra,  \* a folder: see Parent
  Faults,      \* what may go wrong: see Oddities
  MaxFaults,   \* bound: kinds of faults in one behaviour
  MaxRuns,     \* bound: runs of ATF
  MaxOps,      \* bound: operations of the script
  MaxLog       \* bound: length of the log

(* "atf" ATF dies, "server" the server dies, "slow" a command runs longer  *)
(* than a call waits, "disk" a write fails, "shrink" SDL starts its log    *)
(* anew, "writer" SDL writes into a folder that is being deleted,          *)
(* "malformed" a call with parameters that the function does not take.     *)
Oddities == {"atf", "server", "slow", "disk", "shrink", "writer", "malformed"}

ASSUME FilesAssumption ==
  /\ MaxPiece \in Nat \ {0} /\ MaxInt \in Nat \ {0} /\ MaxPiece <= MaxInt
  /\ Root \notin {Sub, Crt, Hash, Extra} /\ Sub \notin {Crt, Hash, Extra}
  /\ Crt \notin {Hash, Extra} /\ Hash # Extra
  /\ Originals \subseteq ({Absent} \cup Seq({"o"}))
  /\ Faults \subseteq Oddities
  /\ {MaxFaults, MaxRuns, MaxOps, MaxLog} \subseteq Nat

VARIABLES
  disk,      \* the files at the server
  tree,      \* what there is of the folder
  tmp,       \* the copy of a file in /tmp of ATF
  script,    \* the operation the script is in: its name, file and place
  guarded,   \* this run has made its backup
  last,      \* the last operation that ended, and its result
  first,     \* history: the file when its first piece was read
  original,  \* history: the configuration before the first run
  seen,      \* history: what went wrong
  nRuns, nOps

vars == <<callVars, disk, tree, tmp, script, guarded, last, first, original, seen,
          nRuns, nOps>>
scriptVars == <<tmp, script, guarded, last, nRuns, nOps>>

Cfg == "cfg"
Log == "log"
Origin(f) == IF f = Cfg THEN "cfg_origin" ELSE "log_origin"
Names == {Cfg, Log, Origin(Cfg)}

NoScript == [op |-> "none", file |-> Cfg, pc |-> "idle"]
NoLast == [op |-> "none", num |-> SUCCESS]
Place(pc) == [script EXCEPT !.pc = pc]

(* What the functions of the script write.                                 *)
New == <<"n">>
Edited(c) == [i \in DOMAIN c |-> IF i = 1 THEN "e" ELSE c[i]]

-----------------------------------------------------------------------------
(* The parameters of the calls                                             *)

STRING1 == <<"STRING">>
STRING2 == <<"STRING", "STRING">>
STRING3 == <<"STRING", "STRING", "STRING">>
PIECE == <<"STRING", "STRING", "INT", "INT">>

(* The types UtilsManager::Bind asks for.                                  *)
FileCalls == {"file_backup", "file_restore", "file_exists", "file_delete"}
FolderCalls == {"folder_exists", "folder_delete", "folder_create"}
Signature ==
  [rpc \in FileCalls \cup FolderCalls \cup {"file_update", "file_content", "command_execute"} |->
     CASE rpc \in FileCalls -> STRING2
       [] rpc = "file_update" -> STRING3
       [] rpc = "file_content" -> PIECE
       [] OTHER -> STRING1]

(* The lambda of the call goes on to the function only with parameters of  *)
(* the right number and types.                                             *)
WellFormed(r) ==
  /\ r.rpc \in DOMAIN Signature
  /\ Len(r.types) = Len(Signature[r.rpc])
  /\ \A i \in DOMAIN r.types : r.types[i] = Signature[r.rpc][i]
-----------------------------------------------------------------------------
(* The script                                                              *)

serverVars == <<disk, tree, first, original>>

May(fault) ==
  fault \in Faults /\ Cardinality((seen \cap Oddities) \cup {fault}) <= MaxFaults

(* A run of ATF begins, and connects to the server.                        *)
RunBegins ==
  /\ script = NoScript
  /\ nRuns < MaxRuns
  /\ Connect
  /\ script' = [NoScript EXCEPT !.op = "connect", !.pc = "last"]
  /\ nRuns' = nRuns + 1
  /\ UNCHANGED <<serverVars, tmp, guarded, last, seen, nOps>>

(* Operation op begins with a call.                                        *)
Begin(op, f, pc, rpc, types, arg) ==
  /\ script = NoScript
  /\ client # "none"
  /\ nOps < MaxOps
  /\ script' = [op |-> op, file |-> f, pc |-> pc]
  /\ nOps' = nOps + 1
  /\ last' = NoLast
  /\ first' = <<>>
  /\ Call(rpc, types, arg)
  /\ UNCHANGED <<client, server, job, disk, tree, original, tmp, seen, nRuns>>

(* backup(f) restores a leftover of an earlier run before it copies.       *)
Backup ==
  /\ Begin("backup", Cfg, "origin", "file_exists", STRING2, [file |-> Origin(Cfg)])
  /\ UNCHANGED guarded

Restore ==
  /\ Begin("restore", Cfg, "origin", "file_exists", STRING2, [file |-> Origin(Cfg)])
  /\ guarded' = FALSE

(* INI.get, PTS.get; getFileContent asks whether the file exists.          *)
Get(f) ==
  /\ Begin("get", f, "exists", "file_exists", STRING2, [file |-> f])
  /\ UNCHANGED guarded

(* INI.set: getFileContent, setParamValue, saveFileContent.                *)
Set ==
  /\ guarded
  /\ Begin("set", Cfg, "exists", "file_exists", STRING2, [file |-> Cfg])
  /\ UNCHANGED guarded

(* PreloadedPT.set: saveFileContent.                                       *)
Put ==
  /\ guarded
  /\ Begin("put", Cfg, "last", "file_update", STRING3, [file |-> Cfg, data |-> New])
  /\ UNCHANGED guarded

(* AppInfo.clean: deleteFile.                                              *)
Clean ==
  /\ guarded
  /\ Begin("clean", Cfg, "last", "file_delete", STRING2, [file |-> Cfg])
  /\ UNCHANGED guarded

(* ExecuteCommand.                                                         *)
Command ==
  /\ Begin("command", Cfg, "last", "command_execute", STRING1, <<>>)
  /\ UNCHANGED guarded

(* IsFolderExists, CreateFolder, DeleteFolder.                             *)
Folder(rpc) ==
  /\ Begin(rpc, Cfg, "last", rpc, STRING1, [file |-> Root])
  /\ UNCHANGED guarded

(* file_content by call instead of file_call.                              *)
Malformed ==
  /\ "malformed" \in Faults
  /\ Begin("malformed", Cfg, "last", "file_content", STRING2, [file |-> Cfg])
  /\ UNCHANGED guarded

(* The operation ends with result num.                                     *)
Ends(num) ==
  /\ script' = NoScript
  /\ last' = [op |-> script.op, num |-> num]
  /\ guarded' = (guarded \/ script.op = "backup")
  /\ call' = NoCall
  /\ UNCHANGED rpcs

(* The operation goes on with another call.                                *)
Goes(pc, rpc, types, arg) ==
  /\ script' = Place(pc)
  /\ Call(rpc, types, arg)
  /\ UNCHANGED <<last, guarded>>

At(pc) == script.pc = pc /\ call.state = "answered"
restOfReturn == <<client, server, job, serverVars, nRuns, nOps>>

LastReturns == At("last") /\ Ends(call.num) /\ UNCHANGED <<restOfReturn, tmp, seen>>

(* Mutant: backup does not restore a leftover of an earlier run.           *)
OriginReturnsNoRestore ==
  /\ At("origin")
  /\ CASE script.op = "backup" -> Goes("last", "file_backup", STRING2, [file |-> Cfg])
       [] script.op = "restore" /\ call.num = SUCCESS ->
            Goes("restored", "file_restore", STRING2, [file |-> Cfg])
       [] OTHER -> Ends(call.num)
  /\ UNCHANGED <<restOfReturn, tmp, seen>>

(* restore: RestoreFile when there is a backup, as far as the call could   *)
(* tell.                                                                   *)
OriginReturns ==
  /\ At("origin")
  /\ CASE call.num = SUCCESS -> Goes("restored", "file_restore", STRING2, [file |-> Cfg])
       [] call.num # SUCCESS /\ script.op = "backup" ->
            Goes("last", "file_backup", STRING2, [file |-> Cfg])
       [] OTHER -> Ends(call.num)
  /\ seen' = IF script.op = "backup" /\ call.num = TIMEOUT_EXPIRED
             THEN seen \cup {"unknown"} ELSE seen
  /\ UNCHANGED <<restOfReturn, tmp>>

RestoreReturns ==
  /\ At("restored")
  /\ IF script.op = "backup" THEN Goes("last", "file_backup", STRING2, [file |-> Cfg])
     ELSE Ends(call.num)
  /\ UNCHANGED <<restOfReturn, tmp, seen>>

(* file_call asks for the piece at offset.                                 *)
AsksPiece(pc, offset) ==
  Goes(pc, "file_content", PIECE, [file |-> script.file, offset |-> offset])

(* getFileContent: GetFile if the file exists; set fails without content.  *)
ExistsReturns ==
  /\ At("exists")
  /\ IF call.num = SUCCESS THEN AsksPiece("first", 0) ELSE Ends(call.num)
  /\ UNCHANGED <<restOfReturn, tmp, seen>>

(* Mutant: the copy goes to the end of what is in /tmp.                    *)
FirstPieceAppends ==
  /\ At("first")
  /\ IF call.num < 0 THEN Ends(call.num) /\ UNCHANGED tmp
     ELSE /\ tmp' = IF tmp = Absent THEN call.text ELSE tmp \o call.text
          /\ IF call.num > 0 THEN AsksPiece("more", call.num)
             ELSE script' = Place("copied") /\ UNCHANGED <<call, rpcs, last, guarded>>
  /\ UNCHANGED <<restOfReturn, seen>>

(* file_call, first response: the old copy is removed.                     *)
FirstPiece ==
  /\ At("first")
  /\ IF call.num < 0 THEN Ends(call.num) /\ UNCHANGED tmp
     ELSE /\ tmp' = call.text
          /\ IF call.num > 0 THEN AsksPiece("more", call.num)
             ELSE script' = Place("copied") /\ UNCHANGED <<call, rpcs, last, guarded>>
  /\ UNCHANGED <<restOfReturn, seen>>

(* file_call, a response in the loop.                                      *)
MorePiece ==
  /\ At("more")
  /\ IF call.num < 0 THEN Ends(FAILED) /\ tmp' = Absent
     ELSE /\ tmp' = tmp \o call.text
          /\ IF call.num > 0 THEN AsksPiece("more", call.num)
             ELSE script' = Place("copied") /\ UNCHANGED <<call, rpcs, last, guarded>>
  /\ UNCHANGED <<restOfReturn, seen>>

(* getFileContent reads the copy and removes it.                           *)
Copied ==
  /\ At("copied")
  /\ IF script.op = "set"
     THEN Goes("last", "file_update", STRING3, [file |-> Cfg, data |-> Edited(tmp)])
     ELSE Ends(SUCCESS)
  /\ tmp' = Absent
  /\ UNCHANGED <<restOfReturn, seen>>

(* The worker is in a command that takes longer than a call waits.         *)
Hangs == job.rpc = "command_execute" /\ job.slow

(* A call of the script times out behind a command or without a server.    *)
CallTimesOut ==
  /\ Timeout(Hangs)
  /\ UNCHANGED <<serverVars, scriptVars, seen>>

(* The run ends: after the last step, or at any moment.                    *)
RunEnds ==
  /\ client # "none"
  /\ script = NoScript \/ May("atf")
  /\ Disconnect
  /\ script' = NoScript
  /\ guarded' = FALSE
  /\ last' = NoLast
  /\ seen' = IF script = NoScript THEN seen ELSE seen \cup {"atf"}
  /\ UNCHANGED <<serverVars, tmp, nRuns, nOps>>

-----------------------------------------------------------------------------
(* UtilsManager: files                                                     *)

idleVars == <<client, server, scriptVars, original>>

Serves(rpc) == Takes /\ Taken.rpc = rpc /\ WellFormed(Taken)
InStep(rpcSet, step) == job.rpc \in rpcSet /\ job.step = step

(* kIncorrNumberParams, kBadTypeValue.                                     *)
Refuses ==
  /\ Takes
  /\ Taken.rpc \in DOMAIN Signature
  /\ ~WellFormed(Taken)
  /\ Respond(Taken, FAILED, <<>>)
  /\ UNCHANGED <<idleVars, disk, tree, first, seen>>

CodeOf(ok) == IF ok THEN SUCCESS ELSE FAILED

FileExists ==
  /\ Serves("file_exists")
  /\ Respond(Taken, CodeOf(disk[Taken.arg.file] # Absent), <<>>)
  /\ UNCHANGED <<idleVars, disk, tree, first, seen>>

FileDelete ==
  /\ Serves("file_delete")
  /\ disk' = [disk EXCEPT ![Taken.arg.file] = Absent]
  /\ Respond(Taken, CodeOf(disk[Taken.arg.file] # Absent), <<>>)
  /\ UNCHANGED <<idleVars, tree, first, seen>>

(* A stream to file f: it is opened, which truncates it, and c is written  *)
(* into it.  Of that any part has gone to the disk, the rest is in the     *)
(* buffer until the stream is closed.  good is the state of the stream.    *)
Streams(r, f, c, good, step, noted) ==
  \E n \in 0..Len(c), fails \in BOOLEAN :
    /\ fails => n < Len(c) /\ May("disk")
    /\ disk' = [disk EXCEPT ![f] = SubSeq(c, 1, n)]
    /\ job' = [rpc |-> r.rpc, waiting |-> r.waiting, file |-> r.arg.file, step |-> step, to |-> f,
               data |-> IF fails THEN SubSeq(c, 1, n) ELSE c, good |-> good /\ ~fails]
    /\ seen' = seen \cup noted \cup (IF fails THEN {"disk"} ELSE {})

(* What dest << src.rdbuf() writes; without a character it sets failbit.   *)
Source(f) == IF disk[f] = Absent THEN <<>> ELSE disk[f]
Copies(r, from, to, step) ==
  Streams(r, to, Source(from), Source(from) # <<>>, step,
          IF disk[from] = Absent THEN {"missing"} ELSE {})

FileBackup ==
  /\ Serves("file_backup")
  /\ LET f == Taken.arg.file
     IN Copies(Taken, f, Origin(f), "close")
  /\ UNCHANGED <<idleVars, call, tree, first>>

FileUpdate ==
  /\ Serves("file_update")
  /\ Streams(Taken, Taken.arg.file, Taken.arg.data, TRUE, "close", {})
  /\ UNCHANGED <<idleVars, call, tree, first>>

FileRestore ==
  /\ Serves("file_restore")
  /\ Copies(Taken, Origin(Taken.arg.file), Taken.arg.file, "delete")
  /\ UNCHANGED <<idleVars, call, tree, first>>

(* FileRestore goes on: the backup is deleted, however the copy went.      *)
RestoreDeletes ==
  /\ InStep({"file_restore"}, "delete")
  /\ disk' = [disk EXCEPT ![Origin(job.file)] = Absent]
  /\ job' = [job EXCEPT !.step = "close"]
  /\ UNCHANGED <<idleVars, call, rpcs, tree, first, seen>>

(* The return value is taken, then the destructor of the stream writes what*)
(* is in the buffer; nobody learns whether it could.                       *)
StreamCloses ==
  /\ InStep({"file_backup", "file_update", "file_restore"}, "close")
  /\ \/ disk' = [disk EXCEPT ![job.to] = job.data] /\ UNCHANGED seen
     \/ May("disk") /\ disk[job.to] # job.data
        /\ seen' = seen \cup {"disk"} /\ UNCHANGED disk
  /\ Respond(job, CodeOf(job.good), <<>>)
  /\ UNCHANGED <<idleVars, rpcs, tree, first>>

(* size_t and long int are wider than the files; the offset goes back as   *)
(* an int.                                                                 *)
Narrow(n) ==
  LET m == n % (2 * (MaxInt + 1)) IN IF m > MaxInt THEN m - 2 * (MaxInt + 1) ELSE m

(* GetFileContent: what is left after the offset, at most one piece.  If   *)
(* the file ends before the offset, the unsigned difference is huge.       *)
PieceLength(size, offset) ==
  IF size < offset \/ size - offset > MaxPiece THEN MaxPiece ELSE size - offset

ContentOpens ==
  /\ Serves("file_content")
  /\ LET f == Taken.arg.file
     IN \/ /\ disk[f] = Absent
           /\ Respond(Taken, FAILED, <<>>)
           /\ UNCHANGED first
        \/ /\ disk[f] # Absent
           /\ job' = [rpc |-> Taken.rpc, waiting |-> Taken.waiting, step |-> "read",
                      file |-> f, offset |-> Taken.arg.offset,
                      len |-> PieceLength(Len(disk[f]), Taken.arg.offset), text |-> <<>>]
           /\ first' = IF Taken.arg.offset = 0 THEN disk[f] ELSE first
           /\ UNCHANGED call
  /\ UNCHANGED <<idleVars, disk, tree, seen>>

(* fread; what it does not fill of the buffer is uninitialized.            *)
ContentReads ==
  /\ InStep({"file_content"}, "read")
  /\ LET c == disk[job.file]
         at(i) == job.offset + i
     IN job' = [job EXCEPT !.step = "end",
                           !.text = [i \in 1..job.len |->
                                       IF at(i) <= Len(c) THEN c[at(i)] ELSE "junk"]]
  /\ UNCHANGED <<idleVars, call, rpcs, disk, tree, first, seen>>

(* The second ftell: the piece is the last one if it ends where the file   *)
(* ends now.                                                               *)
ContentEnds ==
  /\ InStep({"file_content"}, "end")
  /\ LET next == job.len + job.offset
     IN Respond(job, IF next = Len(disk[job.file]) THEN SUCCESS ELSE Narrow(next),
                job.text)
  /\ UNCHANGED <<idleVars, rpcs, disk, tree, first, seen>>

-----------------------------------------------------------------------------
(* UtilsManager: folders and commands                                      *)

(* Root has the folder Sub, Sub the file Crt and a link to it, Hash; SDL   *)
(* may put another file, Extra, there.                                     *)
Nodes == {Root, Sub, Crt, Hash, Extra}
Parent == [n \in Nodes \ {Root} |-> IF n = Sub THEN Root ELSE Sub]
Children(d) == {n \in tree \ {Root} : Parent[n] = d}

FolderExists ==
  /\ Serves("folder_exists")
  /\ Respond(Taken, CodeOf(Root \in tree), <<>>)
  /\ UNCHANGED <<idleVars, disk, tree, first, seen>>

FolderCreate ==
  /\ Serves("folder_create")
  /\ tree' = tree \cup {Root}
  /\ Respond(Taken, CodeOf(Root \notin tree), <<>>)
  /\ UNCHANGED <<idleVars, disk, first, seen>>

(* FolderDelete: opendir.  path holds the calls of the recursion, unread   *)
(* what readdir must still return in each; what SDL adds later it may miss.*)
FolderDelete ==
  /\ Serves("folder_delete")
  /\ \/ /\ Root \in tree
        /\ job' = [rpc |-> Taken.rpc, waiting |-> Taken.waiting, step |-> "walk",
                   path |-> <<Root>>, unread |-> tree]
        /\ UNCHANGED call
     \/ /\ Root \notin tree
        /\ Respond(Taken, FAILED, <<>>)
  /\ UNCHANGED <<idleVars, disk, tree, first, seen>>

Here == job.path[Len(job.path)]
Walks == InStep({"folder_delete"}, "walk")

(* The next entry: stat follows links; a folder is deleted first.          *)
DeleteEntry(n) ==
  /\ Walks
  /\ n \in Children(Here)
  /\ \/ /\ n = Hash /\ Crt \notin tree
        /\ Respond(job, FAILED, <<>>)
        /\ seen' = seen \cup {"dangling"}
        /\ UNCHANGED tree
     \/ /\ n = Sub
        /\ job' = [job EXCEPT !.path = Append(@, n)]
        /\ UNCHANGED <<call, tree, seen>>
     \/ /\ n # Sub /\ (n = Hash => Crt \in tree)
        /\ tree' = tree \ {n}
        /\ UNCHANGED <<call, job, seen>>
  /\ UNCHANGED <<idleVars, rpcs, disk, first>>

(* The end of the folder: rmdir, and back to the caller.  A failure ends   *)
(* all calls of the recursion.                                             *)
RemoveFolder ==
  /\ Walks
  /\ Children(Here) \cap job.unread = {}
  /\ \/ /\ Children(Here) # {}
        /\ Respond(job, FAILED, <<>>)
        /\ UNCHANGED tree
     \/ /\ Children(Here) = {}
        /\ tree' = tree \ {Here}
        /\ IF Len(job.path) = 1 THEN Respond(job, SUCCESS, <<>>)
           ELSE job' = [job EXCEPT !.path = Front(@)] /\ UNCHANGED call
  /\ UNCHANGED <<idleVars, rpcs, disk, first, seen>>

(* ExecuteCommand: the worker reads what the command prints until it ends. *)
ExecuteCommand ==
  /\ Serves("command_execute")
  /\ \E slow \in BOOLEAN :
       /\ slow => May("slow")
       /\ job' = [rpc |-> Taken.rpc, waiting |-> Taken.waiting, step |-> "run", slow |-> slow]
       /\ seen' = IF slow THEN seen \cup {"slow"} ELSE seen
  /\ UNCHANGED <<idleVars, call, disk, tree, first>>

(* pclose: WEXITSTATUS of a command that was killed is 0.                  *)
CommandEnds(how) ==
  /\ InStep({"command_execute"}, "run")
  /\ Respond(job, CodeOf(how \in {"exit 0", "killed"}), <<>>)
  /\ UNCHANGED <<idleVars, rpcs, disk, tree, first, seen>>

-----------------------------------------------------------------------------
(* What happens beside the calls                                           *)

(* SDL (external) appends to its log (only while the script copies it does *)
(* it matter when),                                                        *)
LogGrows ==
  /\ script.file = Log
  /\ Len(disk[Log]) < MaxLog
  /\ disk' = [disk EXCEPT ![Log] = Append(@, "s")]
  /\ UNCHANGED <<callVars, scriptVars, tree, first, original, seen>>

(* or starts it anew, once,                                                *)
LogShrinks ==
  /\ May("shrink") /\ "shrink" \notin seen
  /\ script.file = Log
  /\ disk' = [disk EXCEPT ![Log] = <<>>]
  /\ seen' = seen \cup {"shrink"}
  /\ UNCHANGED <<callVars, scriptVars, tree, first, original>>

(* or puts a file into the folder.                                         *)
FolderGrows ==
  /\ May("writer") /\ "writer" \notin seen
  /\ Walks
  /\ Sub \in tree
  /\ tree' = tree \cup {Extra}
  /\ seen' = seen \cup {"writer"}
  /\ UNCHANGED <<callVars, scriptVars, disk, first, original>>

(* The server dies; a copy it was making stays as it is.                   *)
Dies ==
  /\ May("server")
  /\ ServerDies
  /\ seen' = seen \cup {"server"} \cup
             (IF job.rpc \in {"file_backup", "file_restore"} THEN {"torn"} ELSE {})
  /\ UNCHANGED <<disk, tree, first, original, scriptVars>>

IsStartedAgain == ServerStarts /\ UNCHANGED <<disk, tree, first, original, seen, scriptVars>>

Greets == ClientConnected /\ UNCHANGED <<disk, tree, first, original, seen, scriptVars>>

-----------------------------------------------------------------------------
Init ==
  /\ CallInit
  /\ original \in Originals
  /\ disk = [n \in Names |-> CASE n = Cfg -> original [] n = Log -> <<>> [] OTHER -> Absent]
  /\ tree = Nodes \ {Extra}
  /\ tmp = Absent
  /\ script = NoScript /\ guarded = FALSE /\ last = NoLast
  /\ first = <<>> /\ seen = {} /\ nRuns = 0 /\ nOps = 0

Script ==
  \/ RunBegins \/ RunEnds
  \/ Backup \/ Restore \/ Set \/ Put \/ Clean \/ Command \/ Malformed
  \/ \E f \in {Cfg, Log} : Get(f)
  \/ \E rpc \in FolderCalls : Folder(rpc)

Returns ==
  \/ LastReturns \/ OriginReturns \/ RestoreReturns \/ ExistsReturns
  \/ FirstPiece \/ MorePiece \/ Copied

(* What the worker does by itself; a slow command may run for ever.        *)
Worker ==
  \/ Greets \/ Refuses
  \/ FileExists \/ FileDelete \/ FileBackup \/ FileUpdate \/ FileRestore
  \/ RestoreDeletes \/ StreamCloses
  \/ ContentOpens \/ ContentReads \/ ContentEnds
  \/ FolderExists \/ FolderCreate \/ FolderDelete \/ RemoveFolder \/ ExecuteCommand
  \/ \E n \in Nodes : DeleteEntry(n)

CommandDone == \E how \in {"exit 0", "exit 1", "killed"} : CommandEnds(how)

Next ==
  \/ Script \/ Returns \/ CallTimesOut \/ Worker \/ CommandDone
  \/ LogGrows \/ LogShrinks \/ FolderGrows \/ Dies \/ IsStartedAgain

(* The thread of ATF and the worker of the server go on while they can, and*)
(* the 10 s of a call pass.  Nothing says that a slow command ends, that a *)
(* dead server is started again or that SDL writes.                        *)
Fairness ==
  /\ WF_vars(Returns) /\ WF_vars(CallTimesOut) /\ WF_vars(Worker)
  /\ WF_vars(~Hangs /\ CommandDone)

Spec == Init /\ [][Next]_vars /\ Fairness

-----------------------------------------------------------------------------
(* Properties                                                              *)

Content == Seq({"o", "e", "n", "s", "junk"})

(* Types; at most one call of ATF is waited for, and its worker or queue   *)
(* has it as long as the server lives (content_call is synchronous).       *)
TypeOK ==
  /\ client \in {"none", "connected", "lost"} /\ server \in BOOLEAN
  /\ call.state \in {"idle", "waiting", "answered"}
  /\ \A n \in Names : disk[n] = Absent \/ disk[n] \in Content
  /\ tmp = Absent \/ tmp \in Content
  /\ tree \subseteq Nodes /\ guarded \in BOOLEAN
  /\ (script = NoScript) <=> (call.state = "idle")
  /\ (call.state = "waiting" /\ Connected) <=>
       (job.waiting \/ \E i \in DOMAIN rpcs : rpcs[i].waiting)

(* backup and restore (SDL.lua:225): however often ATF is aborted and run  *)
(* again, the configuration of before the first run is in the file, in its *)
(* backup or in the hands of the server.  The exceptions: the call that    *)
(* asks for a leftover timed out, the server died in the middle of a copy, *)
(* a write failed, there was no file to back up.                           *)
OriginalKept ==
  \/ seen \cap {"unknown", "torn", "disk", "missing"} # {}
  \/ original \in {disk[Cfg], disk[Origin(Cfg)]}
  \/ job.rpc = "file_restore" /\ job.data = original

(* restore (SDL.lua:225): when it has ended and no call got lost, the      *)
(* configuration is the one of before the first run, and no backup is left.*)
RestoreTrue ==
  (last.op = "restore" /\ script = NoScript
     /\ seen \cap {"slow", "server", "disk", "missing"} = {})
    => disk[Cfg] = original /\ disk[Origin(Cfg)] = Absent

(* file_call (remote_client.cc:40): a copy that it calls SUCCESS is what   *)
(* the file was at some moment of the call, even while SDL appends to it,  *)
(* even after a run that left half of a copy in /tmp, and for files longer *)
(* than an int can tell.                                                   *)
CopyTrue ==
  (script.pc = "copied" /\ "shrink" \notin seen)
    => IsPrefix(first, tmp) /\ IsPrefix(tmp, disk[script.file])

(* FolderDelete (utils_manager.cc:597): after SUCCESS the folder is gone;  *)
(* it fails only if a link lost its target on the way or SDL wrote there.  *)
FolderDeleteTold ==
  (last.op = "folder_delete" /\ script = NoScript) =>
    /\ last.num = SUCCESS => tree = {}
    /\ last.num = FAILED /\ Root \in tree => seen \cap {"dangling", "writer"} # {}

(* set_timeout (remote_client.cc:17): every operation of the script ends,  *)
(* although a command may hang, the server may die and the file that is    *)
(* copied may become shorter than the part that was read.                  *)
OperationEnds == (script # NoScript) ~> (script = NoScript)

(* The user's files survive the tests: wherever a run of ATF is aborted    *)
(* the original is in the file or in its backup, and a restore that        *)
(* returns success has brought it back.                                    *)
BackupKept == OriginalKept /\ RestoreTrue

(* What the server answers is what it did: a copy in pieces is the file,   *)
(* and a folder reported deleted is gone.                                  *)
ResultsTrue == CopyTrue /\ FolderDeleteTold
=============================================================================
