--------------------------- MODULE RemoteFilesProofs ---------------------------
(***************************************************************************)
(* Proofs about RemoteFiles, for any configuration, any sizes of a piece   *)
(* and of an int, any number of runs of ATF and operations, and any set of *)
(* faults.                                                                 *)
(*                                                                         *)
(* The worker takes the calls in order.  An answer that is not an error of *)
(* the connection means that no call is left at the server (Settled), so   *)
(* unless the call for the status of a leftover timed out, a file_restore  *)
(* and the file_backup behind it are the first calls at the server         *)
(* (RestoreFirst, BackupNext), and whatever writes the configuration is    *)
(* behind the backup (WritesLast, Guarded).                                *)
(***************************************************************************)
EXTENDS RemoteFiles, TLAPS

-----------------------------------------------------------------------------
(* Types                                                                   *)

Conf == {Cfg}
Bak == Origin(Cfg)
Rpcs == FileCalls \cup FolderCalls
        \cup {"file_update", "file_content", "command_execute", "client_connected"}
FileRequest ==
  [rpc : {"client_connected"}, types : {<<>>}, arg : {<<>>}, waiting : BOOLEAN]
  \cup [rpc : {"command_execute"}, types : {STRING1}, arg : {<<>>}, waiting : BOOLEAN]
  \cup [rpc : FolderCalls, types : {STRING1}, arg : [file : {Root}], waiting : BOOLEAN]
  \cup [rpc : {"file_exists"}, types : {STRING2}, arg : [file : Names], waiting : BOOLEAN]
  \cup [rpc : FileCalls \ {"file_exists"}, types : {STRING2}, arg : [file : Conf],
        waiting : BOOLEAN]
  \cup [rpc : {"file_update"}, types : {STRING3}, arg : [file : Conf, data : Content],
        waiting : BOOLEAN]
  \cup [rpc : {"file_content"}, types : {PIECE}, arg : [file : {Cfg, Log}, offset : Nat],
        waiting : BOOLEAN]
  \cup [rpc : {"file_content"}, types : {STRING2}, arg : [file : Conf], waiting : BOOLEAN]

StreamJobs ==
  [rpc : {"file_backup", "file_restore", "file_update"}, waiting : BOOLEAN, file : Conf,
   step : {"delete", "close"}, to : {Cfg, Bak}, data : Content, good : BOOLEAN]
ContentJobs ==
  [rpc : {"file_content"}, waiting : BOOLEAN, step : {"read", "end"}, file : {Cfg, Log},
   offset : Nat, len : Nat, text : Content]
FolderJobs ==
  [rpc : {"folder_delete"}, waiting : BOOLEAN, step : {"walk"},
   path : {<<Root>>, <<Root, Sub>>}, unread : SUBSET Nodes]
CommandJobs ==
  [rpc : {"command_execute"}, waiting : BOOLEAN, step : {"run"}, slow : BOOLEAN]
Jobs == {NoJob} \cup StreamJobs \cup ContentJobs \cup FolderJobs \cup CommandJobs

Scripts ==
  [op : {"none", "connect", "backup", "restore", "get", "set", "put", "clean", "command",
         "malformed"} \cup FolderCalls,
   file : {Cfg, Log},
   pc : {"idle", "last", "origin", "restored", "exists", "first", "more", "copied"}]
Placed ==
  {s \in Scripts :
     /\ s.pc \in {"origin", "restored"} => s.op \in {"backup", "restore"}
     /\ s.pc \in {"exists", "first", "more", "copied"} => s.op \in {"get", "set"}
     /\ s.op = "restore" => s.pc \in {"origin", "restored"}}

CallTypes == rpcs \in Seq(FileRequest) /\ job \in Jobs
ScriptTypes ==
  /\ script \in Placed
  /\ script.pc = "copied" => call.state = "answered"
  /\ (script = NoScript) <=> (call.state = "idle")
  /\ client = "none" => script = NoScript
AnswerTypes ==
  /\ call.state \in {"idle", "waiting", "answered"}
  /\ call.num \in Int /\ call.text \in Content
DiskTypes ==
  /\ disk \in [Names -> {Absent} \cup Content]
  /\ disk[Log] \in Content
  /\ first \in Content
  /\ original \in {Absent} \cup Content
  /\ tmp \in {Absent} \cup Content
  /\ script.pc \in {"more", "copied"} => tmp \in Content
  /\ job.rpc = "file_content" => disk[job.file] \in Content
ClientTypes == client \in {"none", "connected", "lost"} /\ server \in BOOLEAN /\ guarded \in BOOLEAN

-----------------------------------------------------------------------------
(* The calls                                                               *)

(* The call the script waits for is the last one, and the one its place    *)
(* asks for.                                                               *)
ExpectedAt(s, rpc) ==
  \/ s.op = "connect" /\ rpc = "client_connected"
  \/ s.pc \in {"origin", "exists"} /\ rpc = "file_exists"
  \/ s.pc = "restored" /\ rpc = "file_restore"
  \/ s.pc \in {"first", "more"} /\ rpc = "file_content"
  \/ s.pc = "last" /\
       \/ s.op = "backup" /\ rpc = "file_backup"
       \/ s.op \in {"set", "put"} /\ rpc = "file_update"
       \/ s.op = "clean" /\ rpc = "file_delete"
       \/ s.op = "command" /\ rpc = "command_execute"
       \/ s.op \in FolderCalls /\ rpc = s.op
       \/ s.op = "malformed" /\ rpc = "file_content"
Expected(rpc) == ExpectedAt(script, rpc)
Awaited ==
  /\ \A i \in 1..Len(rpcs) : rpcs[i].waiting =>
       /\ call.state = "waiting" /\ Connected
       /\ i = Len(rpcs)
       /\ \A c \in Rpcs : c = rpcs[i].rpc => Expected(c)
  /\ job.waiting => /\ call.state = "waiting" /\ Connected
                    /\ rpcs = <<>>
                    /\ \A c \in Rpcs : c = job.rpc => Expected(c)
Held ==
  call.state = "waiting" /\ Connected =>
    job.waiting \/ \E i \in 1..Len(rpcs) : rpcs[i].waiting
Asked ==
  \A i \in 1..Len(rpcs) : rpcs[i].waiting =>
    /\ script.pc = "origin" => rpcs[i].arg.file = Bak
    /\ script.pc = "exists" => rpcs[i].arg.file = script.file
    /\ script.pc \in {"first", "more"} =>
         rpcs[i].types = PIECE /\ rpcs[i].arg.file = script.file

(* An answer of the server leaves no call behind.                          *)
Still == rpcs = <<>> /\ job = NoJob
NoAnswer == {TIMEOUT_EXPIRED, NO_CONNECTION}
Settled ==
  /\ call.state = "answered" /\ call.num \notin NoAnswer => Still
  /\ last.op \in {"restore", "folder_delete"} /\ last.num \notin NoAnswer => Still
  /\ script # NoScript => last.op = "none"
  /\ client = "none" => last.op = "none" /\ ~guarded
  /\ client = "lost" => Still

-----------------------------------------------------------------------------
(* The backup                                                              *)

Lost == seen \cap {"unknown", "torn", "disk", "missing"} # {}
Saved == disk[Bak] = original /\ original # Absent
Orig == disk[Cfg] = original /\ disk[Bak] = Absent
Writes == {"file_update", "file_delete"}
Holds(rpc) == \E i \in 1..Len(rpcs) : rpcs[i].rpc = rpc
Streaming == {"file_backup", "file_restore", "file_update"}

(* What the worker is doing.                                               *)
JobKept ==
  /\ job.rpc \notin Streaming => Saved \/ Orig
  /\ job.rpc = "file_backup" =>
       /\ disk[Cfg] = original /\ original # Absent /\ job.data = original
       /\ job.to = Bak /\ job.step = "close"
  /\ job.rpc = "file_restore" =>
       /\ original # Absent /\ job.data = original /\ job.to = Cfg
       /\ disk[Bak] = IF job.step = "delete" THEN original ELSE Absent
  /\ job.rpc = "file_update" => Saved /\ job.to = Cfg /\ job.step = "close"

(* When the calls at the server are done, there is a backup.               *)
WillBeSaved ==
  \/ Holds("file_backup")
  \/ job.rpc = "file_backup"
  \/ job.rpc # "file_restore" /\ Saved /\ ~Holds("file_restore")

RestoreFirst ==
  \A i \in 1..Len(rpcs) : rpcs[i].rpc = "file_restore" => i = 1 /\ job = NoJob /\ Saved
BackupNext ==
  \A i \in 1..Len(rpcs) : rpcs[i].rpc = "file_backup" =>
    \/ i = 1 /\ (job.rpc = "file_restore" \/ (job = NoJob /\ Orig))
    \/ i = 2 /\ rpcs[1].rpc = "file_restore"
WritesLast == \A i \in 1..Len(rpcs) : rpcs[i].rpc \in Writes => WillBeSaved
Guarded ==
  Connected /\ (\/ guarded /\ script.op # "backup"
                \/ script.op = "backup" /\ script.pc = "last")
    => WillBeSaved
OriginKnown ==
  script.pc = "origin" /\ call.state = "answered" =>
    /\ call.num = SUCCESS => Saved
    /\ call.num = FAILED => Orig
    /\ call.num = NO_CONNECTION => ~Connected
    /\ call.num \in {SUCCESS, FAILED, NO_CONNECTION, TIMEOUT_EXPIRED}
Restoring ==
  script.pc = "restored" =>
    /\ Connected => \/ job = NoJob /\ Len(rpcs) = 1 /\ Holds("file_restore")
                    \/ job.rpc = "file_restore" /\ rpcs = <<>>
                    \/ Still /\ Orig
    /\ call.state = "answered" /\ call.num \notin NoAnswer => Orig
Restored == last.op = "restore" /\ last.num \notin NoAnswer => Orig

Safe ==
  /\ JobKept /\ RestoreFirst /\ BackupNext /\ WritesLast
  /\ Guarded /\ OriginKnown /\ Restoring /\ Restored
Kept == ~Lost => Safe
SetGuarded ==
  /\ script.op \in {"set", "put", "clean"} => guarded
  /\ script.op = "restore" => ~guarded

(* Without a slow command and with a server every call is answered.        *)
Trouble == seen \cap {"slow", "server"} # {}
Troubles ==
  /\ client = "lost" \/ ~server => "server" \in seen
  /\ job.rpc = "command_execute" /\ job.slow => "slow" \in seen
  /\ script.pc \in {"origin", "restored"} /\ call.state = "answered" /\ call.num \in NoAnswer
       => Trouble
  /\ last.op = "restore" /\ last.num \in NoAnswer => Trouble
  /\ seen \cap {"unknown", "torn"} # {} => Trouble

-----------------------------------------------------------------------------
(* The copy                                                                *)

(* s is the beginning of c, and c goes on with t after n blocks.           *)
Begins(s, c) == Len(s) <= Len(c) /\ \A i \in 1..Len(s) : s[i] = c[i]
Follows(n, t, c) == n + Len(t) <= Len(c) /\ \A i \in 1..Len(t) : t[i] = c[n + i]

(* While the script copies a file, nothing else is at the server.          *)
Copying == script.pc \in {"first", "more"}
Alone ==
  /\ script.pc = "exists" /\ call.state = "answered" /\ call.num = SUCCESS
       => disk[script.file] \in Content
  /\ Copying =>
       /\ \A i \in 1..Len(rpcs) : rpcs[i].rpc = "file_content"
       /\ job.rpc \in {"none", "file_content"}
       /\ disk[script.file] \in Content
  /\ Copying /\ call.state = "waiting" =>
       /\ \A i \in 1..Len(rpcs) : rpcs[i].waiting
       /\ job = NoJob \/ (job.waiting /\ job.file = script.file)
  /\ script.pc = "copied" => Still /\ disk[script.file] \in Content

(* What was asked for, read and answered, unless SDL began its log anew.   *)
Got == IF script.pc = "first" THEN 0 ELSE Len(tmp)
PieceAsked ==
  Copying /\ call.state = "waiting" =>
    /\ \A i \in 1..Len(rpcs) : rpcs[i].arg.offset = Got
    /\ script.pc = "more" => /\ Begins(tmp, disk[script.file])
                             /\ Begins(first, disk[script.file])
                             /\ Len(tmp) <= MaxInt
PieceRead ==
  Copying /\ call.state = "waiting" /\ job.rpc = "file_content" =>
    /\ job.offset = Got /\ job.len <= MaxPiece
    /\ job.offset + job.len <= Len(disk[script.file])
    /\ Begins(first, disk[script.file])
    /\ job.offset + job.len = 0 => Len(first) = 0
    /\ job.step = "end" =>
         Follows(job.offset, job.text, disk[script.file]) /\ Len(job.text) = job.len
PieceAnswered ==
  Copying /\ call.state = "answered" /\ call.num >= 0 =>
    /\ script.pc = "more" => Begins(tmp, disk[script.file])
    /\ Follows(Got, call.text, disk[script.file])
    /\ Begins(first, disk[script.file])
    /\ call.num > 0 => call.num = Got + Len(call.text) /\ call.num <= MaxInt
    /\ call.num = 0 => Len(first) <= Got + Len(call.text)
CopyDone ==
  script.pc = "copied" =>
    /\ Begins(tmp, disk[script.file]) /\ Begins(first, disk[script.file])
    /\ Len(first) <= Len(tmp)
CopyKept ==
  "shrink" \notin seen => PieceAsked /\ PieceRead /\ PieceAnswered /\ CopyDone

-----------------------------------------------------------------------------
(* The folder                                                              *)

TreeKept ==
  /\ tree \subseteq Nodes
  /\ tree \cap {Crt, Hash, Extra} # {} => Sub \in tree
  /\ Sub \in tree => Root \in tree
  /\ Extra \in tree => "writer" \in seen
  /\ job.rpc = "folder_delete" =>
       /\ Root \in tree /\ tree \subseteq job.unread \cup {Extra}
       /\ job.path = <<Root, Sub>> => Sub \in tree
Told(num) ==
  /\ num = SUCCESS => tree = {}
  /\ num = FAILED /\ Root \in tree => seen \cap {"dangling", "writer"} # {}
FolderTold ==
  /\ script.op = "folder_delete" /\ call.state = "answered" => Told(call.num)
  /\ last.op = "folder_delete" => Told(last.num)

Inv ==
  /\ CallTypes /\ ScriptTypes /\ AnswerTypes /\ DiskTypes /\ ClientTypes
  /\ Awaited /\ Held /\ Asked /\ Settled
  /\ Kept /\ SetGuarded /\ Troubles
  /\ Alone /\ CopyKept
  /\ TreeKept /\ FolderTold

-----------------------------------------------------------------------------
(* Contents, requests and jobs.                                            *)

Block == {"o", "e", "n", "s", "junk"}

(* Contents of files.                                                      *)
LEMMA Contents ==
  /\ <<>> \in Content /\ New \in Content /\ Len(<<>>) = 0
  /\ \A c \in Content : /\ Len(c) \in Nat
                        /\ \A i \in 1..Len(c) : c[i] \in Block
                        /\ \A n \in 0..Len(c) : SubSeq(c, 1, n) \in Content
                        /\ Append(c, "s") \in Content
                        /\ Edited(c) \in Content
  /\ \A c, d \in Content : c \o d \in Content
  /\ \A n \in Nat : \A t \in [1..n -> Block] : t \in Content /\ Len(t) = n
<1>. DEFINE S == Block
<1>0. Content = Seq(S) /\ "s" \in S /\ "n" \in S /\ "e" \in S
  BY DEF Content, Block
<1>. HIDE DEF S
<1>1. <<>> \in Seq(S) /\ Len(<<>>) = 0 /\ New \in Seq(S)
  BY <1>0 DEF New
<1>2. ASSUME NEW c \in Seq(S)
      PROVE  /\ Len(c) \in Nat
             /\ \A i \in 1..Len(c) : c[i] \in S
             /\ \A n \in 0..Len(c) : SubSeq(c, 1, n) \in Seq(S)
             /\ Append(c, "s") \in Seq(S)
             /\ Edited(c) \in Seq(S)
  <2>1. Len(c) \in Nat /\ DOMAIN c = 1..Len(c) /\ \A i \in 1..Len(c) : c[i] \in S
    OBVIOUS
  <2>2. Append(c, "s") \in Seq(S)
    BY <1>0
  <2>3. ASSUME NEW n \in 0..Len(c)
        PROVE  SubSeq(c, 1, n) \in Seq(S)
    OBVIOUS
  <2>4. Edited(c) = [i \in 1..Len(c) |-> IF i = 1 THEN "e" ELSE c[i]]
    BY <2>1 DEF Edited
  <2>5. Edited(c) \in [1..Len(c) -> S]
    BY <1>0, <2>1, <2>4
  <2>6. Edited(c) \in Seq(S)
    BY <2>1, <2>5
  <2>. QED
    BY <2>1, <2>2, <2>3, <2>6
<1>3. \A c, d \in Seq(S) : c \o d \in Seq(S)
  OBVIOUS
<1>4. ASSUME NEW n \in Nat, NEW t \in [1..n -> S]
      PROVE  t \in Seq(S) /\ Len(t) = n
  OBVIOUS
<1>5. \A n \in Nat : \A t \in [1..n -> S] : t \in Seq(S) /\ Len(t) = n
  BY <1>4
<1>. QED
  BY <1>0, <1>1, <1>2, <1>3, <1>5 DEF S

(* The names of files differ.                                              *)
LEMMA FileNames ==
  /\ Names = {Cfg, Log, Bak} /\ Cfg # Log /\ Cfg # Bak /\ Log # Bak
  /\ Origin(Cfg) = Bak
  BY DEF Names, Bak, Cfg, Log, Origin

(* A request.                                                              *)
LEMMA Requests ==
  ASSUME NEW r \in FileRequest
  PROVE  /\ r.rpc \in Rpcs /\ r.waiting \in BOOLEAN
         /\ r.rpc \in FileCalls => r.types = STRING2 /\ r.arg.file \in Names
         /\ r.rpc \in FileCalls \ {"file_exists"} => r.arg.file = Cfg
         /\ r.rpc = "file_update" =>
              r.types = STRING3 /\ r.arg.file = Cfg /\ r.arg.data \in Content
         /\ r.rpc = "file_content" =>
              \/ r.types = PIECE /\ r.arg.file \in {Cfg, Log} /\ r.arg.offset \in Nat
              \/ r.types = STRING2
         /\ r.rpc \in FolderCalls \cup {"command_execute"} => r.types = STRING1
<1>1. CASE r \in [rpc : {"client_connected"}, types : {<<>>}, arg : {<<>>}, waiting : BOOLEAN]
  BY <1>1 DEF Rpcs, FileCalls, FolderCalls
<1>2. CASE r \in [rpc : {"command_execute"}, types : {STRING1}, arg : {<<>>}, waiting : BOOLEAN]
  BY <1>2 DEF Rpcs, FileCalls, FolderCalls
<1>3. CASE r \in [rpc : FolderCalls, types : {STRING1}, arg : [file : {Root}], waiting : BOOLEAN]
  BY <1>3 DEF Rpcs, FileCalls, FolderCalls
<1>4. CASE r \in [rpc : {"file_exists"}, types : {STRING2}, arg : [file : Names], waiting : BOOLEAN]
  BY <1>4 DEF Rpcs, FileCalls, FolderCalls
<1>5. CASE r \in [rpc : FileCalls \ {"file_exists"}, types : {STRING2}, arg : [file : Conf],
                  waiting : BOOLEAN]
  BY <1>5 DEF Rpcs, FileCalls, FolderCalls, Conf, Names
<1>6. CASE r \in [rpc : {"file_update"}, types : {STRING3}, arg : [file : Conf, data : Content],
                  waiting : BOOLEAN]
  BY <1>6 DEF Rpcs, FileCalls, FolderCalls, Conf
<1>7. CASE r \in [rpc : {"file_content"}, types : {PIECE},
                  arg : [file : {Cfg, Log}, offset : Nat], waiting : BOOLEAN]
  BY <1>7 DEF Rpcs, FileCalls, FolderCalls
<1>8. CASE r \in [rpc : {"file_content"}, types : {STRING2}, arg : [file : Conf],
                  waiting : BOOLEAN]
  BY <1>8 DEF Rpcs, FileCalls, FolderCalls
<1>. QED
  BY <1>1, <1>2, <1>3, <1>4, <1>5, <1>6, <1>7, <1>8 DEF FileRequest

(* Only file_content without its numbers is refused.                       *)
LEMMA Forms ==
  ASSUME NEW r \in FileRequest
  PROVE  /\ r.rpc \in Rpcs \ {"client_connected", "file_content"} => WellFormed(r)
         /\ r.rpc = "file_content" => (WellFormed(r) <=> r.types = PIECE)
<1>1. CASE r.rpc \in FileCalls
  <2>1. r.types = STRING2 /\ r.rpc \in DOMAIN Signature /\ Signature[r.rpc] = STRING2
    BY <1>1, Requests DEF Signature, FileCalls
  <2>. QED
    BY <1>1, <2>1 DEF WellFormed, FileCalls
<1>2. CASE r.rpc = "file_update"
  <2>1. r.types = STRING3 /\ r.rpc \in DOMAIN Signature /\ Signature[r.rpc] = STRING3
    BY <1>2, Requests DEF Signature, FileCalls
  <2>. QED
    BY <1>2, <2>1 DEF WellFormed
<1>3. CASE r.rpc \in FolderCalls \cup {"command_execute"}
  <2>1. r.types = STRING1 /\ r.rpc \in DOMAIN Signature /\ Signature[r.rpc] = STRING1
    BY <1>3, Requests DEF Signature, FileCalls, FolderCalls
  <2>. QED
    BY <1>3, <2>1 DEF WellFormed, FolderCalls
<1>4. CASE r.rpc = "file_content"
  <2>1. r.rpc \in DOMAIN Signature /\ Signature[r.rpc] = PIECE
    BY <1>4 DEF Signature, FileCalls, FolderCalls
  <2>2. Len(PIECE) = 4 /\ Len(STRING2) = 2
    BY DEF PIECE, STRING2
  <2>3. CASE r.types = PIECE
    BY <1>4, <2>1, <2>3 DEF WellFormed
  <2>4. CASE r.types = STRING2
    <3>1. PIECE # STRING2 /\ Len(r.types) # Len(Signature[r.rpc])
      BY <2>1, <2>2, <2>4
    <3>. QED
      BY <1>4, <2>4, <3>1 DEF WellFormed
  <2>. QED
    BY <1>4, <2>3, <2>4, Requests
<1>. QED
  BY <1>1, <1>2, <1>3, <1>4, Requests DEF Rpcs

(* The kinds of jobs.                                                      *)
LEMMA Shapes ==
  ASSUME NEW j \in Jobs
  PROVE  /\ j.waiting \in BOOLEAN
         /\ NoJob \in Jobs /\ NoJob.rpc = "none" /\ NoJob.waiting = FALSE
         /\ j.rpc \in Streaming => j \in StreamJobs
         /\ j.rpc = "file_content" => j \in ContentJobs
         /\ j.rpc = "folder_delete" => j \in FolderJobs
         /\ j.rpc = "command_execute" => j \in CommandJobs
         /\ j.rpc = "none" => j = NoJob
         /\ j.rpc \in Streaming \cup {"none", "file_content", "folder_delete", "command_execute"}
<1>1. NoJob \in Jobs /\ NoJob.rpc = "none" /\ NoJob.waiting = FALSE
  BY DEF NoJob, Jobs
<1>2. CASE j = NoJob
  BY <1>1, <1>2 DEF Streaming
<1>3. CASE j \in StreamJobs
  <2>1. j.rpc \in Streaming /\ j.waiting \in BOOLEAN
    BY <1>3 DEF StreamJobs, Streaming
  <2>. QED
    BY <1>1, <1>3, <2>1 DEF Streaming
<1>4. CASE j \in ContentJobs
  <2>1. j.rpc = "file_content" /\ j.waiting \in BOOLEAN
    BY <1>4 DEF ContentJobs
  <2>. QED
    BY <1>1, <1>4, <2>1 DEF Streaming
<1>5. CASE j \in FolderJobs
  <2>1. j.rpc = "folder_delete" /\ j.waiting \in BOOLEAN
    BY <1>5 DEF FolderJobs
  <2>. QED
    BY <1>1, <1>5, <2>1 DEF Streaming
<1>6. CASE j \in CommandJobs
  <2>1. j.rpc = "command_execute" /\ j.waiting \in BOOLEAN
    BY <1>6 DEF CommandJobs
  <2>. QED
    BY <1>1, <1>6, <2>1 DEF Streaming
<1>. QED
  BY <1>2, <1>3, <1>4, <1>5, <1>6 DEF Jobs

(* The queue after a call was made.                                        *)
LEMMA AfterCall ==
  ASSUME CallTypes, NEW r \in FileRequest, rpcs' = Append(rpcs, r)
  PROVE  /\ rpcs' \in Seq(FileRequest)
         /\ Len(rpcs) \in Nat /\ Len(rpcs') = Len(rpcs) + 1
         /\ rpcs'[Len(rpcs) + 1] = r
         /\ \A i \in 1..Len(rpcs) : rpcs'[i] = rpcs[i]
         /\ \A i \in 1..Len(rpcs') : i \in 1..Len(rpcs) \/ i = Len(rpcs) + 1
<1>1. /\ rpcs' \in Seq(FileRequest)
      /\ Len(rpcs) \in Nat /\ Len(rpcs') = Len(rpcs) + 1
      /\ rpcs'[Len(rpcs) + 1] = r
      /\ \A i \in 1..Len(rpcs) : rpcs'[i] = rpcs[i]
  BY DEF CallTypes
<1>. QED
  BY <1>1

(* The queue after the worker has taken a call.                            *)
LEMMA AfterTakes ==
  ASSUME CallTypes, Takes
  PROVE  /\ Len(rpcs) = 1 => rpcs' = <<>>
         /\ Taken = rpcs[1] /\ Taken \in FileRequest
         /\ server /\ job = NoJob /\ job.rpc = "none" /\ job.waiting = FALSE
         /\ 1 \in 1..Len(rpcs) /\ Len(rpcs) \in Nat /\ rpcs # <<>>
         /\ rpcs' \in Seq(FileRequest) /\ Len(rpcs') = Len(rpcs) - 1
         /\ \A i \in 1..Len(rpcs') :
              i \in Nat /\ i >= 1 /\ i + 1 \in 1..Len(rpcs) /\ rpcs'[i] = rpcs[i + 1]
<1>1. rpcs \in Seq(FileRequest) /\ rpcs # <<>> /\ rpcs' = Tail(rpcs)
  BY DEF Takes, CallTypes
<1>2. /\ Head(rpcs) = rpcs[1] /\ Head(rpcs) \in FileRequest
      /\ 1 \in 1..Len(rpcs) /\ Len(rpcs) \in Nat
      /\ rpcs' \in Seq(FileRequest) /\ Len(rpcs') = Len(rpcs) - 1
      /\ \A i \in 1..Len(rpcs') : rpcs'[i] = rpcs[i + 1]
  BY <1>1
<1>3. \A i \in 1..Len(rpcs') : i \in Nat /\ i >= 1 /\ i + 1 \in 1..Len(rpcs)
  BY <1>2
<1>4. server /\ job = NoJob
  BY DEF Takes
<1>5. job.rpc = "none" /\ job.waiting = FALSE
  BY <1>4 DEF NoJob
<1>6. ASSUME Len(rpcs) = 1
      PROVE  rpcs' = <<>>
  <2>1. Len(rpcs') = 0
    BY <1>2, <1>6
  <2>. QED
    BY <1>2, <2>1
<1>. QED
  BY <1>1, <1>2, <1>3, <1>4, <1>5, <1>6 DEF Taken

(* Nobody waits for a call any more.                                       *)
Forsakes == rpcs' = AllForsaken(rpcs) /\ job' = Forsaken(job)

(* What stays of a request or a job that nobody waits for.                 *)
LEMMA ForsakenRequest ==
  ASSUME NEW r \in FileRequest
  PROVE  /\ Forsaken(r) \in FileRequest
         /\ Forsaken(r).rpc = r.rpc /\ Forsaken(r).waiting = FALSE
  BY DEF FileRequest, Forsaken

LEMMA ForsakenJob ==
  ASSUME NEW j \in Jobs
  PROVE  /\ Forsaken(j) \in Jobs
         /\ Forsaken(j).rpc = j.rpc /\ Forsaken(j).waiting = FALSE
         /\ j = NoJob => Forsaken(j) = NoJob
         /\ j.rpc \in Streaming =>
              /\ Forsaken(j).step = j.step /\ Forsaken(j).to = j.to
              /\ Forsaken(j).data = j.data /\ Forsaken(j).good = j.good
         /\ j.rpc = "file_content" => Forsaken(j).file = j.file
         /\ j.rpc = "folder_delete" =>
              Forsaken(j).path = j.path /\ Forsaken(j).unread = j.unread
         /\ j.rpc = "command_execute" => Forsaken(j).slow = j.slow
<1>1. CASE j = NoJob
  <2>0. j \in [rpc : {"none"}, waiting : {FALSE}]
    BY <1>1 DEF NoJob
  <2>1. Forsaken(j) = NoJob
    BY <2>0 DEF NoJob, Forsaken
  <2>. QED
    BY <1>1, <2>1, Shapes DEF Streaming
<1>2. CASE j \in StreamJobs
  <2>1. /\ Forsaken(j) \in StreamJobs /\ j.rpc \in Streaming
        /\ Forsaken(j).rpc = j.rpc /\ Forsaken(j).waiting = FALSE
        /\ Forsaken(j).step = j.step /\ Forsaken(j).to = j.to
        /\ Forsaken(j).data = j.data /\ Forsaken(j).good = j.good
    BY <1>2 DEF StreamJobs, Forsaken, Streaming
  <2>. QED
    BY <2>1, Shapes DEF Streaming, Jobs
<1>3. CASE j \in ContentJobs
  <2>1. /\ Forsaken(j) \in ContentJobs /\ j.rpc = "file_content"
        /\ Forsaken(j).rpc = j.rpc /\ Forsaken(j).waiting = FALSE
        /\ Forsaken(j).file = j.file
    BY <1>3 DEF ContentJobs, Forsaken
  <2>. QED
    BY <2>1, Shapes DEF Streaming, Jobs
<1>4. CASE j \in FolderJobs
  <2>1. /\ Forsaken(j) \in FolderJobs /\ j.rpc = "folder_delete"
        /\ Forsaken(j).rpc = j.rpc /\ Forsaken(j).waiting = FALSE
        /\ Forsaken(j).path = j.path /\ Forsaken(j).unread = j.unread
    BY <1>4 DEF FolderJobs, Forsaken
  <2>. QED
    BY <2>1, Shapes DEF Streaming, Jobs
<1>5. CASE j \in CommandJobs
  <2>1. /\ Forsaken(j) \in CommandJobs /\ j.rpc = "command_execute"
        /\ Forsaken(j).rpc = j.rpc /\ Forsaken(j).waiting = FALSE
        /\ Forsaken(j).slow = j.slow
    BY <1>5 DEF CommandJobs, Forsaken
  <2>. QED
    BY <2>1, Shapes DEF Streaming, Jobs
<1>. QED
  BY <1>1, <1>2, <1>3, <1>4, <1>5 DEF Jobs

(* The calls stay with the server as they were.                            *)
LEMMA AfterForsakes ==
  ASSUME CallTypes, Forsakes
  PROVE  /\ rpcs' \in Seq(FileRequest) /\ Len(rpcs') = Len(rpcs) /\ Len(rpcs) \in Nat
         /\ \A i \in 1..Len(rpcs) : rpcs'[i].rpc = rpcs[i].rpc /\ rpcs'[i].waiting = FALSE
         /\ rpcs = <<>> => rpcs' = <<>>
<1>1. /\ rpcs \in Seq(FileRequest) /\ Len(rpcs) \in Nat
      /\ rpcs' = [i \in 1..Len(rpcs) |-> Forsaken(rpcs[i])]
  BY DEF CallTypes, Forsakes, AllForsaken
<1>2. ASSUME NEW i \in 1..Len(rpcs)
      PROVE  rpcs[i] \in FileRequest /\ Forsaken(rpcs[i]) \in FileRequest
  <2>1. rpcs[i] \in FileRequest
    BY <1>1
  <2>. QED
    BY <2>1, ForsakenRequest
<1>3. /\ rpcs' \in Seq(FileRequest) /\ Len(rpcs') = Len(rpcs)
      /\ \A i \in 1..Len(rpcs) : rpcs[i] \in FileRequest /\ rpcs'[i] = Forsaken(rpcs[i])
  BY <1>1, <1>2
<1>4. rpcs = <<>> => rpcs' = <<>>
  BY <1>3
<1>. QED
  BY <1>1, <1>3, <1>4, ForsakenRequest

-----------------------------------------------------------------------------
(* What a step does.                                                       *)

(* The script has got a piece of the file.                                 *)
Gains == tmp' = IF script.pc = "first" THEN call.text ELSE tmp \o call.text

(* The script makes call r.                                                *)
Sends(r) ==
  \/ /\ client' = "connected" /\ rpcs' = Append(rpcs, r)
     /\ call'.state = "waiting" /\ call'.num = SUCCESS /\ call'.text = <<>>
  \/ /\ client' = "lost" /\ client = "lost" /\ UNCHANGED rpcs
     /\ call'.state = "answered" /\ call'.num = NO_CONNECTION /\ call'.text = <<>>
Places(r) ==
  /\ script' \in Placed /\ script'.op # "none" /\ script'.pc # "copied"
  /\ script.op \in {script'.op, "none"}
  /\ \A c \in Rpcs : c = r.rpc => Expected(c)'
  /\ script'.pc = "origin" => r.arg.file = Bak
  /\ script'.pc = "exists" => r.arg.file = script'.file
Continues(r) ==
  /\ script'.pc \in {"first", "more"} =>
       /\ call.state = "answered" /\ script'.file = script.file
       /\ r.types = PIECE /\ r.arg.file = script.file
  /\ script'.pc = "first" =>
       script.pc = "exists" /\ call.num = SUCCESS /\ r.arg.offset = 0
  /\ script'.pc = "more" =>
       /\ Copying /\ call.num > 0 /\ r.arg.offset = call.num
       /\ Gains /\ UNCHANGED first
  /\ script'.pc # "more" => tmp' \in {tmp, Absent} /\ first' \in {first, <<>>}
Guards(r) ==
  /\ guarded' \in BOOLEAN /\ (guarded' => guarded)
  /\ script'.op \in {"set", "put", "clean"} => guarded'
  /\ script'.op = "restore" => ~guarded'
  /\ r.rpc = "file_restore" =>
       script.pc = "origin" /\ call.state = "answered" /\ call.num = SUCCESS
  /\ r.rpc = "file_backup" =>
       /\ call.state = "answered"
       /\ \/ script.pc = "restored"
          \/ /\ script.pc = "origin" /\ call.num # SUCCESS
             /\ call.num = TIMEOUT_EXPIRED => "unknown" \in seen'
  /\ \/ seen' = seen
     \/ /\ seen' = seen \cup {"unknown"}
        /\ script.pc = "origin" /\ call.state = "answered" /\ call.num = TIMEOUT_EXPIRED
Makes(r) ==
  /\ call.state # "waiting" /\ r.waiting
  /\ Sends(r) /\ Places(r) /\ Continues(r) /\ Guards(r)
  /\ client' = client \/ (client = "none" /\ script'.op = "connect")
  /\ last'.op = "none"
  /\ UNCHANGED <<server, job, disk, tree, original>>

(* An operation ends.                                                      *)
Finishes ==
  /\ call.state = "answered" /\ script # NoScript
  /\ script' = NoScript /\ call' = NoCall
  /\ \E num \in {call.num, SUCCESS, FAILED} :
       /\ last' = [op |-> script.op, num |-> num]
       /\ num = call.num \/ script.op \in {"get", "set"}
  /\ guarded' = (guarded \/ script.op = "backup")
  /\ script.op = "backup" => script.pc = "last"
  /\ script.op = "restore" /\ script.pc = "origin" => call.num # SUCCESS
  /\ tmp' \in {tmp, Absent}
  /\ UNCHANGED <<client, server, rpcs, job, disk, tree, first, original, seen>>

(* A copy is complete.                                                     *)
Arrives ==
  /\ Copying /\ call.state = "answered" /\ call.num = 0
  /\ script' = [script EXCEPT !.pc = "copied"] /\ Gains
  /\ UNCHANGED <<callVars, guarded, last, disk, tree, first, original, seen>>

(* A call times out.                                                       *)
TimesOut ==
  /\ call.state = "waiting" /\ (~server \/ client = "lost" \/ Hangs)
  /\ Forsakes
  /\ call'.state = "answered" /\ call'.num = TIMEOUT_EXPIRED /\ call'.text = <<>>
  /\ UNCHANGED <<client, server, tmp, script, guarded, last, disk, tree, first, original, seen>>

(* A run of ATF ends.                                                      *)
Quits ==
  /\ Forsakes
  /\ client' = "none" /\ call' = NoCall /\ script' = NoScript
  /\ guarded' = FALSE /\ last' = NoLast
  /\ seen' \in {seen, seen \cup {"atf"}}
  /\ UNCHANGED <<server, tmp, disk, tree, first, original>>

(* The worker answers a call at once, begins one, goes on with one, answers*)
(* it.                                                                     *)
scriptSide == <<client, server, tmp, script, guarded, last, original>>
Answers(num) ==
  /\ Takes /\ Respond(Taken, num, <<>>)
  /\ Taken.rpc \notin Streaming
  /\ \/ UNCHANGED disk
     \/ Taken.rpc = "file_delete" /\ disk' = [disk EXCEPT ![Cfg] = Absent]
  /\ \/ UNCHANGED tree
     \/ Taken.rpc = "folder_create" /\ tree' = tree \cup {Root}
  /\ Taken.rpc = "file_exists" => num = CodeOf(disk[Taken.arg.file] # Absent)
  /\ Taken.rpc = "folder_delete" => num = FAILED /\ Root \notin tree
  /\ Taken.rpc = "file_content" => num = FAILED
  /\ UNCHANGED <<scriptSide, first, seen>>
Starts ==
  /\ Takes
  /\ job' \in Jobs /\ job'.rpc = Taken.rpc /\ job'.waiting = Taken.waiting
  /\ seen \subseteq seen'
  /\ UNCHANGED <<scriptSide, call, tree>>
BackupStarts ==
  /\ Starts /\ Taken.rpc = "file_backup" /\ UNCHANGED first
  /\ job'.to = Bak /\ job'.step = "close"
  /\ "disk" \in seen' \/ job'.data = Source(Cfg)
  /\ disk[Cfg] = Absent => "missing" \in seen'
  /\ \E c \in Content : disk' = [disk EXCEPT ![Bak] = c]
  /\ seen' \subseteq seen \cup {"disk", "missing"}
RestoreStarts ==
  /\ Starts /\ Taken.rpc = "file_restore" /\ UNCHANGED first
  /\ job'.to = Cfg /\ job'.step = "delete"
  /\ "disk" \in seen' \/ job'.data = Source(Bak)
  /\ \E c \in Content : disk' = [disk EXCEPT ![Cfg] = c]
  /\ seen' \subseteq seen \cup {"disk", "missing"}
UpdateStarts ==
  /\ Starts /\ Taken.rpc = "file_update" /\ UNCHANGED first
  /\ job'.to = Cfg /\ job'.step = "close"
  /\ \E c \in Content : disk' = [disk EXCEPT ![Cfg] = c]
  /\ seen' \subseteq seen \cup {"disk", "missing"}
PieceStarts ==
  /\ Starts /\ Taken.rpc = "file_content" /\ UNCHANGED <<disk, seen>>
  /\ Taken.types = PIECE
  /\ job'.file = Taken.arg.file /\ job'.offset = Taken.arg.offset /\ job'.step = "read"
  /\ disk[Taken.arg.file] \in Content
  /\ job'.len = PieceLength(Len(disk[Taken.arg.file]), Taken.arg.offset)
  /\ first' = IF Taken.arg.offset = 0 THEN disk[Taken.arg.file] ELSE first
FolderStarts ==
  /\ Starts /\ Taken.rpc = "folder_delete" /\ UNCHANGED <<disk, first, seen>>
  /\ Root \in tree /\ job'.path = <<Root>> /\ job'.unread = tree
CommandStarts ==
  /\ Starts /\ Taken.rpc = "command_execute" /\ UNCHANGED <<disk, first>>
  /\ job'.slow => "slow" \in seen'
  /\ seen' \subseteq seen \cup {"slow"}
Works ==
  /\ job.rpc # "none"
  /\ job' \in Jobs /\ job'.rpc = job.rpc /\ job'.waiting = job.waiting
  /\ UNCHANGED <<scriptSide, call, rpcs, first, seen>>
Deletes ==
  /\ Works /\ job.rpc = "file_restore" /\ job.step = "delete"
  /\ job'.step = "close" /\ job'.data = job.data /\ job'.to = job.to
  /\ disk' = [disk EXCEPT ![Bak] = Absent] /\ UNCHANGED tree
Reads ==
  /\ Works /\ job.rpc = "file_content" /\ job.step = "read" /\ UNCHANGED <<disk, tree>>
  /\ job'.step = "end" /\ job'.file = job.file /\ job'.offset = job.offset
  /\ job'.len = job.len /\ Len(job'.text) = job.len
  /\ \A i \in 1..job.len : job.offset + i <= Len(disk[job.file])
                             => job'.text[i] = disk[job.file][job.offset + i]
Walked ==
  /\ Works /\ job.rpc = "folder_delete" /\ UNCHANGED disk
  /\ job'.unread = job.unread
  /\ \/ job'.path = <<Root, Sub>> /\ Sub \in tree /\ UNCHANGED tree
     \/ /\ \E n \in {Crt, Hash, Extra} : tree' = tree \ {n}
        /\ job'.path = job.path
     \/ /\ tree \cap {Crt, Hash, Extra} = {} /\ tree' = tree \ {Sub}
        /\ job'.path = <<Root>>
Responds(num, text) ==
  /\ job.rpc # "none" /\ Respond(job, num, text)
  /\ num \in NoAnswer => job.rpc = "file_content"
  /\ UNCHANGED <<scriptSide, rpcs, first>>
Closes(num) ==
  /\ Responds(num, <<>>) /\ job.rpc \in Streaming /\ job.step = "close" /\ UNCHANGED tree
  /\ \/ disk' = [disk EXCEPT ![job.to] = job.data] /\ UNCHANGED seen
     \/ seen' = seen \cup {"disk"} /\ UNCHANGED disk
ReadEnds ==
  /\ job.rpc = "file_content" /\ job.step = "end" /\ UNCHANGED <<disk, tree, seen>>
  /\ Responds(IF job.len + job.offset = Len(disk[job.file]) THEN SUCCESS
              ELSE Narrow(job.len + job.offset), job.text)
WalkEnds(num) ==
  /\ Responds(num, <<>>) /\ job.rpc = "folder_delete" /\ UNCHANGED disk
  /\ \/ num = SUCCESS /\ tree' = tree \ {Root} /\ Sub \notin tree /\ UNCHANGED seen
     \/ /\ num = FAILED /\ UNCHANGED tree
        /\ \/ seen' = seen \cup {"dangling"}
           \/ UNCHANGED seen /\ tree \cap (Nodes \ job.unread) # {}
Done(num) ==
  /\ Responds(num, <<>>) /\ job.rpc = "command_execute" /\ UNCHANGED <<disk, tree, seen>>

(* The server dies; SDL writes, or the server is started again.            *)
Loses ==
  /\ rpcs' = <<>> /\ job' = NoJob /\ server' = FALSE
  /\ client' = IF Connected THEN "lost" ELSE client
  /\ "server" \in seen' /\ seen \subseteq seen' /\ seen' \subseteq seen \cup {"server", "torn"}
  /\ job.rpc \in {"file_backup", "file_restore"} => "torn" \in seen'
  /\ UNCHANGED <<call, script, tmp, guarded, last, disk, tree, first, original>>
Beside ==
  /\ \/ UNCHANGED disk
     \/ disk' = [disk EXCEPT ![Log] = Append(@, "s")]
     \/ disk' = [disk EXCEPT ![Log] = <<>>] /\ "shrink" \in seen'
  /\ \/ UNCHANGED tree
     \/ tree' = tree \cup {Extra} /\ job.rpc = "folder_delete" /\ Sub \in tree /\ "writer" \in seen'
  /\ seen \subseteq seen' /\ seen' \subseteq seen \cup {"shrink", "writer"}
  /\ server' \in {server, TRUE}
  /\ UNCHANGED <<client, call, rpcs, job, script, tmp, guarded, last, first, original>>

Step ==
  \/ \E r \in FileRequest : Makes(r)
  \/ Finishes \/ Arrives \/ TimesOut \/ Quits
  \/ \E num \in {SUCCESS, FAILED} : Answers(num)
  \/ BackupStarts \/ RestoreStarts \/ UpdateStarts \/ PieceStarts \/ FolderStarts \/ CommandStarts
  \/ Deletes \/ Reads \/ Walked
  \/ \E num \in {SUCCESS, FAILED} : Closes(num) \/ WalkEnds(num) \/ Done(num)
  \/ ReadEnds \/ Loses \/ Beside

(* A call of the script.                                                   *)
LEMMA CallSends ==
  ASSUME NEW rpc, NEW types, NEW arg, Call(rpc, types, arg),
         client \in {"connected", "lost"}, UNCHANGED client
  PROVE  Sends(Request(rpc, types, arg))
<1>1. CASE /\ Connected
           /\ rpcs' = Append(rpcs, Request(rpc, types, arg))
           /\ call' = [NoCall EXCEPT !.state = "waiting"]
  BY <1>1 DEF Sends, Connected, NoCall
<1>2. CASE /\ ~Connected
           /\ call' = Answered(NO_CONNECTION, <<>>)
           /\ UNCHANGED rpcs
  BY <1>2 DEF Sends, Connected, Answered
<1>. QED
  BY <1>1, <1>2 DEF Call

(* An operation may begin with the call.                                   *)
Fits(s, rpc, types, arg) ==
  /\ rpc \in Rpcs \ {"file_restore", "file_backup"}
  /\ Request(rpc, types, arg) \in FileRequest
  /\ s \in Placed /\ s.op # "none" /\ s.pc \in {"origin", "exists", "last"}
  /\ ExpectedAt(s, rpc)
  /\ s.pc = "origin" => arg.file = Bak
  /\ s.pc = "exists" => arg.file = s.file

LEMMA BeginMakes ==
  ASSUME ScriptTypes, ClientTypes,
         NEW op, NEW f, NEW pc, NEW rpc, NEW types, NEW arg,
         Begin(op, f, pc, rpc, types, arg),
         Fits([op |-> op, file |-> f, pc |-> pc], rpc, types, arg),
         guarded' \in BOOLEAN, guarded' => guarded,
         op \in {"set", "put", "clean"} => guarded',
         op = "restore" => ~guarded'
  PROVE  Step
<1>. DEFINE r == Request(rpc, types, arg)
<1>1. r.rpc = rpc /\ r.arg = arg /\ r.waiting = TRUE /\ r \in FileRequest
  BY DEF Request, Fits
<1>2. /\ script = NoScript /\ client # "none" /\ script' = [op |-> op, file |-> f, pc |-> pc]
      /\ last' = NoLast /\ first' = <<>> /\ Call(rpc, types, arg)
      /\ UNCHANGED <<client, server, job, disk, tree, original, tmp, seen>>
  BY DEF Begin
<1>3. /\ script'.op = op /\ script'.file = f /\ script'.pc = pc /\ script.op = "none"
      /\ Fits(script', rpc, types, arg)
  BY <1>2 DEF NoScript
<1>4. call.state # "waiting" /\ client \in {"connected", "lost"}
  BY <1>2 DEF ScriptTypes, ClientTypes
<1>5. Sends(r)
  BY <1>2, <1>4, CallSends
<1>. HIDE DEF r
<1>6. Places(r)
  BY <1>1, <1>3 DEF Places, Fits, Expected, ExpectedAt
<1>7. Continues(r)
  <2>1. pc \notin {"first", "more"}
    BY <1>3 DEF Fits
  <2>. QED
    BY <1>2, <1>3, <2>1 DEF Continues
<1>8. Guards(r)
  <2>1. r.rpc # "file_restore" /\ r.rpc # "file_backup"
    BY <1>1 DEF Fits
  <2>. QED
    BY <1>2, <1>3, <2>1 DEF Guards
<1>9. last'.op = "none"
  BY <1>2 DEF NoLast
<1>. QED
  BY <1>1, <1>2, <1>4, <1>5, <1>6, <1>7, <1>8, <1>9 DEF Makes, Step

(* The requests of the script.                                             *)
LEMMA RequestsMade ==
  /\ Request("client_connected", <<>>, <<>>) \in FileRequest
  /\ Request("command_execute", STRING1, <<>>) \in FileRequest
  /\ \A rpc \in FolderCalls : Request(rpc, STRING1, [file |-> Root]) \in FileRequest
  /\ \A f \in Names : Request("file_exists", STRING2, [file |-> f]) \in FileRequest
  /\ \A rpc \in {"file_backup", "file_restore", "file_delete", "file_content"} :
       Request(rpc, STRING2, [file |-> Cfg]) \in FileRequest
  /\ \A d \in Content :
       Request("file_update", STRING3, [file |-> Cfg, data |-> d]) \in FileRequest
  /\ \A f \in {Cfg, Log}, n \in Nat :
       Request("file_content", PIECE, [file |-> f, offset |-> n]) \in FileRequest
<1>1. /\ Request("client_connected", <<>>, <<>>) \in FileRequest
      /\ Request("command_execute", STRING1, <<>>) \in FileRequest
  BY DEF Request, FileRequest
<1>2. \A rpc \in FolderCalls : Request(rpc, STRING1, [file |-> Root]) \in FileRequest
  BY DEF Request, FileRequest
<1>3. \A f \in Names : Request("file_exists", STRING2, [file |-> f]) \in FileRequest
  BY DEF Request, FileRequest
<1>4. \A rpc \in {"file_backup", "file_restore", "file_delete", "file_content"} :
        Request(rpc, STRING2, [file |-> Cfg]) \in FileRequest
  BY DEF Request, FileRequest, FileCalls, Conf
<1>5. \A d \in Content :
        Request("file_update", STRING3, [file |-> Cfg, data |-> d]) \in FileRequest
  BY DEF Request, FileRequest, Conf
<1>6. \A f \in {Cfg, Log}, n \in Nat :
        Request("file_content", PIECE, [file |-> f, offset |-> n]) \in FileRequest
  BY DEF Request, FileRequest
<1>. QED
  BY <1>1, <1>2, <1>3, <1>4, <1>5, <1>6

(* The operations of the script.                                           *)
LEMMA ScriptSteps ==
  ASSUME CallTypes, ScriptTypes, ClientTypes, Settled, Script
  PROVE  Step
<1>0. /\ Rpcs \ {"file_restore", "file_backup"} =
            {"file_exists", "file_delete", "file_update", "file_content", "command_execute",
             "client_connected"} \cup FolderCalls
      /\ Names = {Cfg, Log, Bak} /\ Origin(Cfg) = Bak
  BY FileNames DEF Rpcs, FileCalls, FolderCalls
<1>1. CASE RunBegins
  <2>. DEFINE r == Request("client_connected", <<>>, <<>>)
  <2>1. /\ script = NoScript /\ client = "none" /\ client' = "connected"
        /\ rpcs' = Append(rpcs, r)
        /\ call' = [NoCall EXCEPT !.state = "waiting"]
        /\ script' = [op |-> "connect", file |-> Cfg, pc |-> "last"]
        /\ UNCHANGED <<server, job, disk, tree, first, original, tmp, guarded, last, seen>>
    BY <1>1 DEF RunBegins, Connect, serverVars, NoScript
  <2>2. r \in FileRequest /\ r.rpc = "client_connected" /\ r.waiting = TRUE
    BY RequestsMade DEF Request
  <2>. HIDE DEF r
  <2>3. /\ call.state # "waiting" /\ script.op = "none"
        /\ call'.state = "waiting" /\ call'.num = SUCCESS /\ call'.text = <<>>
        /\ script' \in Placed /\ script'.op = "connect" /\ script'.pc = "last"
    BY <2>1 DEF ScriptTypes, NoCall, NoScript, Placed, Scripts
  <2>4. Sends(r)
    BY <2>1, <2>3 DEF Sends
  <2>5. Places(r)
    BY <2>1, <2>2, <2>3 DEF Places, Expected, ExpectedAt
  <2>6. Continues(r)
    BY <2>1, <2>3 DEF Continues
  <2>7. Guards(r)
    BY <2>1, <2>2, <2>3 DEF Guards, ClientTypes
  <2>8. last'.op = "none"
    BY <2>1 DEF Settled
  <2>. QED
    BY <2>1, <2>2, <2>3, <2>4, <2>5, <2>6, <2>7, <2>8 DEF Makes, Step
<1>2. CASE RunEnds
  <2>1. Quits
    BY <1>2 DEF RunEnds, Disconnect, Forsakes, serverVars, Quits
  <2>. QED
    BY <2>1 DEF Step
<1>3. CASE Backup
  <2>1. Request("file_exists", STRING2, [file |-> Bak]) \in FileRequest
    BY <1>0, RequestsMade
  <2>2. [op |-> "backup", file |-> Cfg, pc |-> "origin"] \in Placed
    BY DEF Placed, Scripts
  <2>3. Fits([op |-> "backup", file |-> Cfg, pc |-> "origin"], "file_exists", STRING2,
             [file |-> Bak])
    BY <1>0, <2>1, <2>2 DEF Fits, ExpectedAt
  <2>4. Begin("backup", Cfg, "origin", "file_exists", STRING2,
              [file |-> Bak]) /\ guarded' = guarded
    BY <1>0, <1>3 DEF Backup
  <2>. QED
    BY <2>3, <2>4, BeginMakes DEF ClientTypes
<1>4. CASE Restore
  <2>1. Request("file_exists", STRING2, [file |-> Bak]) \in FileRequest
    BY <1>0, RequestsMade
  <2>2. [op |-> "restore", file |-> Cfg, pc |-> "origin"] \in Placed
    BY DEF Placed, Scripts
  <2>3. Fits([op |-> "restore", file |-> Cfg, pc |-> "origin"], "file_exists", STRING2,
             [file |-> Bak])
    BY <1>0, <2>1, <2>2 DEF Fits, ExpectedAt
  <2>4. Begin("restore", Cfg, "origin", "file_exists", STRING2,
              [file |-> Bak]) /\ guarded' = FALSE
    BY <1>0, <1>4 DEF Restore
  <2>. QED
    BY <2>3, <2>4, BeginMakes DEF ClientTypes
<1>5. ASSUME NEW f \in {Cfg, Log}, Get(f)
      PROVE  Step
  <2>1. Request("file_exists", STRING2, [file |-> f]) \in FileRequest
    BY <1>0, RequestsMade
  <2>2. [op |-> "get", file |-> f, pc |-> "exists"] \in Placed
    BY DEF Placed, Scripts
  <2>3. Fits([op |-> "get", file |-> f, pc |-> "exists"], "file_exists", STRING2,
             [file |-> f])
    BY <1>0, <2>1, <2>2 DEF Fits, ExpectedAt
  <2>4. Begin("get", f, "exists", "file_exists", STRING2,
              [file |-> f]) /\ guarded' = guarded
    BY <1>0, <1>5 DEF Get
  <2>. QED
    BY <2>3, <2>4, BeginMakes DEF ClientTypes
<1>6. CASE Set
  <2>1. Request("file_exists", STRING2, [file |-> Cfg]) \in FileRequest
    BY <1>0, RequestsMade
  <2>2. [op |-> "set", file |-> Cfg, pc |-> "exists"] \in Placed
    BY DEF Placed, Scripts
  <2>3. Fits([op |-> "set", file |-> Cfg, pc |-> "exists"], "file_exists", STRING2,
             [file |-> Cfg])
    BY <1>0, <2>1, <2>2 DEF Fits, ExpectedAt
  <2>4. Begin("set", Cfg, "exists", "file_exists", STRING2,
              [file |-> Cfg]) /\ guarded' = guarded /\ guarded = TRUE
    BY <1>0, <1>6 DEF Set, ClientTypes
  <2>. QED
    BY <2>3, <2>4, BeginMakes DEF ClientTypes
<1>7. CASE Put
  <2>1. Request("file_update", STRING3, [file |-> Cfg, data |-> New]) \in FileRequest
    BY Contents, RequestsMade
  <2>2. [op |-> "put", file |-> Cfg, pc |-> "last"] \in Placed
    BY DEF Placed, Scripts
  <2>3. Fits([op |-> "put", file |-> Cfg, pc |-> "last"], "file_update", STRING3,
             [file |-> Cfg, data |-> New])
    BY <1>0, <2>1, <2>2 DEF Fits, ExpectedAt
  <2>4. Begin("put", Cfg, "last", "file_update", STRING3,
              [file |-> Cfg, data |-> New]) /\ guarded' = guarded /\ guarded = TRUE
    BY <1>0, <1>7 DEF Put, ClientTypes
  <2>. QED
    BY <2>3, <2>4, BeginMakes DEF ClientTypes
<1>8. CASE Clean
  <2>1. Request("file_delete", STRING2, [file |-> Cfg]) \in FileRequest
    BY RequestsMade
  <2>2. [op |-> "clean", file |-> Cfg, pc |-> "last"] \in Placed
    BY DEF Placed, Scripts
  <2>3. Fits([op |-> "clean", file |-> Cfg, pc |-> "last"], "file_delete", STRING2,
             [file |-> Cfg])
    BY <1>0, <2>1, <2>2 DEF Fits, ExpectedAt
  <2>4. Begin("clean", Cfg, "last", "file_delete", STRING2,
              [file |-> Cfg]) /\ guarded' = guarded /\ guarded = TRUE
    BY <1>0, <1>8 DEF Clean, ClientTypes
  <2>. QED
    BY <2>3, <2>4, BeginMakes DEF ClientTypes
<1>9. CASE Command
  <2>1. Request("command_execute", STRING1, <<>>) \in FileRequest
    BY RequestsMade
  <2>2. [op |-> "command", file |-> Cfg, pc |-> "last"] \in Placed
    BY DEF Placed, Scripts
  <2>3. Fits([op |-> "command", file |-> Cfg, pc |-> "last"], "command_execute", STRING1,
             <<>>)
    BY <1>0, <2>1, <2>2 DEF Fits, ExpectedAt
  <2>4. Begin("command", Cfg, "last", "command_execute", STRING1,
              <<>>) /\ guarded' = guarded
    BY <1>0, <1>9 DEF Command
  <2>. QED
    BY <2>3, <2>4, BeginMakes DEF ClientTypes
<1>10. ASSUME NEW rpc \in FolderCalls, Folder(rpc)
       PROVE  Step
  <2>1. Request(rpc, STRING1, [file |-> Root]) \in FileRequest
    BY RequestsMade
  <2>2. [op |-> rpc, file |-> Cfg, pc |-> "last"] \in Placed
    BY DEF Placed, Scripts, FolderCalls
  <2>3. Fits([op |-> rpc, file |-> Cfg, pc |-> "last"], rpc, STRING1,
             [file |-> Root])
    BY <1>0, <2>1, <2>2 DEF Fits, ExpectedAt, FolderCalls
  <2>4. Begin(rpc, Cfg, "last", rpc, STRING1,
              [file |-> Root]) /\ guarded' = guarded
    BY <1>0, <1>10 DEF Folder
  <2>. QED
    BY <2>3, <2>4, BeginMakes DEF ClientTypes, FolderCalls
<1>11. CASE Malformed
  <2>1. Request("file_content", STRING2, [file |-> Cfg]) \in FileRequest
    BY RequestsMade
  <2>2. [op |-> "malformed", file |-> Cfg, pc |-> "last"] \in Placed
    BY DEF Placed, Scripts
  <2>3. Fits([op |-> "malformed", file |-> Cfg, pc |-> "last"], "file_content", STRING2,
             [file |-> Cfg])
    BY <1>0, <2>1, <2>2 DEF Fits, ExpectedAt
  <2>4. Begin("malformed", Cfg, "last", "file_content", STRING2,
              [file |-> Cfg]) /\ guarded' = guarded
    BY <1>0, <1>11 DEF Malformed
  <2>. QED
    BY <2>3, <2>4, BeginMakes DEF ClientTypes
<1>. QED
  BY <1>1, <1>2, <1>3, <1>4, <1>5, <1>6, <1>7, <1>8, <1>9, <1>10, <1>11 DEF Script

(* An operation goes on with a call.                                       *)
LEMMA GoesMakes ==
  ASSUME ScriptTypes, ClientTypes, Settled, SetGuarded,
         NEW pc \in {"restored", "last", "first", "more"},
         NEW rpc \in {"file_restore", "file_backup", "file_content", "file_update"},
         NEW types, NEW arg, Goes(pc, rpc, types, arg),
         call.state = "answered",
         Request(rpc, types, arg) \in FileRequest,
         Place(pc) \in Placed,
         pc = "restored" => rpc = "file_restore",
         pc \in {"first", "more"} => rpc = "file_content",
         pc = "last" => \/ rpc = "file_backup" /\ script.op = "backup"
                        \/ rpc = "file_update" /\ script.op = "set",
         rpc = "file_restore" => script.pc = "origin" /\ call.num = SUCCESS,
         rpc = "file_backup" =>
           \/ script.pc = "restored"
           \/ /\ script.pc = "origin" /\ call.num # SUCCESS
              /\ call.num = TIMEOUT_EXPIRED => "unknown" \in seen',
         pc \in {"first", "more"} => types = PIECE /\ arg.file = script.file,
         pc = "first" => script.pc = "exists" /\ call.num = SUCCESS /\ arg.offset = 0,
         pc = "more" => Copying /\ call.num > 0 /\ arg.offset = call.num /\ Gains,
         pc # "more" => tmp' \in {tmp, Absent},
         \/ seen' = seen
         \/ /\ seen' = seen \cup {"unknown"}
            /\ script.pc = "origin" /\ call.num = TIMEOUT_EXPIRED,
         UNCHANGED <<client, server, job, disk, tree, first, original>>
  PROVE  Step
<1>. DEFINE r == Request(rpc, types, arg)
<1>1. /\ r.rpc = rpc /\ r.arg = arg /\ r.waiting = TRUE /\ r.types = types
      /\ r \in FileRequest
  BY DEF Request
<1>2. /\ script' = Place(pc) /\ Call(rpc, types, arg) /\ UNCHANGED <<last, guarded>>
  BY DEF Goes
<1>3. script \in Placed /\ script \in Scripts
  BY DEF ScriptTypes, Placed
<1>4. script'.op = script.op /\ script'.file = script.file /\ script'.pc = pc
  BY <1>2, <1>3 DEF Place, Scripts
<1>5. script # NoScript /\ client \in {"connected", "lost"} /\ last.op = "none"
  BY DEF ScriptTypes, ClientTypes, Settled
<1>6. script.op # "none"
  <2>1. pc # "last" => script.op # "none"
    BY <1>2, <1>4 DEF Placed
  <2>. QED
    BY <2>1
<1>7. Sends(r)
  BY <1>2, <1>5, CallSends
<1>. HIDE DEF r
<1>8. Places(r)
  <2>1. \A c \in Rpcs : c = r.rpc => Expected(c)'
    BY <1>1, <1>4 DEF Expected, ExpectedAt
  <2>. QED
    BY <1>2, <1>4, <1>6, <2>1 DEF Places
<1>9. Continues(r)
  BY <1>1, <1>4 DEF Continues
<1>10. Guards(r)
  <2>1. guarded' = guarded /\ guarded \in BOOLEAN
    BY <1>2 DEF ClientTypes
  <2>2. /\ script'.op \in {"set", "put", "clean"} => guarded'
        /\ script'.op = "restore" => ~guarded'
    BY <1>4, <2>1 DEF SetGuarded
  <2>3. guarded' \in BOOLEAN /\ (guarded' => guarded)
    BY <2>1
  <2>. QED
    BY <1>1, <2>2, <2>3 DEF Guards
<1>. QED
  BY <1>1, <1>2, <1>5, <1>7, <1>8, <1>9, <1>10 DEF Makes, Step

(* Operations go on or end when the answer is there.                       *)
LEMMA ReturnSteps ==
  ASSUME ScriptTypes, ClientTypes, AnswerTypes, DiskTypes, Settled, SetGuarded, Returns
  PROVE  Step
<1>1. /\ script \in Scripts /\ script.file \in {Cfg, Log}
      /\ call.state = "answered" /\ script # NoScript
      /\ script.pc \in {"origin", "restored"} => script.op \in {"backup", "restore"}
      /\ script.pc \in {"exists", "first", "more", "copied"} => script.op \in {"get", "set"}
      /\ script.op = "restore" => script.pc \in {"origin", "restored"}
  BY DEF ScriptTypes, Returns, LastReturns, OriginReturns, RestoreReturns, ExistsReturns,
         FirstPiece, MorePiece, Copied, At, Placed, Scripts
<1>2. /\ script.pc = "origin" => Place("restored") \in Placed
      /\ script.op # "restore" => Place("last") \in Placed
      /\ script.pc \in {"exists", "first", "more"} =>
           Place("first") \in Placed /\ Place("more") \in Placed
  BY <1>1 DEF Place, Placed, Scripts
<1>3. UNCHANGED <<client, server, job, disk, tree, first, original>>
  BY DEF Returns, LastReturns, OriginReturns, RestoreReturns, ExistsReturns,
         FirstPiece, MorePiece, Copied, restOfReturn, serverVars
<1>4. ASSUME NEW num \in {call.num, SUCCESS, FAILED}, Ends(num), UNCHANGED seen,
             num = call.num \/ script.op \in {"get", "set"},
             script.op = "backup" => script.pc = "last",
             script.op = "restore" /\ script.pc = "origin" => call.num # SUCCESS,
             tmp' \in {tmp, Absent}
      PROVE  Step
  <2>1. Finishes
    BY <1>1, <1>3, <1>4 DEF Ends, Finishes
  <2>. QED
    BY <2>1 DEF Step
<1>5. CASE LastReturns
  <2>1. Ends(call.num) /\ UNCHANGED <<tmp, seen>> /\ script.pc = "last"
    BY <1>5 DEF LastReturns, At
  <2>. QED
    BY <1>1, <1>4, <2>1
<1>6. CASE OriginReturns
  <2>1. /\ script.pc = "origin" /\ UNCHANGED tmp
        /\ seen' = IF script.op = "backup" /\ call.num = TIMEOUT_EXPIRED
                   THEN seen \cup {"unknown"} ELSE seen
    BY <1>6 DEF OriginReturns, At
  <2>2. CASE call.num = SUCCESS
    <3>1. Goes("restored", "file_restore", STRING2, [file |-> Cfg])
      BY <1>6, <2>2 DEF OriginReturns
    <3>2. Request("file_restore", STRING2, [file |-> Cfg]) \in FileRequest
      BY RequestsMade
    <3>3. UNCHANGED seen
      BY <2>1, <2>2 DEF SUCCESS, TIMEOUT_EXPIRED
    <3>. QED
      BY <1>1, <1>2, <1>3, <2>1, <2>2, <3>1, <3>2, <3>3, GoesMakes
  <2>3. CASE call.num # SUCCESS /\ script.op = "backup"
    <3>1. Goes("last", "file_backup", STRING2, [file |-> Cfg])
      BY <1>6, <2>3 DEF OriginReturns
    <3>2. Request("file_backup", STRING2, [file |-> Cfg]) \in FileRequest
      BY RequestsMade
    <3>3. call.num = TIMEOUT_EXPIRED => "unknown" \in seen'
      BY <2>1, <2>3
    <3>4. seen' = seen \/ (seen' = seen \cup {"unknown"} /\ call.num = TIMEOUT_EXPIRED)
      BY <2>1
    <3>. QED
      BY <1>1, <1>2, <1>3, <2>1, <2>3, <3>1, <3>2, <3>3, <3>4, GoesMakes
  <2>4. CASE call.num # SUCCESS /\ script.op # "backup"
    <3>1. Ends(call.num) /\ UNCHANGED seen
      BY <1>6, <2>1, <2>4 DEF OriginReturns
    <3>. QED
      BY <1>1, <1>4, <2>1, <2>4, <3>1
  <2>. QED
    BY <2>2, <2>3, <2>4
<1>7. CASE RestoreReturns
  <2>1. script.pc = "restored" /\ UNCHANGED <<tmp, seen>>
    BY <1>7 DEF RestoreReturns, At
  <2>2. CASE script.op = "backup"
    <3>1. Goes("last", "file_backup", STRING2, [file |-> Cfg])
      BY <1>7, <2>2 DEF RestoreReturns
    <3>2. Request("file_backup", STRING2, [file |-> Cfg]) \in FileRequest
      BY RequestsMade
    <3>. QED
      BY <1>1, <1>2, <1>3, <2>1, <2>2, <3>1, <3>2, GoesMakes
  <2>3. CASE script.op # "backup"
    <3>1. Ends(call.num)
      BY <1>7, <2>3 DEF RestoreReturns
    <3>. QED
      BY <1>1, <1>4, <2>1, <2>3, <3>1
  <2>. QED
    BY <2>2, <2>3
<1>8. ASSUME NEW pc \in {"first", "more"}, NEW offset \in Nat, AsksPiece(pc, offset),
             UNCHANGED seen,
             pc = "first" =>
               script.pc = "exists" /\ call.num = SUCCESS /\ offset = 0 /\ UNCHANGED tmp,
             pc = "more" => Copying /\ call.num > 0 /\ offset = call.num /\ Gains
      PROVE  Step
  <2>. DEFINE arg == [file |-> script.file, offset |-> offset]
  <2>1. Goes(pc, "file_content", PIECE, arg)
    BY <1>8 DEF AsksPiece
  <2>2. Request("file_content", PIECE, arg) \in FileRequest
    BY <1>1, RequestsMade
  <2>3. arg.file = script.file /\ arg.offset = offset
    OBVIOUS
  <2>4. Place(pc) \in Placed
    BY <1>2, <1>8 DEF Copying
  <2>. HIDE DEF arg
  <2>. QED
    BY <1>1, <1>3, <1>8, <2>1, <2>2, <2>3, <2>4, GoesMakes
<1>9. CASE ExistsReturns
  <2>1. script.pc = "exists" /\ UNCHANGED <<tmp, seen>>
    BY <1>9 DEF ExistsReturns, At
  <2>2. CASE call.num = SUCCESS
    BY <1>8, <1>9, <2>1, <2>2 DEF ExistsReturns
  <2>3. CASE call.num # SUCCESS
    BY <1>1, <1>4, <1>9, <2>1, <2>3 DEF ExistsReturns
  <2>. QED
    BY <2>2, <2>3
<1>10. ASSUME Copying, Gains, UNCHANGED seen, call.num >= 0,
              IF call.num > 0 THEN AsksPiece("more", call.num)
              ELSE script' = Place("copied") /\ UNCHANGED <<call, rpcs, last, guarded>>
       PROVE  Step
  <2>1. call.num \in Int
    BY DEF AnswerTypes
  <2>2. CASE call.num > 0
    BY <1>8, <1>10, <2>1, <2>2
  <2>3. CASE call.num = 0
    <3>1. Arrives
      BY <1>1, <1>3, <1>10, <2>3 DEF Arrives, Place, callVars
    <3>. QED
      BY <3>1 DEF Step
  <2>. QED
    BY <1>10, <2>1, <2>2, <2>3
<1>11. CASE FirstPiece
  <2>1. script.pc = "first" /\ UNCHANGED seen /\ call.num \in Int
    BY <1>11 DEF FirstPiece, At, AnswerTypes
  <2>2. CASE call.num < 0
    BY <1>1, <1>4, <1>11, <2>1, <2>2 DEF FirstPiece
  <2>3. CASE call.num >= 0
    BY <1>10, <1>11, <2>1, <2>3 DEF FirstPiece, Copying, Gains
  <2>. QED
    BY <2>1, <2>2, <2>3
<1>12. CASE MorePiece
  <2>1. script.pc = "more" /\ UNCHANGED seen /\ call.num \in Int
    BY <1>12 DEF MorePiece, At, AnswerTypes
  <2>2. CASE call.num < 0
    BY <1>1, <1>4, <1>12, <2>1, <2>2 DEF MorePiece
  <2>3. CASE call.num >= 0
    BY <1>10, <1>12, <2>1, <2>3 DEF MorePiece, Copying, Gains
  <2>. QED
    BY <2>1, <2>2, <2>3
<1>13. CASE Copied
  <2>1. script.pc = "copied" /\ tmp' = Absent /\ UNCHANGED seen
    BY <1>13 DEF Copied, At
  <2>2. CASE script.op = "set"
    <3>1. Goes("last", "file_update", STRING3, [file |-> Cfg, data |-> Edited(tmp)])
      BY <1>13, <2>2 DEF Copied
    <3>2. Edited(tmp) \in Content
      BY <2>1, Contents DEF DiskTypes
    <3>3. Request("file_update", STRING3, [file |-> Cfg, data |-> Edited(tmp)]) \in FileRequest
      BY <3>2, RequestsMade
    <3>. QED
      BY <1>1, <1>2, <1>3, <2>1, <2>2, <3>1, <3>3, GoesMakes
  <2>3. CASE script.op # "set"
    BY <1>1, <1>4, <1>13, <2>1, <2>3 DEF Copied
  <2>. QED
    BY <2>2, <2>3
<1>. QED
  BY <1>5, <1>6, <1>7, <1>9, <1>11, <1>12, <1>13 DEF Returns

-----------------------------------------------------------------------------
(* What the worker does.                                                   *)

(* An offset that fits an int comes back as it is, one beyond it as a      *)
(* negative number.                                                        *)
LEMMA Narrows ==
  ASSUME NEW n \in Nat
  PROVE  /\ Narrow(n) \in Int
         /\ n <= MaxInt => Narrow(n) = n
         /\ n > MaxInt /\ n <= 2 * MaxInt => Narrow(n) < 0
<1>. DEFINE M == 2 * (MaxInt + 1)
<1>1. M \in Nat /\ M > 0 /\ MaxInt \in Nat /\ M = 2 * MaxInt + 2
  BY FilesAssumption
<1>. HIDE DEF M
<1>2. n % M \in 0..(M - 1)
  BY <1>1
<1>3. n < M => n % M = n
  BY <1>1
<1>4. Narrow(n) = IF (n % M) > MaxInt THEN (n % M) - M ELSE n % M
  BY DEF Narrow, M
<1>. QED
  BY <1>1, <1>2, <1>3, <1>4

(* The length of a piece.                                                  *)
LEMMA PieceLengths ==
  ASSUME NEW size \in Nat, NEW offset \in Nat
  PROVE  /\ PieceLength(size, offset) \in Nat
         /\ offset <= size =>
              /\ PieceLength(size, offset) <= MaxPiece
              /\ offset + PieceLength(size, offset) <= size
              /\ offset + PieceLength(size, offset) = 0 => size = 0
  BY FilesAssumption DEF PieceLength

(* The worker is at a stream.                                              *)
LEMMA StreamStarts ==
  ASSUME CallTypes, DiskTypes, Takes, Taken.rpc \in Streaming,
         NEW to \in {Cfg, Bak}, NEW c \in Content, NEW good \in BOOLEAN,
         NEW step \in {"delete", "close"}, NEW noted, noted \subseteq {"missing"},
         Streams(Taken, to, c, good, step, noted),
         UNCHANGED <<idleVars, call, tree, first>>
  PROVE  /\ Starts
         /\ job'.to = to /\ job'.step = step
         /\ "disk" \in seen' \/ job'.data = c
         /\ \E d \in Content : disk' = [disk EXCEPT ![to] = d]
         /\ noted \subseteq seen' /\ seen' \subseteq seen \cup {"disk", "missing"}
<1>1. PICK n \in 0..Len(c), fails \in BOOLEAN :
        /\ disk' = [disk EXCEPT ![to] = SubSeq(c, 1, n)]
        /\ job' = [rpc |-> Taken.rpc, waiting |-> Taken.waiting, file |-> Taken.arg.file,
                   step |-> step, to |-> to,
                   data |-> IF fails THEN SubSeq(c, 1, n) ELSE c, good |-> good /\ ~fails]
        /\ seen' = seen \cup noted \cup (IF fails THEN {"disk"} ELSE {})
  BY DEF Streams
<1>2. SubSeq(c, 1, n) \in Content
  BY Contents
<1>3. Taken \in FileRequest
  BY AfterTakes
<1>4. Taken.arg.file = Cfg /\ Taken.waiting \in BOOLEAN
  BY <1>3, Requests DEF Streaming, FileCalls
<1>5. /\ job'.rpc = Taken.rpc /\ job'.waiting = Taken.waiting /\ job'.to = to
      /\ job'.step = step /\ (~fails => job'.data = c)
  BY <1>1
<1>6. job' \in StreamJobs
  BY <1>1, <1>2, <1>4 DEF StreamJobs, Streaming, Conf
<1>7. seen \subseteq seen' /\ noted \subseteq seen' /\ seen' \subseteq seen \cup {"disk", "missing"}
      /\ (fails => "disk" \in seen')
  BY <1>1
<1>8. Starts
  BY <1>5, <1>6, <1>7 DEF Starts, Jobs, idleVars, scriptVars, scriptSide
<1>. QED
  BY <1>1, <1>2, <1>5, <1>7, <1>8

(* The worker takes a call.                                                *)
LEMMA TakeSteps ==
  ASSUME CallTypes, DiskTypes, TreeKept,
         \/ Greets \/ Refuses \/ FileExists \/ FileDelete
         \/ FileBackup \/ FileUpdate \/ FileRestore
         \/ ContentOpens \/ FolderExists \/ FolderCreate \/ FolderDelete \/ ExecuteCommand
  PROVE  Step
<1>0. Takes
  BY DEF Greets, ClientConnected, Refuses, FileExists, FileDelete, FileBackup, FileUpdate,
         FileRestore, ContentOpens, FolderExists, FolderCreate, FolderDelete, ExecuteCommand,
         Serves
<1>1. Taken \in FileRequest /\ Taken.waiting \in BOOLEAN
  BY <1>0, AfterTakes, Requests
<1>2. CodeOf(TRUE) = SUCCESS /\ CodeOf(FALSE) = FAILED /\ FAILED \notin NoAnswer
      /\ \A b \in BOOLEAN : CodeOf(b) \in {SUCCESS, FAILED}
  BY DEF CodeOf, SUCCESS, FAILED, NoAnswer, TIMEOUT_EXPIRED, NO_CONNECTION
<1>3. ASSUME NEW num \in {SUCCESS, FAILED}, Respond(Taken, num, <<>>),
             Taken.rpc \in {"client_connected", "folder_exists"}
                \/ (Taken.rpc = "file_content" /\ num = FAILED),
             UNCHANGED <<idleVars, disk, tree, first, seen>>
      PROVE  Step
  <2>1. Answers(num)
    BY <1>0, <1>3 DEF Answers, Streaming, idleVars, scriptVars, scriptSide
  <2>. QED
    BY <2>1 DEF Step
<1>4. CASE Greets
  <2>1. /\ Respond(Taken, SUCCESS, <<>>) /\ Taken.rpc = "client_connected"
        /\ UNCHANGED <<idleVars, disk, tree, first, seen>>
    BY <1>4 DEF Greets, ClientConnected, idleVars
  <2>. QED
    BY <1>3, <2>1
<1>5. CASE Refuses
  <2>1. /\ Taken.rpc \in DOMAIN Signature /\ ~WellFormed(Taken)
        /\ Respond(Taken, FAILED, <<>>) /\ UNCHANGED <<idleVars, disk, tree, first, seen>>
    BY <1>5 DEF Refuses
  <2>2. Taken.rpc \in Rpcs \ {"client_connected"}
    BY <2>1 DEF Signature, Rpcs, FileCalls, FolderCalls
  <2>3. Taken.rpc = "file_content"
    BY <1>1, <2>1, <2>2, Forms
  <2>. QED
    BY <1>3, <2>1, <2>3
<1>6. CASE FileExists
  <2>. DEFINE num == CodeOf(disk[Taken.arg.file] # Absent)
  <2>1. /\ Taken.rpc = "file_exists" /\ Respond(Taken, num, <<>>)
        /\ UNCHANGED <<idleVars, disk, tree, first, seen>> /\ num \in {SUCCESS, FAILED}
    BY <1>2, <1>6 DEF FileExists, Serves
  <2>2. Answers(num)
    BY <1>0, <2>1 DEF Answers, Streaming, idleVars, scriptVars, scriptSide
  <2>. HIDE DEF num
  <2>. QED
    BY <2>1, <2>2 DEF Step
<1>7. CASE FileDelete
  <2>. DEFINE num == CodeOf(disk[Taken.arg.file] # Absent)
  <2>1. /\ Taken.rpc = "file_delete" /\ Respond(Taken, num, <<>>)
        /\ disk' = [disk EXCEPT ![Taken.arg.file] = Absent]
        /\ UNCHANGED <<idleVars, tree, first, seen>> /\ num \in {SUCCESS, FAILED}
    BY <1>2, <1>7 DEF FileDelete, Serves
  <2>2. Taken.arg.file = Cfg
    BY <1>1, <2>1, Requests DEF FileCalls
  <2>. HIDE DEF num
  <2>3. Answers(num)
    BY <1>0, <2>1, <2>2 DEF Answers, Streaming, idleVars, scriptVars, scriptSide
  <2>. QED
    BY <2>1, <2>3 DEF Step
<1>8. \A f \in Names : Source(f) \in Content /\ (Source(f) # <<>>) \in BOOLEAN
  BY Contents DEF Source, DiskTypes
<1>9. CASE FileBackup
  <2>. DEFINE noted == IF disk[Cfg] = Absent THEN {"missing"} ELSE {}
  <2>1. Taken.rpc = "file_backup" /\ UNCHANGED <<idleVars, call, tree, first>>
    BY <1>9 DEF FileBackup, Serves
  <2>2. Taken.arg.file = Cfg
    BY <1>1, <2>1, Requests DEF FileCalls
  <2>3. Streams(Taken, Bak, Source(Cfg), Source(Cfg) # <<>>, "close", noted)
    BY <1>9, <2>2, FileNames DEF FileBackup, Copies
  <2>4. noted \subseteq {"missing"} /\ (disk[Cfg] = Absent => "missing" \in noted)
    OBVIOUS
  <2>5. Source(Cfg) \in Content /\ (Source(Cfg) # <<>>) \in BOOLEAN /\ Taken.rpc \in Streaming
    BY <1>8, <2>1, FileNames DEF Streaming
  <2>. HIDE DEF noted
  <2>6. /\ Starts /\ job'.to = Bak /\ job'.step = "close"
        /\ "disk" \in seen' \/ job'.data = Source(Cfg)
        /\ \E d \in Content : disk' = [disk EXCEPT ![Bak] = d]
        /\ noted \subseteq seen' /\ seen' \subseteq seen \cup {"disk", "missing"}
    BY <1>0, <2>1, <2>3, <2>4, <2>5, StreamStarts, ZenonT(30)
  <2>7. BackupStarts
    BY <2>1, <2>4, <2>6 DEF BackupStarts
  <2>. QED
    BY <2>7 DEF Step
<1>10. CASE FileRestore
  <2>. DEFINE noted == IF disk[Bak] = Absent THEN {"missing"} ELSE {}
  <2>1. Taken.rpc = "file_restore" /\ UNCHANGED <<idleVars, call, tree, first>>
    BY <1>10 DEF FileRestore, Serves
  <2>2. Taken.arg.file = Cfg
    BY <1>1, <2>1, Requests DEF FileCalls
  <2>3. Streams(Taken, Cfg, Source(Bak), Source(Bak) # <<>>, "delete", noted)
    BY <1>10, <2>2, FileNames DEF FileRestore, Copies
  <2>4. noted \subseteq {"missing"}
    OBVIOUS
  <2>5. Source(Bak) \in Content /\ (Source(Bak) # <<>>) \in BOOLEAN /\ Taken.rpc \in Streaming
    BY <1>8, <2>1, FileNames DEF Streaming
  <2>. HIDE DEF noted
  <2>6. /\ Starts /\ job'.to = Cfg /\ job'.step = "delete"
        /\ "disk" \in seen' \/ job'.data = Source(Bak)
        /\ \E d \in Content : disk' = [disk EXCEPT ![Cfg] = d]
        /\ seen' \subseteq seen \cup {"disk", "missing"}
    BY <1>0, <2>1, <2>3, <2>4, <2>5, StreamStarts, ZenonT(30)
  <2>7. RestoreStarts
    BY <2>1, <2>6 DEF RestoreStarts
  <2>. QED
    BY <2>7 DEF Step
<1>11. CASE FileUpdate
  <2>1. /\ Taken.rpc = "file_update" /\ UNCHANGED <<idleVars, call, tree, first>>
        /\ Streams(Taken, Taken.arg.file, Taken.arg.data, TRUE, "close", {})
    BY <1>11 DEF FileUpdate, Serves
  <2>2. Taken.arg.file = Cfg /\ Taken.arg.data \in Content /\ Taken.rpc \in Streaming
    BY <1>1, <2>1, Requests DEF Streaming
  <2>3. /\ Starts /\ job'.to = Cfg /\ job'.step = "close"
        /\ \E d \in Content : disk' = [disk EXCEPT ![Cfg] = d]
        /\ seen' \subseteq seen \cup {"disk", "missing"}
    <3>. DEFINE data == Taken.arg.data
                none == {}
    <3>1. Streams(Taken, Cfg, data, TRUE, "close", none) /\ data \in Content
      BY <2>1, <2>2
    <3>2. none \subseteq {"missing"}
      OBVIOUS
    <3>. HIDE DEF data, none
    <3>. QED
      BY <1>0, <2>1, <2>2, <3>1, <3>2, StreamStarts, ZenonT(30)
  <2>4. UpdateStarts
    BY <2>1, <2>3 DEF UpdateStarts
  <2>. QED
    BY <2>4 DEF Step
<1>12. CASE ContentOpens
  <2>. DEFINE f == Taken.arg.file
  <2>1. /\ Taken.rpc = "file_content" /\ WellFormed(Taken)
        /\ UNCHANGED <<idleVars, disk, tree, seen>>
    BY <1>12 DEF ContentOpens, Serves
  <2>2. Taken.types = PIECE
    BY <1>1, <2>1, Forms
  <2>3. f \in {Cfg, Log} /\ Taken.arg.offset \in Nat
    <3>1. PIECE # STRING2
      <4>1. Len(PIECE) = 4 /\ Len(STRING2) = 2
        BY DEF PIECE, STRING2
      <4>. QED
        BY <4>1
    <3>. QED
      BY <1>1, <2>1, <2>2, <3>1, Requests
  <2>4. CASE disk[f] = Absent /\ Respond(Taken, FAILED, <<>>) /\ UNCHANGED first
    BY <1>3, <2>1, <2>4
  <2>5. CASE disk[f] # Absent
    <3>1. disk[f] \in Content /\ Len(disk[f]) \in Nat
      BY <2>3, <2>5, FileNames, Contents DEF DiskTypes
    <3>. DEFINE len == PieceLength(Len(disk[f]), Taken.arg.offset)
    <3>2. len \in Nat
      BY <2>3, <3>1, PieceLengths
    <3>. HIDE DEF f, len
    <3>3. CASE /\ job' = [rpc |-> Taken.rpc, waiting |-> Taken.waiting, step |-> "read",
                          file |-> f, offset |-> Taken.arg.offset, len |-> len, text |-> <<>>]
               /\ first' = IF Taken.arg.offset = 0 THEN disk[f] ELSE first
               /\ UNCHANGED call
      <4>1. /\ job'.rpc = Taken.rpc /\ job'.waiting = Taken.waiting
            /\ job'.file = f /\ job'.offset = Taken.arg.offset /\ job'.step = "read"
            /\ job'.len = len
        BY <3>3
      <4>2. job' \in ContentJobs
        BY <1>1, <2>1, <2>3, <3>2, <3>3, Contents DEF ContentJobs
      <4>3. Starts
        BY <1>0, <2>1, <3>3, <4>1, <4>2 DEF Starts, Jobs, idleVars, scriptVars, scriptSide
      <4>4. PieceStarts
        BY <2>1, <2>2, <3>1, <3>3, <4>1, <4>3 DEF PieceStarts, f, len
      <4>. QED
        BY <4>4 DEF Step
    <3>. QED
      BY <1>12, <2>5, <3>3 DEF ContentOpens, f, len
  <2>. QED
    BY <1>12, <2>4, <2>5 DEF ContentOpens
<1>13. CASE FolderExists
  <2>1. /\ Taken.rpc = "folder_exists" /\ Respond(Taken, CodeOf(Root \in tree), <<>>)
        /\ UNCHANGED <<idleVars, disk, tree, first, seen>>
    BY <1>13 DEF FolderExists, Serves
  <2>2. CodeOf(Root \in tree) \in {SUCCESS, FAILED}
    BY DEF CodeOf
  <2>. QED
    BY <1>3, <2>1, <2>2
<1>14. CASE FolderCreate
  <2>1. /\ Taken.rpc = "folder_create" /\ Respond(Taken, CodeOf(Root \notin tree), <<>>)
        /\ tree' = tree \cup {Root} /\ UNCHANGED <<idleVars, disk, first, seen>>
        /\ CodeOf(Root \notin tree) \in {SUCCESS, FAILED}
    BY <1>2, <1>14 DEF FolderCreate, Serves
  <2>2. Answers(CodeOf(Root \notin tree))
    BY <1>0, <2>1 DEF Answers, Streaming, idleVars, scriptVars, scriptSide
  <2>. QED
    BY <2>1, <2>2 DEF Step
<1>15. CASE FolderDelete
  <2>1. Taken.rpc = "folder_delete" /\ UNCHANGED <<idleVars, disk, tree, first, seen>>
    BY <1>15 DEF FolderDelete, Serves
  <2>2. CASE Root \notin tree
    <3>1. Answers(FAILED)
      BY <1>0, <1>15, <2>1, <2>2 DEF FolderDelete, Answers, Streaming, idleVars, scriptVars,
                                    scriptSide
    <3>. QED
      BY <3>1 DEF Step
  <2>3. CASE Root \in tree
    <3>1. /\ job' = [rpc |-> Taken.rpc, waiting |-> Taken.waiting, step |-> "walk",
                     path |-> <<Root>>, unread |-> tree]
          /\ UNCHANGED call
      BY <1>15, <2>3 DEF FolderDelete
    <3>2. /\ job'.rpc = Taken.rpc /\ job'.waiting = Taken.waiting
          /\ job'.path = <<Root>> /\ job'.unread = tree
      BY <3>1
    <3>3. job' \in FolderJobs
      BY <1>1, <2>1, <3>1 DEF FolderJobs, TreeKept
    <3>4. FolderStarts
      BY <1>0, <2>1, <2>3, <3>1, <3>2, <3>3
         DEF FolderStarts, Starts, Jobs, idleVars, scriptVars, scriptSide
    <3>. QED
      BY <3>4 DEF Step
  <2>. QED
    BY <2>2, <2>3
<1>16. CASE ExecuteCommand
  <2>1. Taken.rpc = "command_execute" /\ UNCHANGED <<idleVars, call, disk, tree, first>>
    BY <1>16 DEF ExecuteCommand, Serves
  <2>2. PICK slow \in BOOLEAN :
          /\ job' = [rpc |-> Taken.rpc, waiting |-> Taken.waiting, step |-> "run",
                     slow |-> slow]
          /\ seen' = IF slow THEN seen \cup {"slow"} ELSE seen
    BY <1>16 DEF ExecuteCommand
  <2>3. job'.rpc = Taken.rpc /\ job'.waiting = Taken.waiting /\ job'.slow = slow
    BY <2>2
  <2>4. job' \in CommandJobs
    BY <1>1, <2>1, <2>2 DEF CommandJobs
  <2>5. /\ job'.slow => "slow" \in seen'
        /\ seen' \subseteq seen \cup {"slow"} /\ seen \subseteq seen'
    BY <2>2, <2>3
  <2>6. CommandStarts
    BY <1>0, <2>1, <2>3, <2>4, <2>5
       DEF CommandStarts, Starts, Jobs, idleVars, scriptVars, scriptSide
  <2>. QED
    BY <2>6 DEF Step
<1>. QED
  BY <1>4, <1>5, <1>6, <1>7, <1>9, <1>10, <1>11, <1>12, <1>13, <1>14, <1>15, <1>16

(* The nodes of the folder.                                                *)
LEMMA TreeFacts ==
  ASSUME TreeKept
  PROVE  /\ Children(Root) = tree \cap {Sub}
         /\ Children(Sub) = tree \cap {Crt, Hash, Extra}
         /\ Root # Sub /\ Nodes = {Root, Sub, Crt, Hash, Extra}
<1>1. \A n \in Nodes \ {Root} : Parent[n] = IF n = Sub THEN Root ELSE Sub
  BY DEF Parent
<1>2. tree \subseteq Nodes /\ Nodes = {Root, Sub, Crt, Hash, Extra}
  BY DEF TreeKept, Nodes
<1>3. Root \notin {Sub, Crt, Hash, Extra} /\ Sub \notin {Crt, Hash, Extra}
  BY FilesAssumption
<1>4. \A n \in tree \ {Root} : Parent[n] = IF n = Sub THEN Root ELSE Sub
  BY <1>1, <1>2
<1>5. Children(Root) = tree \cap {Sub}
  BY <1>2, <1>3, <1>4 DEF Children
<1>6. Children(Sub) = tree \cap {Crt, Hash, Extra}
  BY <1>2, <1>3, <1>4 DEF Children
<1>. QED
  BY <1>2, <1>3, <1>5, <1>6

(* The paths of the recursion.                                             *)
LEMMA PathFacts ==
  /\ Len(<<Root>>) = 1 /\ <<Root>>[1] = Root
  /\ Len(<<Root, Sub>>) = 2 /\ <<Root, Sub>>[2] = Sub
  /\ Append(<<Root>>, Sub) = <<Root, Sub>>
  /\ Front(<<Root, Sub>>) = <<Root>>
<1>1. /\ Len(<<Root>>) = 1 /\ <<Root>>[1] = Root
      /\ Len(<<Root, Sub>>) = 2 /\ <<Root, Sub>>[2] = Sub
  OBVIOUS
<1>. DEFINE S == {Root, Sub}
            s == <<Root>>
            t == <<Root, Sub>>
            a == Append(s, Sub)
            b == SubSeq(t, 1, 1)
<1>2. s \in Seq(S) /\ t \in Seq(S) /\ Len(s) = 1 /\ Len(t) = 2 /\ t[1] = Root
      /\ s[1] = Root /\ t[2] = Sub /\ Root \in S /\ Sub \in S
  OBVIOUS
<1>. HIDE DEF S, s, t
<1>3. a \in Seq(S) /\ Len(a) = 2 /\ a[1] = Root /\ a[2] = Sub
  BY <1>2, SMTT(30)
<1>4. b \in Seq(S) /\ Len(b) = 1 /\ b[1] = Root
  BY <1>2
<1>. HIDE DEF a, b
<1>5. ASSUME NEW u \in Seq(S), NEW v \in Seq(S), Len(u) = Len(v),
             \A i \in 1..Len(u) : u[i] = v[i]
      PROVE  u = v
  BY <1>5
<1>6. a = t
  <2>1. \A i \in 1..Len(a) : i = 1 \/ i = 2
    BY <1>3
  <2>. QED
    BY <1>2, <1>3, <1>5, <2>1
<1>7. b = s
  <2>1. \A i \in 1..Len(b) : i = 1
    BY <1>4
  <2>. QED
    BY <1>2, <1>4, <1>5, <2>1
<1>8. Append(<<Root>>, Sub) = <<Root, Sub>>
  BY <1>6 DEF a, s, t
<1>9. Front(<<Root, Sub>>) = SubSeq(<<Root, Sub>>, 1, 1)
  BY <1>1 DEF Front
<1>. QED
  BY <1>1, <1>7, <1>8, <1>9 DEF b, s, t

(* The worker goes on with a call.                                         *)
LEMMA JobSteps ==
  ASSUME CallTypes, DiskTypes, TreeKept,
         \/ RestoreDeletes \/ StreamCloses \/ ContentReads \/ ContentEnds
         \/ RemoveFolder \/ \E n \in Nodes : DeleteEntry(n)
         \/ CommandDone
  PROVE  Step
<1>0. /\ job \in Jobs /\ job.waiting \in BOOLEAN
      /\ job.rpc \in Streaming => job \in StreamJobs
      /\ job.rpc = "file_content" => job \in ContentJobs
      /\ job.rpc = "folder_delete" => job \in FolderJobs
  BY Shapes DEF CallTypes
<1>1. \A b \in BOOLEAN : CodeOf(b) \in {SUCCESS, FAILED}
  BY DEF CodeOf
<1>2. SUCCESS \notin NoAnswer /\ FAILED \notin NoAnswer
  BY DEF SUCCESS, FAILED, NoAnswer, TIMEOUT_EXPIRED, NO_CONNECTION
<1>3. CASE RestoreDeletes
  <2>1. /\ job.rpc = "file_restore" /\ job.step = "delete"
        /\ disk' = [disk EXCEPT ![Origin(job.file)] = Absent]
        /\ job' = [job EXCEPT !.step = "close"]
        /\ UNCHANGED <<idleVars, call, rpcs, tree, first, seen>>
    BY <1>3 DEF RestoreDeletes, InStep
  <2>2. job \in StreamJobs
    BY <1>0, <2>1 DEF Streaming
  <2>3. /\ job' \in StreamJobs /\ job'.rpc = job.rpc /\ job'.waiting = job.waiting
        /\ job'.step = "close" /\ job'.data = job.data /\ job'.to = job.to /\ job.file = Cfg
    BY <2>1, <2>2 DEF StreamJobs, Conf
  <2>4. Deletes
    BY <2>1, <2>3, FileNames DEF Deletes, Works, Jobs, idleVars, scriptVars, scriptSide
  <2>. QED
    BY <2>4 DEF Step
<1>4. CASE StreamCloses
  <2>1. /\ job.rpc \in Streaming /\ job.step = "close"
        /\ Respond(job, CodeOf(job.good), <<>>) /\ UNCHANGED <<idleVars, rpcs, tree, first>>
        /\ \/ disk' = [disk EXCEPT ![job.to] = job.data] /\ UNCHANGED seen
           \/ seen' = seen \cup {"disk"} /\ UNCHANGED disk
    BY <1>4 DEF StreamCloses, InStep, Streaming
  <2>2. job.good \in BOOLEAN
    BY <1>0, <2>1 DEF StreamJobs
  <2>3. CodeOf(job.good) \in {SUCCESS, FAILED}
    BY <1>1, <2>2
  <2>4. Closes(CodeOf(job.good))
    BY <1>2, <2>1, <2>3 DEF Closes, Responds, Streaming, idleVars, scriptVars, scriptSide
  <2>. QED
    BY <2>3, <2>4 DEF Step
<1>5. CASE ContentReads
  <2>. DEFINE c == disk[job.file]
              text == [i \in 1..job.len |->
                         IF job.offset + i <= Len(c) THEN c[job.offset + i] ELSE "junk"]
  <2>1. /\ job.rpc = "file_content" /\ job.step = "read"
        /\ job' = [job EXCEPT !.step = "end", !.text = text]
        /\ UNCHANGED <<idleVars, call, rpcs, disk, tree, first, seen>>
    BY <1>5 DEF ContentReads, InStep
  <2>2. job \in ContentJobs /\ c \in Content
    BY <1>0, <2>1 DEF DiskTypes
  <2>3. job.len \in Nat /\ job.offset \in Nat
    BY <2>2 DEF ContentJobs
  <2>4. Len(c) \in Nat /\ \A i \in 1..Len(c) : c[i] \in Block
    BY <2>2, Contents
  <2>5. \A i \in 1..job.len : text[i] \in Block
    <3>. HIDE DEF c
    <3>. QED
      BY <2>3, <2>4 DEF Block
  <2>6. text \in Content /\ Len(text) = job.len
    <3>1. text \in [1..job.len -> Block]
      BY <2>5
    <3>. HIDE DEF text
    <3>. QED
      BY <2>3, <3>1, Contents
  <2>7. \A i \in 1..job.len : job.offset + i <= Len(c) => text[i] = c[job.offset + i]
    OBVIOUS
  <2>. HIDE DEF text
  <2>8. /\ job' \in ContentJobs /\ job'.rpc = job.rpc /\ job'.waiting = job.waiting
        /\ job'.step = "end" /\ job'.file = job.file /\ job'.offset = job.offset
        /\ job'.len = job.len /\ job'.text = text
    BY <2>1, <2>2, <2>6 DEF ContentJobs
  <2>9. Works
    BY <2>1, <2>8 DEF Works, Jobs, idleVars, scriptVars, scriptSide
  <2>10. Reads
    BY <2>1, <2>6, <2>7, <2>8, <2>9 DEF Reads
  <2>. QED
    BY <2>10 DEF Step
<1>6. CASE ContentEnds
  <2>1. /\ job.rpc = "file_content" /\ job.step = "end"
        /\ Respond(job, IF job.len + job.offset = Len(disk[job.file]) THEN SUCCESS
                        ELSE Narrow(job.len + job.offset), job.text)
        /\ UNCHANGED <<idleVars, rpcs, disk, tree, first, seen>>
    BY <1>6 DEF ContentEnds, InStep
  <2>2. ReadEnds
    BY <2>1 DEF ReadEnds, Responds, idleVars, scriptVars, scriptSide
  <2>. QED
    BY <2>2 DEF Step
<1>7. ASSUME Walks
      PROVE  /\ job.rpc = "folder_delete" /\ job \in FolderJobs
             /\ \/ job.path = <<Root>> /\ Here = Root /\ Len(job.path) = 1
                \/ job.path = <<Root, Sub>> /\ Here = Sub /\ Len(job.path) = 2
  <2>1. job.rpc = "folder_delete" /\ job \in FolderJobs
    BY <1>0, <1>7 DEF Walks, InStep
  <2>2. job.path \in {<<Root>>, <<Root, Sub>>}
    BY <2>1 DEF FolderJobs
  <2>. QED
    BY <2>1, <2>2, PathFacts DEF Here
<1>8. ASSUME NEW p \in {<<Root>>, <<Root, Sub>>}, job \in FolderJobs,
             job' = [job EXCEPT !.path = p]
      PROVE  /\ job' \in FolderJobs /\ job'.rpc = job.rpc /\ job'.waiting = job.waiting
             /\ job'.path = p /\ job'.unread = job.unread
  BY <1>8 DEF FolderJobs
<1>9. ASSUME NEW n \in Nodes, DeleteEntry(n)
      PROVE  Step
  <2>1. /\ Walks /\ n \in Children(Here) /\ UNCHANGED <<idleVars, rpcs, disk, first>>
    BY <1>9 DEF DeleteEntry
  <2>2. CASE /\ n = Hash /\ Respond(job, FAILED, <<>>)
             /\ seen' = seen \cup {"dangling"} /\ UNCHANGED tree
    <3>1. WalkEnds(FAILED)
      BY <1>2, <1>7, <2>1, <2>2 DEF WalkEnds, Responds, idleVars, scriptVars, scriptSide
    <3>. QED
      BY <3>1 DEF Step
  <2>3. CASE /\ n = Sub /\ job' = [job EXCEPT !.path = Append(@, n)]
             /\ UNCHANGED <<call, tree, seen>>
    <3>1. Here = Root /\ job.path = <<Root>> /\ Sub \in tree
      BY <1>7, <2>1, <2>3, TreeFacts, FilesAssumption
    <3>2. job' = [job EXCEPT !.path = <<Root, Sub>>]
      BY <2>3, <3>1, PathFacts
    <3>3. job \in FolderJobs /\ job.rpc = "folder_delete"
      BY <1>7, <2>1
    <3>4. /\ job' \in FolderJobs /\ job'.rpc = job.rpc /\ job'.waiting = job.waiting
          /\ job'.path = <<Root, Sub>> /\ job'.unread = job.unread
      BY <1>8, <3>2, <3>3
    <3>5. Walked
      BY <2>1, <2>3, <3>1, <3>3, <3>4 DEF Walked, Works, Jobs, idleVars, scriptVars, scriptSide
    <3>. QED
      BY <3>5 DEF Step
  <2>4. CASE n # Sub /\ tree' = tree \ {n} /\ UNCHANGED <<call, job, seen>>
    <3>1. n \in {Crt, Hash, Extra}
      BY <1>7, <2>1, <2>4, TreeFacts
    <3>2. Walked
      BY <1>0, <1>7, <2>1, <2>4, <3>1 DEF Walked, Works, idleVars, scriptVars, scriptSide
    <3>. QED
      BY <3>2 DEF Step
  <2>. QED
    BY <1>9, <2>2, <2>3, <2>4 DEF DeleteEntry
<1>10. CASE RemoveFolder
  <2>1. /\ Walks /\ Children(Here) \cap job.unread = {}
        /\ UNCHANGED <<idleVars, rpcs, disk, first, seen>>
    BY <1>10 DEF RemoveFolder
  <2>2. CASE Children(Here) # {} /\ Respond(job, FAILED, <<>>) /\ UNCHANGED tree
    <3>1. Children(Here) \subseteq tree
      BY DEF Children
    <3>2. tree \subseteq Nodes
      BY DEF TreeKept
    <3>3. tree \cap (Nodes \ job.unread) # {}
      BY <2>1, <2>2, <3>1, <3>2
    <3>4. WalkEnds(FAILED)
      BY <1>2, <1>7, <2>1, <2>2, <3>3
         DEF WalkEnds, Responds, idleVars, scriptVars, scriptSide
    <3>. QED
      BY <3>4 DEF Step
  <2>3. CASE Children(Here) = {} /\ tree' = tree \ {Here}
    <3>1. CASE Len(job.path) = 1
      <4>1. /\ Here = Root /\ job.rpc = "folder_delete" /\ Sub \notin tree
        BY <1>7, <2>1, <2>3, <3>1, TreeFacts
      <4>2. Respond(job, SUCCESS, <<>>)
        BY <1>10, <2>3, <3>1 DEF RemoveFolder
      <4>3. WalkEnds(SUCCESS)
        BY <1>2, <2>1, <2>3, <4>1, <4>2
           DEF WalkEnds, Responds, idleVars, scriptVars, scriptSide
      <4>. QED
        BY <4>3 DEF Step
    <3>2. CASE Len(job.path) # 1
      <4>1. /\ Here = Sub /\ job.rpc = "folder_delete" /\ job \in FolderJobs
            /\ job.path = <<Root, Sub>> /\ tree \cap {Crt, Hash, Extra} = {}
        BY <1>7, <2>1, <2>3, <3>2, TreeFacts
      <4>2. job' = [job EXCEPT !.path = Front(@)] /\ UNCHANGED call
        BY <1>10, <2>3, <3>2 DEF RemoveFolder
      <4>3. job' = [job EXCEPT !.path = <<Root>>]
        BY <4>1, <4>2, PathFacts
      <4>4. /\ job' \in FolderJobs /\ job'.rpc = job.rpc /\ job'.waiting = job.waiting
            /\ job'.path = <<Root>> /\ job'.unread = job.unread
        BY <1>8, <4>1, <4>3
      <4>5. Walked
        BY <2>1, <2>3, <4>1, <4>2, <4>4
           DEF Walked, Works, Jobs, idleVars, scriptVars, scriptSide
      <4>. QED
        BY <4>5 DEF Step
    <3>. QED
      BY <3>1, <3>2
  <2>. QED
    BY <1>10, <2>2, <2>3 DEF RemoveFolder
<1>11. CASE CommandDone
  <2>1. PICK how \in {"exit 0", "exit 1", "killed"} : CommandEnds(how)
    BY <1>11 DEF CommandDone
  <2>. DEFINE num == CodeOf(how \in {"exit 0", "killed"})
  <2>2. num \in {SUCCESS, FAILED}
    BY DEF CodeOf
  <2>3. /\ job.rpc = "command_execute" /\ Respond(job, num, <<>>)
        /\ UNCHANGED <<idleVars, rpcs, disk, tree, first, seen>>
    BY <2>1 DEF CommandEnds, InStep
  <2>. HIDE DEF num
  <2>4. Done(num)
    BY <1>2, <2>2, <2>3 DEF Done, Responds, idleVars, scriptVars, scriptSide
  <2>. QED
    BY <2>2, <2>4 DEF Step
<1>. QED
  BY <1>3, <1>4, <1>5, <1>6, <1>9, <1>10, <1>11

(* Every step is one of these.                                             *)
LEMMA Steps ==
  ASSUME CallTypes, ScriptTypes, AnswerTypes, DiskTypes, ClientTypes, Settled, SetGuarded,
         TreeKept, Next
  PROVE  Step
<1>1. CASE CallTimesOut
  <2>1. TimesOut
    BY <1>1 DEF CallTimesOut, Timeout, Answered, Forsakes, serverVars, scriptVars, TimesOut
  <2>. QED
    BY <2>1 DEF Step
<1>2. CASE LogGrows \/ LogShrinks
  <2>1. Beside
    BY <1>2 DEF LogGrows, LogShrinks, callVars, scriptVars, Beside
  <2>. QED
    BY <2>1 DEF Step
<1>3. CASE FolderGrows
  <2>1. Beside
    BY <1>3 DEF FolderGrows, Walks, InStep, callVars, scriptVars, Beside
  <2>. QED
    BY <2>1 DEF Step
<1>4. CASE Dies
  <2>1. Loses
    BY <1>4 DEF Dies, ServerDies, scriptVars, Loses
  <2>. QED
    BY <2>1 DEF Step
<1>5. CASE IsStartedAgain
  <2>1. Beside
    BY <1>5 DEF IsStartedAgain, ServerStarts, scriptVars, Beside
  <2>. QED
    BY <2>1 DEF Step
<1>. QED
  BY <1>1, <1>2, <1>3, <1>4, <1>5, ScriptSteps, ReturnSteps, TakeSteps, JobSteps DEF Next, Worker

-----------------------------------------------------------------------------
(* The steps as the calls see them.                                        *)

CallStep ==
  \/ \E r \in FileRequest : Makes(r)
  \/ Finishes \/ Arrives \/ TimesOut \/ Quits
  \/ \E num \in {SUCCESS, FAILED} : Answers(num)
  \/ Starts \/ Works
  \/ \E num \in Int, text \in Content : Responds(num, text)
  \/ Loses \/ Beside

LEMMA CallSteps ==
  ASSUME CallTypes, DiskTypes, Step
  PROVE  CallStep
<1>1. SUCCESS \in Int /\ FAILED \in Int /\ <<>> \in Content
  BY Contents DEF SUCCESS, FAILED
<1>2. CASE ReadEnds
  <2>. DEFINE num == IF job.len + job.offset = Len(disk[job.file]) THEN SUCCESS
                     ELSE Narrow(job.len + job.offset)
  <2>1. job \in ContentJobs
    BY <1>2, Shapes DEF ReadEnds, CallTypes
  <2>2. job.len \in Nat /\ job.offset \in Nat /\ job.text \in Content
    BY <2>1 DEF ContentJobs
  <2>3. job.len + job.offset \in Nat
    BY <2>2
  <2>4. num \in Int
    BY <1>1, <2>3, Narrows
  <2>5. Responds(num, job.text)
    BY <1>2 DEF ReadEnds
  <2>. HIDE DEF num
  <2>. QED
    BY <2>2, <2>4, <2>5 DEF CallStep
<1>3. CASE BackupStarts \/ RestoreStarts \/ UpdateStarts \/ PieceStarts \/ FolderStarts
           \/ CommandStarts
  BY <1>3 DEF CallStep, BackupStarts, RestoreStarts, UpdateStarts, PieceStarts, FolderStarts,
              CommandStarts
<1>4. CASE Deletes \/ Reads \/ Walked
  BY <1>4 DEF CallStep, Deletes, Reads, Walked
<1>5. ASSUME NEW num \in {SUCCESS, FAILED}, Closes(num) \/ WalkEnds(num) \/ Done(num)
      PROVE  CallStep
  BY <1>1, <1>5 DEF CallStep, Closes, WalkEnds, Done
<1>6. CASE \/ \E r \in FileRequest : Makes(r)
           \/ Finishes \/ Arrives \/ TimesOut \/ Quits
           \/ \E num \in {SUCCESS, FAILED} : Answers(num)
           \/ Loses \/ Beside
  BY <1>6 DEF CallStep
<1>. QED
  BY <1>2, <1>3, <1>4, <1>5, <1>6 DEF Step

(* The types of the calls.                                                 *)
LEMMA CallTypesStep ==
  ASSUME CallTypes, AnswerTypes, CallStep
  PROVE  CallTypes' /\ AnswerTypes'
<1>0. /\ rpcs \in Seq(FileRequest) /\ job \in Jobs /\ NoJob \in Jobs
      /\ call.state \in {"idle", "waiting", "answered"}
      /\ call.num \in Int /\ call.text \in Content
  BY DEF CallTypes, AnswerTypes, Jobs
<1>1. /\ SUCCESS \in Int /\ FAILED \in Int /\ TIMEOUT_EXPIRED \in Int /\ NO_CONNECTION \in Int
      /\ <<>> \in Content
      /\ NoCall.state = "idle" /\ NoCall.num = SUCCESS /\ NoCall.text = <<>>
  BY Contents DEF SUCCESS, FAILED, TIMEOUT_EXPIRED, NO_CONNECTION, NoCall
<1>2. ASSUME NEW r, NEW num \in Int, NEW text \in Content, Respond(r, num, text)
      PROVE  job' \in Jobs /\ AnswerTypes'
  <2>1. job' = NoJob /\ (call' = call \/ call' = Answered(num, text))
    BY <1>2 DEF Respond
  <2>2. CASE call' = call
    BY <1>0, <2>1, <2>2 DEF AnswerTypes
  <2>3. CASE call' = Answered(num, text)
    BY <1>0, <2>1, <2>3 DEF AnswerTypes, Answered
  <2>. QED
    BY <2>1, <2>2, <2>3
<1>3. ASSUME NEW r \in FileRequest, Makes(r)
      PROVE  CallTypes' /\ AnswerTypes'
  <2>1. rpcs' \in Seq(FileRequest)
    BY <1>0, <1>3, AfterCall DEF Makes, Sends
  <2>2. job' \in Jobs
    BY <1>0, <1>3 DEF Makes
  <2>3. AnswerTypes'
    BY <1>1, <1>3 DEF Makes, Sends, AnswerTypes
  <2>. QED
    BY <2>1, <2>2, <2>3 DEF CallTypes
<1>4. CASE Finishes
  BY <1>0, <1>1, <1>4 DEF Finishes, CallTypes, AnswerTypes
<1>5. CASE Arrives \/ Beside
  BY <1>0, <1>5 DEF Arrives, Beside, callVars, CallTypes, AnswerTypes
<1>6. CASE Forsakes /\ (TimesOut \/ Quits)
  <2>1. rpcs' \in Seq(FileRequest)
    BY <1>6, AfterForsakes
  <2>2. job' \in Jobs
    BY <1>0, <1>6, ForsakenJob DEF Forsakes
  <2>3. AnswerTypes'
    BY <1>1, <1>6 DEF TimesOut, Quits, AnswerTypes
  <2>. QED
    BY <2>1, <2>2, <2>3 DEF CallTypes
<1>7. ASSUME NEW num \in {SUCCESS, FAILED}, Answers(num)
      PROVE  CallTypes' /\ AnswerTypes'
  <2>1. rpcs' \in Seq(FileRequest)
    BY <1>7, AfterTakes DEF Answers
  <2>2. job' \in Jobs /\ AnswerTypes'
    BY <1>1, <1>2, <1>7 DEF Answers
  <2>. QED
    BY <2>1, <2>2 DEF CallTypes
<1>8. CASE Starts
  <2>1. rpcs' \in Seq(FileRequest) /\ job' \in Jobs /\ UNCHANGED call
    BY <1>8, AfterTakes DEF Starts
  <2>. QED
    BY <1>0, <2>1 DEF CallTypes, AnswerTypes
<1>9. CASE Works
  BY <1>0, <1>9 DEF Works, CallTypes, AnswerTypes
<1>10. ASSUME NEW num \in Int, NEW text \in Content, Responds(num, text)
       PROVE  CallTypes' /\ AnswerTypes'
  <2>1. job' \in Jobs /\ AnswerTypes' /\ UNCHANGED rpcs
    BY <1>2, <1>10 DEF Responds
  <2>. QED
    BY <1>0, <2>1 DEF CallTypes
<1>11. CASE Loses
  <2>1. rpcs' = <<>> /\ job' = NoJob /\ UNCHANGED call
    BY <1>11 DEF Loses
  <2>2. <<>> \in Seq(FileRequest)
    OBVIOUS
  <2>. QED
    BY <1>0, <2>1, <2>2 DEF CallTypes, AnswerTypes
<1>. QED
  BY <1>3, <1>4, <1>5, <1>6, <1>7, <1>8, <1>9, <1>10, <1>11 DEF CallStep, TimesOut, Quits

(* The script is waiting for the call it made, or its answer is there.     *)
LEMMA ScriptTypesStep ==
  ASSUME CallTypes, ScriptTypes, ClientTypes, AnswerTypes, Awaited, CallStep
  PROVE  ScriptTypes' /\ ClientTypes'
<1>0. /\ script \in Placed
      /\ script.pc = "copied" => call.state = "answered"
      /\ (script = NoScript) <=> (call.state = "idle")
      /\ client = "none" => script = NoScript
      /\ client \in {"none", "connected", "lost"} /\ server \in BOOLEAN /\ guarded \in BOOLEAN
  BY DEF ScriptTypes, ClientTypes
<1>1. NoScript \in Placed /\ NoScript.op = "none" /\ NoScript.pc = "idle" /\ NoCall.state = "idle"
  BY DEF NoScript, Placed, Scripts, NoCall
<1>2. ASSUME NEW r \in FileRequest, Makes(r)
      PROVE  ScriptTypes' /\ ClientTypes'
  <2>1. /\ script' \in Placed /\ script'.op # "none" /\ script'.pc # "copied"
        /\ call'.state # "idle" /\ client' \in {"connected", "lost"} /\ UNCHANGED server
        /\ guarded' \in BOOLEAN
    BY <1>2 DEF Makes, Places, Guards, Sends
  <2>2. script' # NoScript
    BY <1>1, <2>1
  <2>. QED
    BY <1>0, <2>1, <2>2 DEF ScriptTypes, ClientTypes
<1>3. CASE Finishes \/ Quits
  <2>1. /\ script' = NoScript /\ call' = NoCall /\ server' = server
        /\ client' \in {client, "none"}
    BY <1>3 DEF Finishes, Quits
  <2>2. guarded' \in BOOLEAN
    BY <1>0, <1>3 DEF Finishes, Quits
  <2>. QED
    BY <1>0, <1>1, <2>1, <2>2 DEF ScriptTypes, ClientTypes
<1>4. CASE Arrives
  <2>1. /\ script' = [script EXCEPT !.pc = "copied"] /\ call.state = "answered" /\ call' = call
        /\ script.pc \in {"first", "more"} /\ UNCHANGED <<client, server, guarded>>
    BY <1>4 DEF Arrives, Copying, callVars
  <2>2. script' \in Placed /\ script'.pc = "copied"
    BY <1>0, <2>1 DEF Placed, Scripts
  <2>3. script # NoScript /\ script' # NoScript
    BY <1>1, <2>1, <2>2
  <2>. QED
    BY <1>0, <2>1, <2>2, <2>3 DEF ScriptTypes, ClientTypes
<1>5. ASSUME NEW r, NEW num, NEW text, Respond(r, num, text), UNCHANGED scriptSide,
             r.waiting => call.state = "waiting"
      PROVE  ScriptTypes' /\ ClientTypes'
  <2>1. \/ call' = call
        \/ call'.state = "answered" /\ call.state = "waiting"
    BY <1>5 DEF Respond, Answered
  <2>. QED
    BY <1>0, <1>5, <2>1 DEF ScriptTypes, ClientTypes, scriptSide
<1>6. ASSUME NEW num \in {SUCCESS, FAILED}, Answers(num)
      PROVE  ScriptTypes' /\ ClientTypes'
  <2>1. Taken.waiting => call.state = "waiting"
    BY <1>6, AfterTakes DEF Answers, Awaited
  <2>. QED
    BY <1>5, <1>6, <2>1 DEF Answers
<1>7. ASSUME NEW num \in Int, NEW text \in Content, Responds(num, text)
      PROVE  ScriptTypes' /\ ClientTypes'
  BY <1>5, <1>7 DEF Responds, Awaited
<1>8. CASE Starts \/ Works
  BY <1>0, <1>8 DEF Starts, Works, scriptSide, ScriptTypes, ClientTypes
<1>9. CASE TimesOut
  BY <1>0, <1>9 DEF TimesOut, ScriptTypes, ClientTypes
<1>10. CASE Loses
  BY <1>0, <1>10 DEF Loses, Connected, ScriptTypes, ClientTypes
<1>11. CASE Beside
  BY <1>0, <1>11 DEF Beside, ScriptTypes, ClientTypes
<1>. QED
  BY <1>2, <1>3, <1>4, <1>6, <1>7, <1>8, <1>9, <1>10, <1>11 DEF CallStep

(* The call the script waits for.                                          *)
LEMMA AwaitedStep ==
  ASSUME CallTypes, ScriptTypes, ClientTypes, AnswerTypes, Awaited, Held, Asked, CallStep
  PROVE  Awaited' /\ Held' /\ Asked'
<1>0. /\ rpcs \in Seq(FileRequest) /\ Len(rpcs) \in Nat /\ job \in Jobs
      /\ NoJob.waiting = FALSE /\ Len(<<>>) = 0
  BY Contents DEF CallTypes, NoJob
<1>1. ASSUME NEW r \in FileRequest, Makes(r)
      PROVE  Awaited' /\ Held' /\ Asked'
  <2>1. /\ call.state # "waiting" /\ UNCHANGED job
        /\ ~job.waiting /\ \A i \in 1..Len(rpcs) : ~rpcs[i].waiting
    BY <1>1 DEF Makes, Awaited
  <2>2. CASE /\ client' = "connected" /\ rpcs' = Append(rpcs, r)
             /\ call'.state = "waiting"
    <3>1. /\ Len(rpcs') = Len(rpcs) + 1 /\ rpcs'[Len(rpcs) + 1] = r
          /\ \A i \in 1..Len(rpcs) : rpcs'[i] = rpcs[i]
          /\ \A i \in 1..Len(rpcs') : i \in 1..Len(rpcs) \/ i = Len(rpcs) + 1
      BY <2>2, AfterCall
    <3>2. \A i \in 1..Len(rpcs') : rpcs'[i].waiting => i = Len(rpcs) + 1 /\ rpcs'[i] = r
      BY <2>1, <3>1
    <3>3. (\A c \in Rpcs : c = r.rpc => Expected(c)') /\ r.waiting
      BY <1>1 DEF Makes, Places
    <3>4. Awaited'
      <4>1. ASSUME NEW i \in 1..Len(rpcs'), rpcs'[i].waiting
            PROVE  /\ i = Len(rpcs')
                   /\ \A c \in Rpcs : c = rpcs'[i].rpc => Expected(c)'
        BY <3>1, <3>2, <3>3, <4>1
      <4>2. ~job'.waiting
        BY <2>1
      <4>. QED
        BY <2>2, <4>1, <4>2 DEF Awaited, Connected
    <3>5. Held'
      <4>1. Len(rpcs) + 1 \in 1..Len(rpcs') /\ rpcs'[Len(rpcs) + 1].waiting
        BY <1>0, <3>1, <3>3
      <4>. QED
        BY <4>1 DEF Held
    <3>6. Asked'
      <4>1. ASSUME NEW i \in 1..Len(rpcs'), rpcs'[i].waiting
            PROVE  /\ script'.pc = "origin" => rpcs'[i].arg.file = Bak
                   /\ script'.pc = "exists" => rpcs'[i].arg.file = script'.file
                   /\ script'.pc \in {"first", "more"} =>
                        rpcs'[i].types = PIECE /\ rpcs'[i].arg.file = script'.file
        <5>1. rpcs'[i] = r
          BY <3>2, <4>1
        <5>. QED
          BY <1>1, <5>1 DEF Makes, Places, Continues
      <4>. QED
        BY <4>1 DEF Asked
    <3>. QED
      BY <3>4, <3>5, <3>6
  <2>3. CASE UNCHANGED rpcs /\ call'.state = "answered"
    <3>1. ~job'.waiting /\ \A i \in 1..Len(rpcs') : ~rpcs'[i].waiting
      BY <2>1, <2>3
    <3>. QED
      BY <2>3, <3>1 DEF Awaited, Held, Asked
  <2>. QED
    BY <1>1, <2>2, <2>3 DEF Makes, Sends
<1>2. ASSUME ~job'.waiting, \A i \in 1..Len(rpcs') : ~rpcs'[i].waiting,
             call'.state # "waiting" \/ ~Connected'
      PROVE  Awaited' /\ Held' /\ Asked'
  BY <1>2 DEF Awaited, Held, Asked
<1>3. CASE Finishes \/ Arrives
  <2>1. /\ call.state = "answered" /\ UNCHANGED <<rpcs, job>> /\ call'.state # "waiting"
    BY <1>3 DEF Finishes, Arrives, callVars, NoCall
  <2>2. ~job.waiting /\ \A i \in 1..Len(rpcs) : ~rpcs[i].waiting
    BY <2>1 DEF Awaited
  <2>. QED
    BY <1>2, <2>1, <2>2
<1>4. CASE TimesOut \/ Quits
  <2>1. Forsakes /\ call'.state # "waiting"
    BY <1>4 DEF TimesOut, Quits, NoCall
  <2>2. ~job'.waiting
    BY <1>0, <2>1, ForsakenJob DEF Forsakes
  <2>3. \A i \in 1..Len(rpcs') : ~rpcs'[i].waiting
    BY <2>1, AfterForsakes
  <2>. QED
    BY <1>2, <2>1, <2>2, <2>3
<1>5. ASSUME Takes, UNCHANGED scriptSide
      PROVE  /\ \A i \in 1..Len(rpcs') : rpcs'[i].waiting =>
                  /\ call.state = "waiting" /\ Connected' /\ ~Taken.waiting
                  /\ i = Len(rpcs')
                  /\ \A c \in Rpcs : c = rpcs'[i].rpc => Expected(c)'
             /\ Taken.waiting =>
                  /\ call.state = "waiting" /\ Connected' /\ rpcs' = <<>>
                  /\ \A c \in Rpcs : c = Taken.rpc => Expected(c)'
             /\ call.state = "waiting" /\ Connected' =>
                  Taken.waiting \/ \E i \in 1..Len(rpcs') : rpcs'[i].waiting
             /\ Asked'
  <2>1. /\ Taken = rpcs[1] /\ 1 \in 1..Len(rpcs) /\ job.waiting = FALSE
        /\ Len(rpcs') = Len(rpcs) - 1 /\ (Len(rpcs) = 1 => rpcs' = <<>>)
        /\ \A i \in 1..Len(rpcs') :
             i \in Nat /\ i >= 1 /\ i + 1 \in 1..Len(rpcs) /\ rpcs'[i] = rpcs[i + 1]
    BY <1>5, AfterTakes
  <2>2. UNCHANGED <<client, script, tmp>>
    BY <1>5 DEF scriptSide
  <2>3. ASSUME NEW i \in 1..Len(rpcs'), rpcs'[i].waiting
        PROVE  /\ call.state = "waiting" /\ Connected' /\ ~Taken.waiting
               /\ i = Len(rpcs')
               /\ \A c \in Rpcs : c = rpcs'[i].rpc => Expected(c)'
    <3>1. i \in Nat /\ i >= 1 /\ i + 1 \in 1..Len(rpcs) /\ rpcs[i + 1].waiting
      BY <2>1, <2>3
    <3>2. /\ call.state = "waiting" /\ Connected /\ i + 1 = Len(rpcs)
          /\ \A c \in Rpcs : c = rpcs[i + 1].rpc => Expected(c)
      BY <3>1 DEF Awaited
    <3>3. ~Taken.waiting
      BY <1>0, <2>1, <3>1, <3>2 DEF Awaited
    <3>4. i = Len(rpcs')
      BY <1>0, <2>1, <3>1, <3>2
    <3>5. \A c \in Rpcs : c = rpcs'[i].rpc => Expected(c)'
      BY <2>1, <2>2, <3>2 DEF Expected
    <3>. QED
      BY <2>2, <3>2, <3>3, <3>4, <3>5 DEF Connected
  <2>4. ASSUME Taken.waiting
        PROVE  /\ call.state = "waiting" /\ Connected' /\ rpcs' = <<>>
               /\ \A c \in Rpcs : c = Taken.rpc => Expected(c)'
    <3>1. /\ call.state = "waiting" /\ Connected /\ Len(rpcs) = 1
          /\ \A c \in Rpcs : c = Taken.rpc => Expected(c)
      BY <2>1, <2>4 DEF Awaited
    <3>. QED
      BY <2>1, <2>2, <3>1 DEF Connected, Expected
  <2>5. ASSUME call.state = "waiting", Connected', ~Taken.waiting
        PROVE  \E i \in 1..Len(rpcs') : rpcs'[i].waiting
    <3>1. PICK i \in 1..Len(rpcs) : rpcs[i].waiting
      BY <2>1, <2>2, <2>5 DEF Held, Connected
    <3>2. i # 1 /\ i - 1 \in 1..Len(rpcs') /\ (i - 1) + 1 = i
      BY <1>0, <2>1, <2>5, <3>1
    <3>3. rpcs'[i - 1] = rpcs[i]
      BY <2>1, <3>2
    <3>. QED
      BY <3>1, <3>2, <3>3
  <2>6. Asked'
    <3>1. ASSUME NEW i \in 1..Len(rpcs'), rpcs'[i].waiting
          PROVE  /\ script'.pc = "origin" => rpcs'[i].arg.file = Bak
                 /\ script'.pc = "exists" => rpcs'[i].arg.file = script'.file
                 /\ script'.pc \in {"first", "more"} =>
                      rpcs'[i].types = PIECE /\ rpcs'[i].arg.file = script'.file
      <4>1. i + 1 \in 1..Len(rpcs) /\ rpcs'[i] = rpcs[i + 1]
        BY <2>1
      <4>. QED
        BY <2>2, <3>1, <4>1 DEF Asked
    <3>. QED
      BY <3>1 DEF Asked
  <2>. QED
    BY <2>3, <2>4, <2>5, <2>6
<1>6. ASSUME NEW num \in {SUCCESS, FAILED}, Answers(num)
      PROVE  Awaited' /\ Held' /\ Asked'
  <2>1. Takes /\ UNCHANGED scriptSide /\ Respond(Taken, num, <<>>)
    BY <1>6 DEF Answers
  <2>2. ~job'.waiting /\ (Taken.waiting => call'.state = "answered")
        /\ (~Taken.waiting => call' = call)
    BY <1>0, <2>1 DEF Respond, Answered
  <2>3. Awaited'
    BY <1>5, <2>1, <2>2 DEF Awaited
  <2>4. Held'
    BY <1>5, <2>1, <2>2 DEF Held
  <2>. QED
    BY <1>5, <2>1, <2>3, <2>4
<1>7. CASE Starts
  <2>1. Takes /\ UNCHANGED <<scriptSide, call>> /\ job'.waiting = Taken.waiting
        /\ job'.rpc = Taken.rpc
    BY <1>7 DEF Starts
  <2>2. Awaited'
    BY <1>5, <2>1 DEF Awaited
  <2>3. Held'
    BY <1>5, <2>1 DEF Held
  <2>. QED
    BY <1>5, <2>1, <2>2, <2>3
<1>8. CASE Works
  <2>1. /\ UNCHANGED <<client, script, call, rpcs>>
        /\ job'.waiting = job.waiting /\ job'.rpc = job.rpc
    BY <1>8 DEF Works, scriptSide
  <2>. QED
    BY <2>1 DEF Awaited, Held, Asked, Connected, Expected
<1>9. ASSUME NEW num \in Int, NEW text \in Content, Responds(num, text)
      PROVE  Awaited' /\ Held' /\ Asked'
  <2>1. /\ UNCHANGED <<client, script, rpcs>> /\ job' = NoJob
        /\ call' = IF job.waiting THEN Answered(num, text) ELSE call
    BY <1>9 DEF Responds, Respond, scriptSide
  <2>2. CASE job.waiting
    <3>1. rpcs' = <<>> /\ call'.state = "answered"
      BY <2>1, <2>2 DEF Awaited, Answered
    <3>. QED
      BY <1>0, <1>2, <2>1, <3>1
  <2>3. CASE ~job.waiting
    BY <1>0, <2>1, <2>3 DEF Awaited, Held, Asked, Connected, Expected
  <2>. QED
    BY <2>2, <2>3
<1>10. CASE Loses
  <2>1. rpcs' = <<>> /\ job' = NoJob /\ ~Connected'
    BY <1>10 DEF Loses, Connected
  <2>. QED
    BY <1>0, <1>2, <2>1
<1>11. CASE Beside
  <2>1. UNCHANGED <<client, script, call, rpcs, job>>
    BY <1>11 DEF Beside
  <2>. QED
    BY <2>1 DEF Awaited, Held, Asked, Connected, Expected
<1>. QED
  BY <1>1, <1>3, <1>4, <1>6, <1>7, <1>8, <1>9, <1>10, <1>11 DEF CallStep

(* An answer of the server leaves no call behind.                          *)
LEMMA SettledStep ==
  ASSUME CallTypes, ScriptTypes, ClientTypes, AnswerTypes, Awaited, Settled, CallStep
  PROVE  Settled'
<1>0. /\ NO_CONNECTION \in NoAnswer /\ TIMEOUT_EXPIRED \in NoAnswer
      /\ NoCall.state = "idle" /\ NoLast.op = "none" /\ job \in Jobs
  BY DEF NoAnswer, NoCall, NoLast, CallTypes
<1>1. /\ call.state = "answered" /\ call.num \notin NoAnswer => Still
      /\ last.op \in {"restore", "folder_delete"} /\ last.num \notin NoAnswer => Still
      /\ script # NoScript => last.op = "none"
      /\ client = "none" => last.op = "none" /\ ~guarded
      /\ client = "lost" => Still
  BY DEF Settled
<1>2. ASSUME NEW r \in FileRequest, Makes(r)
      PROVE  Settled'
  <2>1. /\ last'.op = "none" /\ UNCHANGED job /\ client' # "none"
        /\ call'.state = "answered" => call'.num \in NoAnswer
        /\ client' = "lost" => client = "lost" /\ UNCHANGED rpcs
    BY <1>0, <1>2 DEF Makes, Sends
  <2>2. client' = "lost" => Still'
    BY <1>1, <2>1 DEF Still
  <2>. QED
    BY <2>1, <2>2 DEF Settled
<1>3. CASE Finishes
  <2>1. PICK num \in {call.num, SUCCESS, FAILED} :
          last' = [op |-> script.op, num |-> num]
          /\ (num = call.num \/ script.op \in {"get", "set"})
    BY <1>3 DEF Finishes
  <2>2. /\ last'.op = script.op /\ last'.num = num
        /\ script' = NoScript /\ call'.state = "idle" /\ call.state = "answered"
        /\ script # NoScript /\ UNCHANGED <<client, rpcs, job>>
    BY <1>0, <1>3, <2>1 DEF Finishes
  <2>3. last'.op \in {"restore", "folder_delete"} /\ last'.num \notin NoAnswer => Still'
    BY <1>1, <2>1, <2>2 DEF Still
  <2>4. client' # "none" /\ (client' = "lost" => Still')
    BY <1>1, <2>2 DEF ScriptTypes, Still
  <2>. QED
    BY <2>2, <2>3, <2>4 DEF Settled
<1>4. CASE Arrives
  <2>1. UNCHANGED <<client, call, rpcs, job, last, guarded>> /\ script # NoScript
    BY <1>4 DEF Arrives, callVars, ScriptTypes
  <2>2. Still' <=> Still
    BY <2>1 DEF Still
  <2>. QED
    BY <1>1, <2>1, <2>2 DEF Settled
<1>5. CASE TimesOut
  <2>1. /\ Forsakes /\ call'.state = "answered" /\ call'.num \in NoAnswer
        /\ UNCHANGED <<client, script, last, guarded>> /\ script # NoScript
    BY <1>0, <1>5 DEF TimesOut, ScriptTypes
  <2>2. Still => Still'
    BY <1>0, <2>1, AfterForsakes, ForsakenJob DEF Still, Forsakes
  <2>. QED
    BY <1>1, <2>1, <2>2 DEF Settled
<1>6. CASE Quits
  <2>1. client' = "none" /\ script' = NoScript /\ guarded' = FALSE /\ last'.op = "none"
        /\ call'.state = "idle"
    BY <1>0, <1>6 DEF Quits
  <2>. QED
    BY <2>1 DEF Settled
<1>7. ASSUME ~Still, UNCHANGED <<client, script, last, guarded>>,
             UNCHANGED call \/ Still'
      PROVE  Settled'
  BY <1>1, <1>7 DEF Settled
<1>8. Takes => ~Still
  BY DEF Takes, Still
<1>9. ASSUME NEW num \in {SUCCESS, FAILED}, Answers(num)
      PROVE  Settled'
  <2>1. Takes /\ job' = NoJob /\ UNCHANGED <<client, script, last, guarded>>
        /\ (~Taken.waiting => UNCHANGED call)
    BY <1>9 DEF Answers, Respond, scriptSide
  <2>2. ASSUME Taken.waiting
        PROVE  rpcs' = <<>>
    BY <2>1, <2>2, AfterTakes DEF Awaited
  <2>. QED
    BY <1>7, <1>8, <2>1, <2>2 DEF Still
<1>10. CASE Starts
  BY <1>7, <1>8, <1>10 DEF Starts, scriptSide
<1>11. job.rpc # "none" => ~Still
  BY DEF Still, NoJob
<1>12. CASE Works
  BY <1>7, <1>11, <1>12 DEF Works, scriptSide
<1>13. ASSUME NEW num \in Int, NEW text \in Content, Responds(num, text)
       PROVE  Settled'
  <2>1. job.rpc # "none" /\ job' = NoJob /\ UNCHANGED <<client, script, last, guarded, rpcs>>
        /\ (~job.waiting => UNCHANGED call)
    BY <1>13 DEF Responds, Respond, scriptSide
  <2>2. ASSUME job.waiting
        PROVE  rpcs' = <<>>
    BY <2>1, <2>2 DEF Awaited
  <2>. QED
    BY <1>7, <1>11, <2>1, <2>2 DEF Still
<1>14. CASE Loses
  <2>1. Still' /\ UNCHANGED <<call, script, last, guarded>> /\ (client' = "none" => client = "none")
    BY <1>14 DEF Loses, Still, Connected
  <2>. QED
    BY <1>1, <2>1 DEF Settled
<1>15. CASE Beside
  <2>1. UNCHANGED <<client, call, rpcs, job, script, last, guarded>>
    BY <1>15 DEF Beside
  <2>2. Still' <=> Still
    BY <2>1 DEF Still
  <2>. QED
    BY <1>1, <2>1, <2>2 DEF Settled
<1>. QED
  BY <1>2, <1>3, <1>4, <1>5, <1>6, <1>9, <1>10, <1>12, <1>13, <1>14, <1>15 DEF CallStep

(* Only a script that has made its backup changes the configuration.       *)
LEMMA SetGuardedStep ==
  ASSUME ScriptTypes, ClientTypes, SetGuarded, CallStep
  PROVE  SetGuarded'
<1>1. ASSUME NEW r \in FileRequest, Makes(r)
      PROVE  SetGuarded'
  BY <1>1 DEF Makes, Guards, SetGuarded
<1>2. CASE Finishes \/ Quits
  <2>1. script'.op = "none"
    BY <1>2 DEF Finishes, Quits, NoScript
  <2>. QED
    BY <2>1 DEF SetGuarded
<1>3. CASE Arrives
  <2>1. script'.op = script.op /\ UNCHANGED guarded
    BY <1>3 DEF Arrives, ScriptTypes, Placed, Scripts
  <2>. QED
    BY <2>1 DEF SetGuarded
<1>4. ASSUME UNCHANGED <<script, guarded>>
      PROVE  SetGuarded'
  BY <1>4 DEF SetGuarded
<1>. QED
  BY <1>1, <1>2, <1>3, <1>4 DEF CallStep, TimesOut, Answers, Starts, Works, Responds, Loses, Beside,
                               scriptSide

-----------------------------------------------------------------------------
(* The backup.                                                             *)

CallsKept ==
  /\ CallTypes /\ ScriptTypes /\ AnswerTypes /\ DiskTypes /\ ClientTypes
  /\ Awaited /\ Held /\ Asked /\ Settled /\ SetGuarded

(* The script makes a call.                                                *)
LEMMA SafeMakes ==
  ASSUME CallsKept, Safe, NEW r \in FileRequest, Makes(r), ~Lost'
  PROVE  Safe'
<1>0. /\ CallTypes /\ ScriptTypes /\ ClientTypes /\ Settled /\ SetGuarded
      /\ JobKept /\ RestoreFirst /\ BackupNext /\ WritesLast
      /\ Guarded /\ OriginKnown /\ Restoring /\ Restored
      /\ Len(rpcs) \in Nat
  BY DEF CallsKept, Safe, CallTypes
<1>1. /\ UNCHANGED <<job, disk, original>> /\ call.state # "waiting" /\ last'.op = "none"
      /\ client' = client \/ (client = "none" /\ script'.op = "connect")
  BY DEF Makes
<1>2. (Saved' <=> Saved) /\ (Orig' <=> Orig)
  BY <1>1 DEF Saved, Orig
<1>3. \/ /\ client' = "connected" /\ call'.state = "waiting"
         /\ Len(rpcs') = Len(rpcs) + 1 /\ rpcs'[Len(rpcs) + 1] = r
         /\ \A i \in 1..Len(rpcs) : rpcs'[i] = rpcs[i] /\ i \in 1..Len(rpcs')
         /\ \A i \in 1..Len(rpcs') : i \in 1..Len(rpcs) \/ i = Len(rpcs) + 1
      \/ /\ client' = "lost" /\ client = "lost" /\ UNCHANGED rpcs
         /\ call'.state = "answered" /\ call'.num = NO_CONNECTION
  <2>1. CASE client' = "connected" /\ rpcs' = Append(rpcs, r) /\ call'.state = "waiting"
    <3>1. /\ Len(rpcs') = Len(rpcs) + 1 /\ rpcs'[Len(rpcs) + 1] = r
          /\ \A i \in 1..Len(rpcs) : rpcs'[i] = rpcs[i]
          /\ \A i \in 1..Len(rpcs') : i \in 1..Len(rpcs) \/ i = Len(rpcs) + 1
      BY <1>0, <2>1, AfterCall
    <3>2. \A i \in 1..Len(rpcs) : i \in 1..Len(rpcs')
      BY <1>0, <3>1
    <3>. QED
      BY <2>1, <3>1, <3>2
  <2>. QED
    BY <2>1 DEF Makes, Sends
<1>4. ASSUME r.rpc = "file_restore"
      PROVE  rpcs = <<>> /\ job = NoJob /\ Saved /\ Len(rpcs) = 0
  <2>1. script.pc = "origin" /\ call.state = "answered" /\ call.num = SUCCESS
    BY <1>4 DEF Makes, Guards
  <2>2. SUCCESS \notin NoAnswer
    BY DEF SUCCESS, NoAnswer, TIMEOUT_EXPIRED, NO_CONNECTION
  <2>3. Still /\ Saved
    BY <1>0, <2>1, <2>2 DEF Settled, OriginKnown
  <2>. QED
    BY <2>3, Contents DEF Still
<1>5. ASSUME r.rpc = "file_backup", client' = "connected"
      PROVE  \/ job = NoJob /\ Len(rpcs) = 1 /\ Holds("file_restore")
             \/ job.rpc = "file_restore" /\ Len(rpcs) = 0
             \/ job = NoJob /\ Len(rpcs) = 0 /\ Orig
  <2>1. /\ call.state = "answered"
        /\ \/ script.pc = "restored"
           \/ /\ script.pc = "origin" /\ call.num # SUCCESS
              /\ call.num = TIMEOUT_EXPIRED => "unknown" \in seen'
    BY <1>5 DEF Makes, Guards
  <2>2. Connected
    BY <1>0, <1>1, <1>5, <2>1 DEF ScriptTypes, Connected
  <2>3. CASE script.pc = "restored"
    BY <1>0, <2>2, <2>3, Contents DEF Restoring, Still
  <2>4. CASE script.pc = "origin" /\ call.num # SUCCESS
    <3>1. call.num # TIMEOUT_EXPIRED
      BY <2>1, <2>4 DEF Lost
    <3>2. call.num = FAILED /\ Orig
      BY <1>0, <2>1, <2>2, <2>4, <3>1 DEF OriginKnown
    <3>3. FAILED \notin NoAnswer
      BY DEF FAILED, NoAnswer, TIMEOUT_EXPIRED, NO_CONNECTION
    <3>4. Still
      BY <1>0, <2>1, <3>2, <3>3 DEF Settled
    <3>. QED
      BY <3>2, <3>4, Contents DEF Still
  <2>. QED
    BY <2>1, <2>3, <2>4
<1>6. JobKept'
  BY <1>0, <1>1, <1>2 DEF JobKept
<1>7. RestoreFirst'
  <2>1. ASSUME NEW i \in 1..Len(rpcs'), rpcs'[i].rpc = "file_restore"
        PROVE  i = 1 /\ job' = NoJob /\ Saved'
    <3>1. CASE i \in 1..Len(rpcs) /\ rpcs'[i] = rpcs[i]
      BY <1>0, <1>1, <1>2, <2>1, <3>1 DEF RestoreFirst
    <3>2. CASE i = Len(rpcs) + 1 /\ rpcs'[i] = r
      BY <1>1, <1>2, <1>4, <2>1, <3>2
    <3>. QED
      BY <1>3, <3>1, <3>2
  <2>. QED
    BY <2>1 DEF RestoreFirst
<1>8. BackupNext'
  <2>1. ASSUME NEW i \in 1..Len(rpcs'), rpcs'[i].rpc = "file_backup"
        PROVE  \/ i = 1 /\ (job'.rpc = "file_restore" \/ (job' = NoJob /\ Orig'))
               \/ i = 2 /\ rpcs'[1].rpc = "file_restore"
    <3>1. CASE i \in 1..Len(rpcs) /\ rpcs'[i] = rpcs[i]
      <4>1. \/ i = 1 /\ (job.rpc = "file_restore" \/ (job = NoJob /\ Orig))
            \/ i = 2 /\ rpcs[1].rpc = "file_restore"
        BY <1>0, <2>1, <3>1 DEF BackupNext
      <4>2. i = 2 => 1 \in 1..Len(rpcs) /\ rpcs'[1] = rpcs[1]
        BY <1>0, <1>3, <3>1
      <4>. QED
        BY <1>1, <1>2, <4>1, <4>2
    <3>2. CASE i = Len(rpcs) + 1 /\ rpcs'[i] = r /\ client' = "connected"
      <4>1. r.rpc = "file_backup"
        BY <2>1, <3>2
      <4>2. CASE job = NoJob /\ Len(rpcs) = 1 /\ Holds("file_restore")
        <5>1. 1 \in 1..Len(rpcs) /\ rpcs[1].rpc = "file_restore"
          BY <4>2 DEF Holds
        <5>2. rpcs'[1] = rpcs[1]
          BY <1>3, <5>1
        <5>. QED
          BY <3>2, <4>2, <5>1, <5>2
      <4>3. CASE job.rpc = "file_restore" /\ Len(rpcs) = 0
        BY <1>1, <3>2, <4>3
      <4>4. CASE job = NoJob /\ Len(rpcs) = 0 /\ Orig
        BY <1>1, <1>2, <3>2, <4>4
      <4>. QED
        BY <1>5, <3>2, <4>1, <4>2, <4>3, <4>4
    <3>. QED
      BY <1>3, <3>1, <3>2
  <2>. QED
    BY <2>1 DEF BackupNext
<1>9. ASSUME WillBeSaved, r.rpc # "file_restore"
      PROVE  WillBeSaved'
  <2>1. CASE Holds("file_backup")
    <3>1. PICK i \in 1..Len(rpcs) : rpcs[i].rpc = "file_backup"
      BY <2>1 DEF Holds
    <3>2. i \in 1..Len(rpcs') /\ rpcs'[i] = rpcs[i]
      BY <1>3, <3>1
    <3>. QED
      BY <3>1, <3>2 DEF WillBeSaved, Holds
  <2>2. CASE job.rpc = "file_backup"
    BY <1>1, <2>2 DEF WillBeSaved
  <2>3. CASE job.rpc # "file_restore" /\ Saved /\ ~Holds("file_restore")
    <3>1. \A i \in 1..Len(rpcs') : rpcs'[i].rpc # "file_restore"
      BY <1>3, <1>9, <2>3 DEF Holds
    <3>. QED
      BY <1>1, <1>2, <2>3, <3>1 DEF WillBeSaved, Holds
  <2>. QED
    BY <1>9, <2>1, <2>2, <2>3 DEF WillBeSaved
<1>10. ASSUME r.rpc = "file_backup", client' = "connected"
       PROVE  WillBeSaved'
  <2>1. Len(rpcs) + 1 \in 1..Len(rpcs') /\ rpcs'[Len(rpcs) + 1].rpc = "file_backup"
    BY <1>0, <1>3, <1>10
  <2>. QED
    BY <2>1 DEF WillBeSaved, Holds
<1>11. /\ script'.op = "backup" /\ script'.pc = "last" => r.rpc = "file_backup"
       /\ r.rpc = "file_restore" => script'.pc = "restored" /\ script'.op \in {"backup", "restore"}
       /\ script'.pc = "restored" => r.rpc = "file_restore"
       /\ r.rpc \in Writes => script'.op \in {"set", "put", "clean"}
  <2>1. r.rpc \in Rpcs
    BY Requests
  <2>2. ExpectedAt(script', r.rpc) /\ script' \in Placed
    BY <2>1 DEF Makes, Places, Expected
  <2>3. "client_connected" \notin FolderCalls /\ "file_restore" \notin FolderCalls
        /\ "backup" \notin FolderCalls /\ "file_update" \notin FolderCalls
        /\ "file_delete" \notin FolderCalls
    BY DEF FolderCalls
  <2>4. script'.pc \in {"origin", "restored"} => script'.op \in {"backup", "restore"}
    BY <2>2 DEF Placed
  <2>. QED
    BY <2>2, <2>3, <2>4 DEF ExpectedAt, Writes
<1>12. ASSUME guarded', script'.op # "backup", client' = "connected"
       PROVE  WillBeSaved /\ r.rpc # "file_restore"
  <2>1. guarded /\ script.op \in {script'.op, "none"}
    BY <1>12 DEF Makes, Guards, Places
  <2>2. Connected
    BY <1>0, <1>1, <1>12, <2>1 DEF Settled, Connected
  <2>3. script.op # "backup"
    BY <1>12, <2>1
  <2>4. r.rpc # "file_restore"
    <3>1. script'.op # "restore"
      BY <1>12 DEF Makes, Guards
    <3>. QED
      BY <1>11, <1>12, <3>1
  <2>. QED
    BY <1>0, <2>1, <2>2, <2>3, <2>4 DEF Guarded
<1>13. Guarded'
  <2>1. ASSUME client' = "connected", guarded', script'.op # "backup"
        PROVE  WillBeSaved'
    BY <1>9, <1>12, <2>1
  <2>2. ASSUME client' = "connected", script'.op = "backup", script'.pc = "last"
        PROVE  WillBeSaved'
    BY <1>10, <1>11, <2>2
  <2>. QED
    BY <2>1, <2>2 DEF Guarded, Connected
<1>14. WritesLast'
  <2>1. ASSUME NEW i \in 1..Len(rpcs'), rpcs'[i].rpc \in Writes
        PROVE  WillBeSaved'
    <3>1. CASE i \in 1..Len(rpcs) /\ rpcs'[i] = rpcs[i]
      <4>1. WillBeSaved
        BY <1>0, <2>1, <3>1 DEF WritesLast
      <4>2. r.rpc # "file_restore"
        BY <1>0, <1>4, <3>1
      <4>. QED
        BY <1>9, <4>1, <4>2
    <3>2. CASE rpcs'[i] = r /\ client' = "connected"
      <4>1. script'.op \in {"set", "put", "clean"}
        BY <1>11, <2>1, <3>2
      <4>2. guarded'
        BY <4>1 DEF Makes, Guards
      <4>. QED
        BY <1>9, <1>12, <3>2, <4>1, <4>2
    <3>. QED
      BY <1>3, <3>1, <3>2
  <2>. QED
    BY <2>1 DEF WritesLast
<1>15. OriginKnown'
  <2>1. call'.state = "answered" => call'.num = NO_CONNECTION /\ ~Connected'
    BY <1>3 DEF Connected
  <2>2. NO_CONNECTION # SUCCESS /\ NO_CONNECTION # FAILED
    BY DEF NO_CONNECTION, SUCCESS, FAILED
  <2>. QED
    BY <2>1, <2>2 DEF OriginKnown
<1>16. Restoring'
  <2>1. ASSUME script'.pc = "restored", client' = "connected"
        PROVE  job' = NoJob /\ Len(rpcs') = 1 /\ Holds("file_restore")'
    <3>1. r.rpc = "file_restore" /\ Len(rpcs) = 0 /\ job = NoJob
      BY <1>4, <1>11, <2>1
    <3>2. Len(rpcs') = 1 /\ 1 \in 1..Len(rpcs') /\ rpcs'[1].rpc = "file_restore"
      BY <1>3, <2>1, <3>1
    <3>. QED
      BY <1>1, <3>1, <3>2 DEF Holds
  <2>2. call'.state = "answered" => call'.num \in NoAnswer
    BY <1>3 DEF NoAnswer
  <2>. QED
    BY <2>1, <2>2 DEF Restoring, Connected
<1>17. Restored'
  BY <1>1 DEF Restored
<1>. QED
  BY <1>6, <1>7, <1>8, <1>13, <1>14, <1>15, <1>16, <1>17 DEF Safe

(* An operation ends, a copy is complete.                                  *)
LEMMA SafeFinishes ==
  ASSUME CallsKept, Safe, Finishes \/ Arrives
  PROVE  Safe'
<1>0. /\ ScriptTypes /\ Settled
      /\ JobKept /\ RestoreFirst /\ BackupNext /\ WritesLast
      /\ Guarded /\ OriginKnown /\ Restoring /\ Restored
  BY DEF CallsKept, Safe
<1>1. UNCHANGED <<client, rpcs, job, disk, original>> /\ call.state = "answered"
  BY DEF Finishes, Arrives, callVars
<1>2. (Saved' <=> Saved) /\ (Orig' <=> Orig)
  BY <1>1 DEF Saved, Orig
<1>3. WillBeSaved' <=> WillBeSaved
  BY <1>1, <1>2 DEF WillBeSaved, Holds
<1>4. JobKept' /\ RestoreFirst' /\ BackupNext' /\ WritesLast'
  BY <1>0, <1>1, <1>2, <1>3 DEF JobKept, RestoreFirst, BackupNext, WritesLast
<1>5. script \in Scripts /\ (script.op = "restore" => script.pc \in {"origin", "restored"})
  BY <1>0 DEF ScriptTypes, Placed
<1>6. CASE Finishes
  <2>1. PICK num \in {call.num, SUCCESS, FAILED} :
          last' = [op |-> script.op, num |-> num]
          /\ (num = call.num \/ script.op \in {"get", "set"})
    BY <1>6 DEF Finishes
  <2>2. script'.op = "none" /\ script'.pc = "idle" /\ last'.op = script.op /\ last'.num = num
    BY <1>6, <2>1 DEF Finishes, NoScript
  <2>3. Guarded'
    <3>1. ASSUME Connected, guarded'
          PROVE  WillBeSaved
      <4>1. CASE script.op = "backup"
        <5>1. script.pc = "last"
          BY <1>6, <4>1 DEF Finishes
        <5>. QED
          BY <1>0, <3>1, <4>1, <5>1 DEF Guarded
      <4>2. CASE script.op # "backup"
        <5>1. guarded
          BY <1>6, <3>1, <4>2 DEF Finishes
        <5>. QED
          BY <1>0, <3>1, <4>2, <5>1 DEF Guarded
      <4>. QED
        BY <4>1, <4>2
    <3>. QED
      BY <1>1, <1>3, <2>2, <3>1 DEF Guarded, Connected
  <2>4. OriginKnown' /\ Restoring'
    BY <2>2 DEF OriginKnown, Restoring
  <2>5. Restored'
    <3>1. ASSUME script.op = "restore", num \notin NoAnswer
          PROVE  Orig
      <4>1. num = call.num
        BY <2>1, <3>1
      <4>2. CASE script.pc = "origin"
        <5>1. call.num # SUCCESS
          BY <1>6, <3>1, <4>2 DEF Finishes
        <5>. QED
          BY <1>0, <1>1, <3>1, <4>1, <4>2, <5>1 DEF OriginKnown, NoAnswer
      <4>3. CASE script.pc = "restored"
        BY <1>0, <1>1, <3>1, <4>1, <4>3 DEF Restoring
      <4>. QED
        BY <1>5, <3>1, <4>2, <4>3
    <3>. QED
      BY <1>2, <2>2, <3>1 DEF Restored
  <2>. QED
    BY <1>4, <2>3, <2>4, <2>5 DEF Safe
<1>7. CASE Arrives
  <2>1. /\ script'.op = script.op /\ script'.pc = "copied" /\ script.pc \in {"first", "more"}
        /\ UNCHANGED <<guarded, last>>
    BY <1>5, <1>7 DEF Arrives, Copying, Scripts
  <2>2. Guarded'
    BY <1>0, <1>1, <1>3, <2>1 DEF Guarded, Connected
  <2>3. OriginKnown' /\ Restoring'
    BY <2>1 DEF OriginKnown, Restoring
  <2>4. Restored'
    BY <1>0, <1>2, <2>1 DEF Restored
  <2>. QED
    BY <1>4, <2>2, <2>3, <2>4 DEF Safe
<1>. QED
  BY <1>6, <1>7

(* A call times out, a run ends.                                           *)
LEMMA SafeLeaves ==
  ASSUME CallsKept, Safe, TimesOut \/ Quits
  PROVE  Safe'
<1>0. /\ CallTypes /\ ScriptTypes /\ Settled
      /\ JobKept /\ RestoreFirst /\ BackupNext /\ WritesLast
      /\ Guarded /\ OriginKnown /\ Restoring /\ Restored
  BY DEF CallsKept, Safe
<1>1. Forsakes /\ UNCHANGED <<disk, original>>
  BY DEF TimesOut, Quits
<1>2. (Saved' <=> Saved) /\ (Orig' <=> Orig)
  BY <1>1 DEF Saved, Orig
<1>3. /\ Len(rpcs') = Len(rpcs) /\ Len(rpcs) \in Nat
      /\ \A i \in 1..Len(rpcs) : rpcs'[i].rpc = rpcs[i].rpc
      /\ rpcs = <<>> => rpcs' = <<>>
  BY <1>0, <1>1, AfterForsakes
<1>4. /\ job'.rpc = job.rpc /\ (job = NoJob => job' = NoJob)
      /\ job.rpc \in Streaming =>
           job'.step = job.step /\ job'.to = job.to /\ job'.data = job.data
  BY <1>0, <1>1, ForsakenJob DEF CallTypes, Forsakes
<1>5. /\ Holds("file_backup")' <=> Holds("file_backup")
      /\ Holds("file_restore")' <=> Holds("file_restore")
  BY <1>3 DEF Holds
<1>6. WillBeSaved' <=> WillBeSaved
  BY <1>2, <1>4, <1>5 DEF WillBeSaved
<1>7. JobKept'
  BY <1>0, <1>1, <1>2, <1>4 DEF JobKept, Streaming
<1>8. RestoreFirst'
  BY <1>0, <1>2, <1>3, <1>4 DEF RestoreFirst
<1>9. BackupNext'
  <2>1. ASSUME NEW i \in 1..Len(rpcs), rpcs[i].rpc = "file_backup"
        PROVE  \/ i = 1 /\ (job'.rpc = "file_restore" \/ (job' = NoJob /\ Orig'))
               \/ i = 2 /\ rpcs'[1].rpc = "file_restore"
    <3>1. i = 2 => 1 \in 1..Len(rpcs)
      BY <1>3
    <3>. QED
      BY <1>0, <1>2, <1>3, <1>4, <2>1, <3>1 DEF BackupNext
  <2>. QED
    BY <1>3, <2>1 DEF BackupNext
<1>10. WritesLast'
  BY <1>0, <1>3, <1>6 DEF WritesLast
<1>11. CASE TimesOut
  <2>1. /\ UNCHANGED <<client, script, guarded, last>>
        /\ call'.state = "answered" /\ call'.num = TIMEOUT_EXPIRED
    BY <1>11 DEF TimesOut
  <2>2. TIMEOUT_EXPIRED \in NoAnswer /\ TIMEOUT_EXPIRED \notin {SUCCESS, FAILED, NO_CONNECTION}
    BY DEF TIMEOUT_EXPIRED, NoAnswer, SUCCESS, FAILED, NO_CONNECTION
  <2>3. Guarded' /\ OriginKnown' /\ Restored'
    BY <1>0, <1>2, <1>6, <2>1, <2>2 DEF Guarded, OriginKnown, Restored, Connected
  <2>4. Restoring'
    BY <1>0, <1>2, <1>3, <1>4, <1>5, <2>1, <2>2 DEF Restoring, Connected, Still
  <2>. QED
    BY <1>7, <1>8, <1>9, <1>10, <2>3, <2>4 DEF Safe
<1>12. CASE Quits
  <2>1. client' = "none" /\ script'.pc = "idle" /\ last'.op = "none"
    BY <1>12 DEF Quits, NoScript, NoLast
  <2>2. Guarded' /\ OriginKnown' /\ Restoring' /\ Restored'
    BY <2>1 DEF Guarded, OriginKnown, Restoring, Restored, Connected
  <2>. QED
    BY <1>7, <1>8, <1>9, <1>10, <2>2 DEF Safe
<1>. QED
  BY <1>11, <1>12

(* The worker takes a call: what is behind it.                             *)
LEMMA Behind ==
  ASSUME CallsKept, Safe, Takes
  PROVE  /\ \A i \in 1..Len(rpcs') : rpcs'[i].rpc # "file_restore"
         /\ \A i \in 1..Len(rpcs') : rpcs'[i].rpc = "file_backup" =>
              i = 1 /\ Taken.rpc = "file_restore"
         /\ Taken.rpc = "file_restore" => Saved
         /\ Taken.rpc = "file_backup" => Orig
         /\ Saved \/ Orig
         /\ WillBeSaved /\ Taken.rpc \notin {"file_backup", "file_restore"} => Saved
         /\ WillBeSaved /\ Taken.rpc = "file_restore" => Holds("file_backup")'
         /\ script.pc = "restored" /\ Connected => Taken.rpc = "file_restore" /\ rpcs' = <<>>
         /\ \A i \in 1..Len(rpcs') : rpcs'[i].rpc \in Writes => WillBeSaved
         /\ Taken.rpc \in Writes => WillBeSaved
         /\ ~Still
<1>0. /\ CallTypes /\ JobKept /\ RestoreFirst /\ BackupNext /\ WritesLast /\ Restoring
  BY DEF CallsKept, Safe
<1>1. /\ Taken = rpcs[1] /\ 1 \in 1..Len(rpcs) /\ Len(rpcs) \in Nat
      /\ job = NoJob /\ job.rpc = "none" /\ rpcs # <<>>
      /\ Len(rpcs') = Len(rpcs) - 1 /\ (Len(rpcs) = 1 => rpcs' = <<>>)
      /\ \A i \in 1..Len(rpcs') :
           i \in Nat /\ i >= 1 /\ i + 1 \in 1..Len(rpcs) /\ rpcs'[i] = rpcs[i + 1]
  BY <1>0, AfterTakes
<1>2. ASSUME NEW i \in 1..Len(rpcs')
      PROVE  /\ rpcs'[i].rpc # "file_restore"
             /\ rpcs'[i].rpc = "file_backup" => i = 1 /\ Taken.rpc = "file_restore"
             /\ rpcs'[i].rpc \in Writes => WillBeSaved
  <2>1. i \in Nat /\ i >= 1 /\ i + 1 \in 1..Len(rpcs) /\ rpcs'[i] = rpcs[i + 1]
    BY <1>1
  <2>2. rpcs[i + 1].rpc = "file_restore" => i + 1 = 1
    BY <1>0, <2>1 DEF RestoreFirst
  <2>3. rpcs[i + 1].rpc = "file_backup" =>
          i + 1 = 1 \/ (i + 1 = 2 /\ rpcs[1].rpc = "file_restore")
    BY <1>0, <2>1 DEF BackupNext
  <2>4. rpcs[i + 1].rpc \in Writes => WillBeSaved
    BY <1>0, <2>1 DEF WritesLast
  <2>. QED
    BY <1>1, <2>1, <2>2, <2>3, <2>4
<1>3. /\ Taken.rpc = "file_restore" => Saved
      /\ Taken.rpc = "file_backup" => Orig
      /\ Taken.rpc \in Writes => WillBeSaved
  BY <1>0, <1>1 DEF RestoreFirst, BackupNext, WritesLast
<1>4. Saved \/ Orig
  BY <1>0, <1>1 DEF JobKept, Streaming
<1>5. ASSUME WillBeSaved
      PROVE  /\ Taken.rpc \notin {"file_backup", "file_restore"} => Saved
             /\ Taken.rpc = "file_restore" => Holds("file_backup")'
  <2>1. CASE Holds("file_backup")
    <3>1. PICK i \in 1..Len(rpcs) : rpcs[i].rpc = "file_backup"
      BY <2>1 DEF Holds
    <3>2. i = 1 \/ (i = 2 /\ rpcs[1].rpc = "file_restore")
      BY <1>0, <3>1 DEF BackupNext
    <3>3. i = 2 => 1 \in 1..Len(rpcs') /\ rpcs'[1].rpc = "file_backup"
      BY <1>1, <3>1
    <3>. QED
      BY <1>1, <3>1, <3>2, <3>3 DEF Holds
  <2>2. CASE Saved /\ ~Holds("file_restore")
    BY <1>1, <2>2 DEF Holds
  <2>. QED
    BY <1>1, <1>5, <2>1, <2>2 DEF WillBeSaved
<1>6. ASSUME script.pc = "restored", Connected
      PROVE  Taken.rpc = "file_restore" /\ rpcs' = <<>>
  <2>1. Len(rpcs) = 1 /\ Holds("file_restore")
    BY <1>0, <1>1, <1>6 DEF Restoring, Still
  <2>. QED
    BY <1>1, <2>1 DEF Holds
<1>7. ~Still
  BY <1>1 DEF Still
<1>. QED
  BY <1>2, <1>3, <1>4, <1>5, <1>6, <1>7

LEMMA SafeTaken ==
  ASSUME CallsKept, Safe, Takes, UNCHANGED scriptSide, JobKept',
         WillBeSaved => WillBeSaved',
         (job'.rpc = "file_restore") <=> (Taken.rpc = "file_restore"),
         \/ UNCHANGED call
         \/ /\ Taken.waiting /\ call'.state = "answered" /\ Taken.rpc # "file_restore"
            /\ Taken.rpc = "file_exists" =>
                 UNCHANGED disk /\ call'.num = CodeOf(disk[Taken.arg.file] # Absent)
  PROVE  Safe'
<1>0. /\ CallTypes /\ Awaited /\ Asked /\ Settled /\ ScriptTypes
      /\ Guarded /\ OriginKnown /\ Restoring /\ Restored
  BY DEF CallsKept, Safe
<1>1. UNCHANGED <<client, script, guarded, last, original>>
  BY DEF scriptSide
<1>2. SUCCESS \notin NoAnswer /\ FAILED \notin NoAnswer
  BY DEF SUCCESS, FAILED, NoAnswer, TIMEOUT_EXPIRED, NO_CONNECTION
<1>3. Taken = rpcs[1] /\ 1 \in 1..Len(rpcs) /\ Taken \in FileRequest
  BY <1>0, AfterTakes
<1>4. ASSUME Taken.waiting
      PROVE  ExpectedAt(script, Taken.rpc)
  <2>1. Taken.rpc \in Rpcs
    BY <1>3, Requests
  <2>. QED
    BY <1>0, <1>3, <1>4, <2>1 DEF Awaited, Expected
<1>5. RestoreFirst'
  BY Behind DEF RestoreFirst
<1>6. BackupNext'
  BY Behind DEF BackupNext
<1>7. WritesLast'
  BY Behind DEF WritesLast
<1>8. Guarded'
  BY <1>0, <1>1 DEF Guarded, Connected
<1>9. OriginKnown'
  <2>1. CASE UNCHANGED call
    <3>1. script.pc = "origin" /\ call.state = "answered" => call.num \in NoAnswer
      BY <1>0, Behind DEF Settled
    <3>. QED
      BY <1>0, <1>1, <1>2, <2>1, <3>1 DEF OriginKnown, Connected
  <2>2. CASE /\ Taken.waiting /\ call'.state = "answered"
             /\ Taken.rpc = "file_exists" =>
                  UNCHANGED disk /\ call'.num = CodeOf(disk[Taken.arg.file] # Absent)
    <3>1. ASSUME script.pc = "origin"
          PROVE  /\ call'.num = SUCCESS => Saved'
                 /\ call'.num = FAILED => Orig'
                 /\ call'.num \in {SUCCESS, FAILED}
      <4>1. script.op \in {"backup", "restore"}
        BY <1>0, <3>1 DEF ScriptTypes, Placed
      <4>2. Taken.rpc = "file_exists"
        BY <1>4, <2>2, <3>1, <4>1 DEF ExpectedAt
      <4>3. Taken.arg.file = Bak
        BY <1>0, <1>3, <2>2, <3>1 DEF Asked
      <4>4. UNCHANGED disk /\ call'.num = CodeOf(disk[Bak] # Absent)
        BY <2>2, <4>2, <4>3
      <4>5. (Saved' <=> Saved) /\ (Orig' <=> Orig)
        BY <1>1, <4>4 DEF Saved, Orig
      <4>6. CASE disk[Bak] = Absent
        BY <4>4, <4>5, <4>6, Behind DEF CodeOf, Saved, SUCCESS, FAILED
      <4>7. CASE disk[Bak] # Absent
        BY <4>4, <4>5, <4>7, Behind DEF CodeOf, Orig, SUCCESS, FAILED
      <4>. QED
        BY <4>6, <4>7
    <3>2. NO_CONNECTION \notin {SUCCESS, FAILED}
      BY DEF NO_CONNECTION, SUCCESS, FAILED
    <3>. QED
      BY <1>1, <3>1, <3>2 DEF OriginKnown
  <2>. QED
    BY <2>1, <2>2
<1>10. Restoring'
  <2>1. script.pc = "restored" /\ Connected => job'.rpc = "file_restore" /\ rpcs' = <<>>
    BY Behind
  <2>2. CASE UNCHANGED call
    <3>1. call.state = "answered" => call.num \in NoAnswer
      BY <1>0, Behind DEF Settled
    <3>. QED
      BY <1>1, <2>1, <2>2, <3>1 DEF Restoring, Connected
  <2>3. CASE Taken.waiting /\ Taken.rpc # "file_restore"
    <3>1. ASSUME script.pc = "restored"
          PROVE  FALSE
      <4>1. script.op \in {"backup", "restore"}
        BY <1>0, <3>1 DEF ScriptTypes, Placed
      <4>. QED
        BY <1>4, <2>3, <3>1, <4>1 DEF ExpectedAt
    <3>. QED
      BY <1>1, <3>1 DEF Restoring
  <2>. QED
    BY <2>2, <2>3
<1>11. Restored'
  <2>1. last.op = "restore" => last.num \in NoAnswer
    BY <1>0, Behind DEF Settled
  <2>. QED
    BY <1>1, <2>1 DEF Restored
<1>. QED
  BY <1>5, <1>6, <1>7, <1>8, <1>9, <1>10, <1>11 DEF Safe

(* The worker answers at once.                                             *)
LEMMA SafeAnswers ==
  ASSUME CallsKept, Safe, NEW num \in {SUCCESS, FAILED}, Answers(num)
  PROVE  Safe'
<1>1. /\ Takes /\ UNCHANGED scriptSide /\ job' = NoJob /\ UNCHANGED original
      /\ Taken.rpc \notin Streaming /\ Respond(Taken, num, <<>>)
      /\ Taken.rpc = "file_exists" => num = CodeOf(disk[Taken.arg.file] # Absent)
      /\ \/ UNCHANGED disk
         \/ Taken.rpc = "file_delete" /\ disk' = [disk EXCEPT ![Cfg] = Absent]
  BY DEF Answers, Respond, scriptSide
<1>2. CallTypes /\ DiskTypes /\ WritesLast /\ job'.rpc = "none"
  BY <1>1 DEF CallsKept, Safe, NoJob
<1>3. Taken.rpc \notin {"file_backup", "file_restore"}
  BY <1>1 DEF Streaming
<1>4. Saved => Saved'
  <2>1. disk'[Bak] = disk[Bak]
    BY <1>1, <1>2, FileNames DEF DiskTypes
  <2>. QED
    BY <1>1, <2>1 DEF Saved
<1>5. Saved' \/ Orig'
  <2>1. CASE UNCHANGED disk
    BY <1>1, <2>1, Behind DEF Saved, Orig
  <2>2. CASE Taken.rpc = "file_delete"
    <3>1. Saved
      BY <1>1, <1>3, <2>2, Behind DEF Writes
    <3>. QED
      BY <1>4, <3>1
  <2>. QED
    BY <1>1, <2>1, <2>2
<1>6. JobKept'
  BY <1>2, <1>5 DEF JobKept
<1>7. WillBeSaved => WillBeSaved'
  <2>1. WillBeSaved => Saved
    BY <1>1, <1>3, Behind
  <2>2. ~Holds("file_restore")'
    BY <1>1, Behind DEF Holds
  <2>. QED
    BY <1>2, <1>4, <2>1, <2>2 DEF WillBeSaved
<1>8. \/ UNCHANGED call
      \/ Taken.waiting /\ call'.state = "answered" /\ call'.num = num
  BY <1>1 DEF Respond, Answered
<1>9. Taken.rpc = "file_exists" => UNCHANGED disk
  BY <1>1
<1>. QED
  BY <1>1, <1>2, <1>3, <1>6, <1>7, <1>8, <1>9, SafeTaken

(* The worker begins a call.                                               *)
LEMMA SafeStarts ==
  ASSUME CallsKept, Safe, ~Lost',
         \/ BackupStarts \/ RestoreStarts \/ UpdateStarts
         \/ PieceStarts \/ FolderStarts \/ CommandStarts
  PROVE  Safe'
<1>1. /\ Takes /\ UNCHANGED <<scriptSide, call, original>> /\ job'.rpc = Taken.rpc
      /\ seen \subseteq seen' /\ DiskTypes
  BY DEF BackupStarts, RestoreStarts, UpdateStarts, PieceStarts, FolderStarts, CommandStarts,
         Starts, scriptSide, CallsKept
<1>2. ~Holds("file_restore")'
  BY <1>1, Behind DEF Holds
<1>3. ASSUME JobKept', WillBeSaved => WillBeSaved'
      PROVE  Safe'
  BY <1>1, <1>3, SafeTaken
<1>4. CASE BackupStarts
  <2>1. /\ job'.rpc = "file_backup" /\ job'.to = Bak /\ job'.step = "close"
        /\ "disk" \in seen' \/ job'.data = Source(Cfg)
        /\ disk[Cfg] = Absent => "missing" \in seen'
        /\ \E c \in Content : disk' = [disk EXCEPT ![Bak] = c]
        /\ Taken.rpc = "file_backup"
    BY <1>1, <1>4 DEF BackupStarts
  <2>2. "disk" \notin seen' /\ "missing" \notin seen'
    BY DEF Lost
  <2>3. disk[Cfg] = original
    BY <1>1, <2>1, Behind DEF Orig
  <2>4. original # Absent /\ job'.data = original
    BY <2>1, <2>2, <2>3 DEF Source
  <2>5. disk'[Cfg] = disk[Cfg]
    BY <1>1, <2>1, FileNames DEF DiskTypes
  <2>6. JobKept'
    BY <1>1, <2>1, <2>3, <2>4, <2>5 DEF JobKept, Streaming
  <2>7. WillBeSaved'
    BY <2>1 DEF WillBeSaved
  <2>. QED
    BY <1>3, <2>6, <2>7
<1>5. CASE RestoreStarts
  <2>1. /\ job'.rpc = "file_restore" /\ job'.to = Cfg /\ job'.step = "delete"
        /\ "disk" \in seen' \/ job'.data = Source(Bak)
        /\ \E c \in Content : disk' = [disk EXCEPT ![Cfg] = c]
        /\ Taken.rpc = "file_restore"
    BY <1>1, <1>5 DEF RestoreStarts
  <2>2. "disk" \notin seen'
    BY DEF Lost
  <2>3. disk[Bak] = original /\ original # Absent
    BY <1>1, <2>1, Behind DEF Saved
  <2>4. job'.data = original
    BY <2>1, <2>2, <2>3 DEF Source
  <2>5. disk'[Bak] = disk[Bak]
    BY <1>1, <2>1, FileNames DEF DiskTypes
  <2>6. JobKept'
    BY <1>1, <2>1, <2>3, <2>4, <2>5 DEF JobKept, Streaming
  <2>7. WillBeSaved => WillBeSaved'
    BY <1>1, <2>1, Behind DEF WillBeSaved
  <2>. QED
    BY <1>3, <2>6, <2>7
<1>6. CASE UpdateStarts
  <2>1. /\ job'.rpc = "file_update" /\ job'.to = Cfg /\ job'.step = "close"
        /\ \E c \in Content : disk' = [disk EXCEPT ![Cfg] = c]
        /\ Taken.rpc = "file_update"
    BY <1>1, <1>6 DEF UpdateStarts
  <2>2. Saved
    BY <1>1, <2>1, Behind DEF Writes
  <2>3. disk'[Bak] = disk[Bak]
    BY <1>1, <2>1, FileNames DEF DiskTypes
  <2>4. Saved'
    BY <1>1, <2>2, <2>3 DEF Saved
  <2>5. JobKept'
    BY <2>1, <2>4 DEF JobKept, Streaming
  <2>6. WillBeSaved'
    BY <1>2, <2>1, <2>4 DEF WillBeSaved
  <2>. QED
    BY <1>3, <2>5, <2>6
<1>7. CASE PieceStarts \/ FolderStarts \/ CommandStarts
  <2>1. UNCHANGED disk /\ Taken.rpc \notin {"file_backup", "file_restore"}
        /\ job'.rpc \notin Streaming /\ job'.rpc \notin {"file_backup", "file_restore", "file_update"}
    BY <1>1, <1>7 DEF PieceStarts, FolderStarts, CommandStarts, Streaming
  <2>2. (Saved' <=> Saved) /\ (Orig' <=> Orig)
    BY <1>1, <2>1 DEF Saved, Orig
  <2>3. Saved \/ Orig
    BY <1>1, Behind
  <2>4. JobKept'
    BY <2>1, <2>2, <2>3 DEF JobKept
  <2>5. WillBeSaved => WillBeSaved'
    BY <1>1, <1>2, <2>1, <2>2, Behind DEF WillBeSaved
  <2>. QED
    BY <1>3, <2>4, <2>5
<1>. QED
  BY <1>4, <1>5, <1>6, <1>7

(* While the worker is in a call, the calls behind it.                     *)
LEMMA Working ==
  ASSUME CallsKept, Safe, job.rpc # "none"
  PROVE  /\ job # NoJob /\ ~Still
         /\ \A i \in 1..Len(rpcs) : rpcs[i].rpc # "file_restore"
         /\ \A i \in 1..Len(rpcs) : rpcs[i].rpc = "file_backup" =>
              i = 1 /\ job.rpc = "file_restore"
         /\ WillBeSaved => Holds("file_backup") \/ job.rpc = "file_backup"
                           \/ (job.rpc # "file_restore" /\ Saved)
         /\ ~Holds("file_restore")
         /\ script.pc = "restored" /\ Connected => job.rpc = "file_restore" /\ rpcs = <<>>
         /\ call.state = "answered" => call.num \in NoAnswer
         /\ last.op = "restore" => last.num \in NoAnswer
<1>0. RestoreFirst /\ BackupNext /\ Restoring /\ Settled /\ CallTypes
  BY DEF CallsKept, Safe
<1>1. job # NoJob
  BY DEF NoJob
<1>2. \A i \in 1..Len(rpcs) : rpcs[i].rpc # "file_restore"
  BY <1>0, <1>1 DEF RestoreFirst
<1>3. ASSUME NEW i \in 1..Len(rpcs), rpcs[i].rpc = "file_backup"
      PROVE  i = 1 /\ job.rpc = "file_restore"
  <2>1. i = 2 => 1 \in 1..Len(rpcs)
    BY <1>0 DEF CallTypes
  <2>. QED
    BY <1>0, <1>1, <1>2, <1>3, <2>1 DEF BackupNext
<1>4. script.pc = "restored" /\ Connected => job.rpc = "file_restore" /\ rpcs = <<>>
  BY <1>0, <1>1 DEF Restoring, Still
<1>5. ~Still
  BY <1>1 DEF Still
<1>6. /\ call.state = "answered" => call.num \in NoAnswer
      /\ last.op = "restore" => last.num \in NoAnswer
  BY <1>0, <1>5 DEF Settled
<1>. QED
  BY <1>1, <1>2, <1>3, <1>4, <1>5, <1>6 DEF WillBeSaved, Holds

(* The worker goes on.                                                     *)
LEMMA SafeWorks ==
  ASSUME CallsKept, Safe, Deletes \/ Reads \/ Walked
  PROVE  Safe'
<1>0. /\ JobKept /\ RestoreFirst /\ BackupNext /\ WritesLast /\ DiskTypes
      /\ Guarded /\ OriginKnown /\ Restoring /\ Restored
  BY DEF CallsKept, Safe
<1>1. /\ job.rpc # "none" /\ job'.rpc = job.rpc
      /\ UNCHANGED <<client, script, guarded, last, original, call, rpcs>>
  BY DEF Deletes, Reads, Walked, Works, scriptSide
<1>2. SUCCESS \notin NoAnswer /\ FAILED \notin NoAnswer
  BY DEF SUCCESS, FAILED, NoAnswer, TIMEOUT_EXPIRED, NO_CONNECTION
<1>3. JobKept' /\ (job.rpc # "file_restore" => (Saved' <=> Saved))
  <2>1. CASE Deletes
    <3>1. /\ job.rpc = "file_restore" /\ job.step = "delete" /\ job'.step = "close"
          /\ job'.data = job.data /\ job'.to = job.to
          /\ disk' = [disk EXCEPT ![Bak] = Absent]
      BY <2>1 DEF Deletes
    <3>2. disk'[Bak] = Absent
      BY <1>0, <3>1, FileNames DEF DiskTypes
    <3>. QED
      BY <1>0, <1>1, <3>1, <3>2 DEF JobKept, Streaming
  <2>2. CASE Reads \/ Walked
    <3>1. UNCHANGED disk /\ job.rpc \in {"file_content", "folder_delete"}
      BY <2>2 DEF Reads, Walked
    <3>2. (Saved' <=> Saved) /\ (Orig' <=> Orig)
      BY <1>1, <3>1 DEF Saved, Orig
    <3>. QED
      BY <1>0, <1>1, <3>1, <3>2 DEF JobKept, Streaming
  <2>. QED
    BY <2>1, <2>2
<1>4. WillBeSaved => WillBeSaved'
  BY <1>1, <1>3, Working DEF WillBeSaved, Holds
<1>5. RestoreFirst' /\ BackupNext' /\ WritesLast'
  BY <1>0, <1>1, <1>4, Working DEF RestoreFirst, BackupNext, WritesLast
<1>6. Guarded'
  BY <1>0, <1>1, <1>4 DEF Guarded, Connected
<1>7. OriginKnown'
  BY <1>0, <1>1, <1>2, Working DEF OriginKnown, Connected
<1>8. Restoring'
  BY <1>1, Working DEF Restoring, Connected
<1>9. Restored'
  BY <1>1, Working DEF Restored
<1>. QED
  BY <1>3, <1>5, <1>6, <1>7, <1>8, <1>9 DEF Safe

(* The worker answers.                                                     *)
LEMMA SafeResponds ==
  ASSUME CallsKept, Safe, ~Lost',
         \/ \E num \in {SUCCESS, FAILED} : Closes(num) \/ WalkEnds(num) \/ Done(num)
         \/ ReadEnds
  PROVE  Safe'
<1>0. /\ JobKept /\ RestoreFirst /\ BackupNext /\ WritesLast /\ DiskTypes /\ CallTypes
      /\ Guarded /\ OriginKnown /\ Restoring /\ Restored /\ Awaited /\ ScriptTypes
  BY DEF CallsKept, Safe
<1>1. /\ job.rpc # "none" /\ job' = NoJob
      /\ UNCHANGED <<client, script, guarded, last, original, rpcs>>
      /\ UNCHANGED call \/ job.waiting
  BY DEF Closes, WalkEnds, Done, ReadEnds, Responds, Respond, scriptSide
<1>2. job'.rpc = "none"
  BY <1>1 DEF NoJob
<1>3. SUCCESS \notin NoAnswer /\ FAILED \notin NoAnswer
  BY DEF SUCCESS, FAILED, NoAnswer, TIMEOUT_EXPIRED, NO_CONNECTION
<1>4. /\ job.rpc = "file_restore" => Orig'
      /\ job.rpc = "file_backup" => Saved'
      /\ job.rpc # "file_restore" /\ Saved => Saved'
      /\ Saved' \/ Orig'
  <2>1. CASE \E num \in {SUCCESS, FAILED} : Closes(num)
    <3>1. /\ job.rpc \in Streaming /\ job.step = "close"
          /\ disk' = [disk EXCEPT ![job.to] = job.data]
      BY <2>1 DEF Closes, Lost
    <3>2. CASE job.rpc = "file_backup"
      <4>1. disk'[Bak] = original /\ original # Absent
        BY <1>0, <3>1, <3>2, FileNames DEF JobKept, DiskTypes
      <4>. QED
        BY <1>1, <3>2, <4>1 DEF Saved
    <3>3. CASE job.rpc = "file_restore"
      <4>1. disk'[Cfg] = original /\ disk'[Bak] = Absent
        BY <1>0, <3>1, <3>3, FileNames DEF JobKept, DiskTypes
      <4>. QED
        BY <1>1, <3>3, <4>1 DEF Orig
    <3>4. CASE job.rpc = "file_update"
      <4>1. disk'[Bak] = disk[Bak] /\ Saved
        BY <1>0, <3>1, <3>4, FileNames DEF JobKept, DiskTypes
      <4>. QED
        BY <1>1, <3>4, <4>1 DEF Saved
    <3>. QED
      BY <3>1, <3>2, <3>3, <3>4 DEF Streaming
  <2>2. CASE ReadEnds \/ \E num \in {SUCCESS, FAILED} : WalkEnds(num) \/ Done(num)
    <3>1. UNCHANGED disk /\ job.rpc \in {"file_content", "folder_delete", "command_execute"}
      BY <2>2 DEF ReadEnds, WalkEnds, Done
    <3>2. (Saved' <=> Saved) /\ (Orig' <=> Orig)
      BY <1>1, <3>1 DEF Saved, Orig
    <3>. QED
      BY <1>0, <3>1, <3>2 DEF JobKept, Streaming
  <2>. QED
    BY <2>1, <2>2
<1>5. JobKept'
  BY <1>2, <1>4 DEF JobKept
<1>6. WillBeSaved => WillBeSaved'
  BY <1>1, <1>2, <1>4, Working DEF WillBeSaved, Holds
<1>7. RestoreFirst' /\ BackupNext' /\ WritesLast'
  BY <1>0, <1>1, <1>4, <1>6, Working DEF RestoreFirst, BackupNext, WritesLast
<1>8. Guarded'
  BY <1>0, <1>1, <1>6 DEF Guarded, Connected
<1>9. ASSUME job.waiting
      PROVE  ExpectedAt(script, job.rpc)
  <2>1. job.rpc \in Rpcs
    <3>1. job \in Jobs
      BY <1>0 DEF CallTypes
    <3>2. job.rpc \in Streaming \cup {"file_content", "folder_delete", "command_execute"}
      BY <1>1, <3>1, Shapes
    <3>. QED
      BY <3>2 DEF Rpcs, Streaming, FileCalls, FolderCalls
  <2>. QED
    BY <1>0, <1>9, <2>1 DEF Awaited, Expected
<1>10. script.pc \in {"origin", "restored"} => script.op \in {"backup", "restore"}
  BY <1>0 DEF ScriptTypes, Placed
<1>11. OriginKnown'
  <2>1. CASE UNCHANGED call
    BY <1>0, <1>1, <1>3, <2>1, Working DEF OriginKnown, Connected
  <2>2. CASE job.waiting
    <3>1. job.rpc # "file_exists"
      BY <1>0, Shapes DEF CallTypes, Streaming
    <3>2. script.pc # "origin"
      BY <1>9, <1>10, <2>2, <3>1 DEF ExpectedAt
    <3>. QED
      BY <1>1, <3>2 DEF OriginKnown
  <2>. QED
    BY <1>1, <2>1, <2>2
<1>12. Restoring'
  <2>1. ASSUME script.pc = "restored", Connected
        PROVE  Still' /\ Orig'
    BY <1>1, <1>4, <2>1, Working DEF Still
  <2>2. ASSUME script.pc = "restored", job.waiting
        PROVE  Orig'
    <3>1. job.rpc = "file_restore"
      BY <1>9, <1>10, <2>2 DEF ExpectedAt
    <3>. QED
      BY <1>4, <3>1
  <2>. QED
    BY <1>1, <2>1, <2>2, Working DEF Restoring, Connected
<1>13. Restored'
  BY <1>1, Working DEF Restored
<1>. QED
  BY <1>5, <1>7, <1>8, <1>11, <1>12, <1>13 DEF Safe

(* The server dies, or something happens beside the calls.                 *)
LEMMA SafeBeside ==
  ASSUME CallsKept, Safe, ~Lost', Loses \/ Beside
  PROVE  Safe'
<1>0. /\ JobKept /\ RestoreFirst /\ BackupNext /\ WritesLast /\ DiskTypes /\ CallTypes
      /\ Guarded /\ OriginKnown /\ Restoring /\ Restored
  BY DEF CallsKept, Safe
<1>1. /\ UNCHANGED <<call, script, guarded, last, original>>
      /\ disk'[Cfg] = disk[Cfg] /\ disk'[Bak] = disk[Bak]
  BY <1>0, FileNames DEF Loses, Beside, DiskTypes
<1>2. (Saved' <=> Saved) /\ (Orig' <=> Orig)
  BY <1>1 DEF Saved, Orig
<1>3. CASE Loses
  <2>1. /\ rpcs' = <<>> /\ job' = NoJob /\ ~Connected'
        /\ job.rpc \notin {"file_backup", "file_restore"}
    BY <1>3 DEF Loses, Lost, Connected
  <2>2. \A i \in 1..Len(rpcs') : FALSE
    BY <2>1, Contents
  <2>3. job'.rpc = "none"
    BY <2>1 DEF NoJob
  <2>4. JobKept'
    BY <1>0, <1>2, <2>1, <2>3 DEF JobKept, Streaming
  <2>5. RestoreFirst' /\ BackupNext' /\ WritesLast'
    BY <2>2 DEF RestoreFirst, BackupNext, WritesLast
  <2>6. Guarded' /\ OriginKnown' /\ Restoring' /\ Restored'
    BY <1>0, <1>1, <1>2, <2>1 DEF Guarded, OriginKnown, Restoring, Restored
  <2>. QED
    BY <2>4, <2>5, <2>6 DEF Safe
<1>4. CASE Beside
  <2>1. UNCHANGED <<client, rpcs, job>>
    BY <1>4 DEF Beside
  <2>2. WillBeSaved' <=> WillBeSaved
    BY <1>2, <2>1 DEF WillBeSaved, Holds
  <2>3. JobKept'
    BY <1>0, <1>1, <1>2, <2>1 DEF JobKept
  <2>4. RestoreFirst' /\ BackupNext' /\ WritesLast'
    BY <1>0, <1>2, <2>1, <2>2 DEF RestoreFirst, BackupNext, WritesLast
  <2>5. Guarded' /\ OriginKnown' /\ Restored'
    BY <1>0, <1>1, <1>2, <2>1, <2>2 DEF Guarded, OriginKnown, Restored, Connected
  <2>6. Restoring'
    BY <1>0, <1>1, <1>2, <2>1 DEF Restoring, Connected, Still, Holds
  <2>. QED
    BY <2>3, <2>4, <2>5, <2>6 DEF Safe
<1>. QED
  BY <1>3, <1>4

(* What was seen stays seen.                                               *)
LEMMA SeenGrows ==
  ASSUME Step
  PROVE  seen \subseteq seen'
<1>1. ASSUME NEW r \in FileRequest, Makes(r)
      PROVE  seen \subseteq seen'
  BY <1>1 DEF Makes, Guards
<1>2. CASE Finishes \/ Arrives \/ TimesOut \/ Quits \/ Loses \/ Beside
  BY <1>2 DEF Finishes, Arrives, TimesOut, Quits, Loses, Beside
<1>3. CASE \/ BackupStarts \/ RestoreStarts \/ UpdateStarts
           \/ PieceStarts \/ FolderStarts \/ CommandStarts
  BY <1>3 DEF BackupStarts, RestoreStarts, UpdateStarts, PieceStarts, FolderStarts,
              CommandStarts, Starts
<1>4. CASE Deletes \/ Reads \/ Walked
  BY <1>4 DEF Deletes, Reads, Walked, Works
<1>5. ASSUME NEW num \in {SUCCESS, FAILED},
             Answers(num) \/ Closes(num) \/ WalkEnds(num) \/ Done(num)
      PROVE  seen \subseteq seen'
  BY <1>5 DEF Answers, Closes, WalkEnds, Done
<1>6. CASE ReadEnds
  BY <1>6 DEF ReadEnds
<1>. QED
  BY <1>1, <1>2, <1>3, <1>4, <1>5, <1>6 DEF Step

(* The original is kept.                                                   *)
LEMMA KeptStep ==
  ASSUME CallsKept, Kept, Step
  PROVE  Kept'
<1>. SUFFICES ASSUME ~Lost'
              PROVE  Safe'
  BY DEF Kept
<1>1. Safe
  BY SeenGrows DEF Kept, Lost
<1>. QED
  BY <1>1, SafeMakes, SafeFinishes, SafeLeaves, SafeAnswers, SafeStarts, SafeWorks,
     SafeResponds, SafeBeside DEF Step


-----------------------------------------------------------------------------
(* The files.                                                              *)

(* A file gets a content, or is deleted; the log always is there.          *)
LEMMA FilesKept ==
  ASSUME DiskTypes,
         \/ UNCHANGED disk
         \/ \E f \in {Cfg, Bak}, c \in {Absent} \cup Content : disk' = [disk EXCEPT ![f] = c]
         \/ \E c \in Content : disk' = [disk EXCEPT ![Log] = c]
  PROVE  disk' \in [Names -> {Absent} \cup Content] /\ disk'[Log] \in Content
<1>1. disk \in [Names -> {Absent} \cup Content] /\ disk[Log] \in Content
  BY DEF DiskTypes
<1>2. CASE UNCHANGED disk
  BY <1>1, <1>2
<1>3. ASSUME NEW f \in {Cfg, Bak}, NEW c \in {Absent} \cup Content, disk' = [disk EXCEPT ![f] = c]
      PROVE  disk' \in [Names -> {Absent} \cup Content] /\ disk'[Log] \in Content
  BY <1>1, <1>3, FileNames
<1>4. ASSUME NEW c \in Content, disk' = [disk EXCEPT ![Log] = c]
      PROVE  disk' \in [Names -> {Absent} \cup Content] /\ disk'[Log] \in Content
  BY <1>1, <1>4, FileNames
<1>. QED
  BY <1>2, <1>3, <1>4

LEMMA DiskTypesStep ==
  ASSUME CallTypes, ScriptTypes, AnswerTypes, DiskTypes, Step
  PROVE  DiskTypes'
<1>0. /\ disk \in [Names -> {Absent} \cup Content] /\ disk[Log] \in Content
      /\ first \in Content /\ original \in {Absent} \cup Content /\ tmp \in {Absent} \cup Content
      /\ script.pc \in {"more", "copied"} => tmp \in Content
      /\ job.rpc = "file_content" => disk[job.file] \in Content
      /\ call.text \in Content /\ <<>> \in Content
      /\ job \in Jobs
  BY Contents DEF DiskTypes, AnswerTypes, CallTypes
<1>1. NoJob.rpc = "none" /\ NoScript.pc = "idle"
  BY DEF NoJob, NoScript
<1>2. Copying /\ Gains => tmp' \in Content
  BY <1>0, Contents DEF Copying, Gains
<1>3. ASSUME UNCHANGED disk,
             job'.rpc = "file_content" => job.rpc = "file_content" /\ job'.file = job.file,
             first' \in Content, UNCHANGED original, tmp' \in {Absent} \cup Content,
             script'.pc \in {"more", "copied"} => tmp' \in Content
      PROVE  DiskTypes'
  BY <1>0, <1>3 DEF DiskTypes
<1>4. ASSUME NEW r \in FileRequest, Makes(r)
      PROVE  DiskTypes'
  <2>1. /\ UNCHANGED <<disk, job, original>> /\ script'.pc # "copied"
        /\ script'.pc = "more" => Copying /\ Gains /\ UNCHANGED first
        /\ script'.pc # "more" => tmp' \in {tmp, Absent} /\ first' \in {first, <<>>}
    BY <1>4 DEF Makes, Places, Continues
  <2>2. first' \in Content /\ tmp' \in {Absent} \cup Content
        /\ (script'.pc \in {"more", "copied"} => tmp' \in Content)
    BY <1>0, <1>2, <2>1
  <2>. QED
    BY <1>3, <2>1, <2>2
<1>5. CASE Finishes
  <2>1. /\ UNCHANGED <<disk, job, original, first>> /\ script'.pc = "idle"
        /\ tmp' \in {tmp, Absent}
    BY <1>1, <1>5 DEF Finishes
  <2>. QED
    BY <1>0, <1>3, <2>1
<1>6. CASE Arrives
  <2>1. UNCHANGED <<disk, job, original, first>> /\ tmp' \in Content
    BY <1>2, <1>6 DEF Arrives, callVars
  <2>. QED
    BY <1>0, <1>3, <2>1
<1>7. CASE TimesOut \/ Quits
  <2>1. /\ UNCHANGED <<disk, original, first, tmp>> /\ script' \in {script, NoScript}
        /\ job' = Forsaken(job)
    BY <1>7 DEF TimesOut, Quits, Forsakes
  <2>2. job'.rpc = job.rpc /\ (job.rpc = "file_content" => job'.file = job.file)
    BY <1>0, <2>1, ForsakenJob
  <2>. QED
    BY <1>0, <1>1, <1>3, <2>1, <2>2
<1>8. ASSUME disk' \in [Names -> {Absent} \cup Content], disk'[Log] \in Content,
             job'.rpc # "file_content", UNCHANGED <<first, original, tmp, script>>
      PROVE  DiskTypes'
  BY <1>0, <1>8 DEF DiskTypes
<1>9. ASSUME NEW num \in {SUCCESS, FAILED}, Answers(num)
      PROVE  DiskTypes'
  <2>1. job'.rpc = "none" /\ UNCHANGED <<first, original, tmp, script>>
    BY <1>1, <1>9 DEF Answers, Respond, scriptSide
  <2>2. disk' \in [Names -> {Absent} \cup Content] /\ disk'[Log] \in Content
    BY <1>9, FilesKept DEF Answers
  <2>. QED
    BY <1>8, <2>1, <2>2
<1>10. CASE BackupStarts \/ RestoreStarts \/ UpdateStarts
  <2>1. /\ job'.rpc # "file_content" /\ UNCHANGED <<first, original, tmp, script>>
        /\ \E f \in {Cfg, Bak}, c \in Content : disk' = [disk EXCEPT ![f] = c]
    BY <1>10 DEF BackupStarts, RestoreStarts, UpdateStarts, Starts, scriptSide
  <2>2. disk' \in [Names -> {Absent} \cup Content] /\ disk'[Log] \in Content
    BY <2>1, FilesKept
  <2>. QED
    BY <1>8, <2>1, <2>2
<1>11. CASE PieceStarts
  <2>1. /\ UNCHANGED <<disk, original, tmp, script>> /\ job'.file = Taken.arg.file
        /\ disk[Taken.arg.file] \in Content /\ first' \in {first, disk[Taken.arg.file]}
    BY <1>11 DEF PieceStarts, Starts, scriptSide
  <2>. QED
    BY <1>0, <2>1 DEF DiskTypes
<1>12. CASE FolderStarts \/ CommandStarts
  <2>1. job'.rpc # "file_content" /\ UNCHANGED <<disk, first, original, tmp, script>>
    BY <1>12 DEF FolderStarts, CommandStarts, Starts, scriptSide
  <2>. QED
    BY <1>0, <1>8, <2>1
<1>13. CASE Deletes
  <2>1. /\ job'.rpc # "file_content" /\ UNCHANGED <<first, original, tmp, script>>
        /\ disk' = [disk EXCEPT ![Bak] = Absent]
    BY <1>13 DEF Deletes, Works, scriptSide
  <2>2. disk' \in [Names -> {Absent} \cup Content] /\ disk'[Log] \in Content
    BY <2>1, FilesKept
  <2>. QED
    BY <1>8, <2>1, <2>2
<1>14. CASE Reads \/ Walked
  <2>1. /\ UNCHANGED <<disk, first, original, tmp, script>> /\ job'.rpc = job.rpc
        /\ job.rpc = "file_content" => job'.file = job.file
    BY <1>14 DEF Reads, Walked, Works, scriptSide
  <2>. QED
    BY <1>0, <1>3, <2>1
<1>15. ASSUME NEW num \in {SUCCESS, FAILED}, Closes(num)
       PROVE  DiskTypes'
  <2>1. job'.rpc = "none" /\ UNCHANGED <<first, original, tmp, script>> /\ job.rpc \in Streaming
    BY <1>1, <1>15 DEF Closes, Responds, Respond, scriptSide
  <2>2. job.to \in {Cfg, Bak} /\ job.data \in Content
    BY <1>0, <2>1, Shapes DEF StreamJobs
  <2>3. UNCHANGED disk \/ disk' = [disk EXCEPT ![job.to] = job.data]
    BY <1>15 DEF Closes
  <2>4. disk' \in [Names -> {Absent} \cup Content] /\ disk'[Log] \in Content
    BY <2>2, <2>3, FilesKept
  <2>. QED
    BY <1>8, <2>1, <2>4
<1>16. CASE ReadEnds \/ \E num \in {SUCCESS, FAILED} : WalkEnds(num) \/ Done(num)
  <2>1. job'.rpc = "none" /\ UNCHANGED <<disk, first, original, tmp, script>>
    BY <1>1, <1>16 DEF ReadEnds, WalkEnds, Done, Responds, Respond, scriptSide
  <2>. QED
    BY <1>0, <1>8, <2>1
<1>17. CASE Loses
  <2>1. job'.rpc = "none" /\ UNCHANGED <<disk, first, original, tmp, script>>
    BY <1>1, <1>17 DEF Loses
  <2>. QED
    BY <1>0, <1>8, <2>1
<1>18. CASE Beside
  <2>1. UNCHANGED <<job, first, original, tmp, script>>
    BY <1>18 DEF Beside
  <2>2. disk' = disk \/ \E c \in Content : disk' = [disk EXCEPT ![Log] = c]
    BY <1>0, <1>18, Contents DEF Beside
  <2>3. disk' \in [Names -> {Absent} \cup Content] /\ disk'[Log] \in Content
    BY <2>2, FilesKept
  <2>4. job.rpc = "file_content" => disk'[job.file] \in Content
    <3>1. job.rpc = "file_content" => job.file \in {Cfg, Log}
      BY <1>0, Shapes DEF ContentJobs
    <3>. QED
      BY <1>0, <2>2, <2>3, <3>1, FileNames
  <2>. QED
    BY <1>0, <2>1, <2>3, <2>4 DEF DiskTypes
<1>. QED
  BY <1>4, <1>5, <1>6, <1>7, <1>9, <1>10, <1>11, <1>12, <1>13, <1>14, <1>15, <1>16, <1>17, <1>18
     DEF Step

-----------------------------------------------------------------------------
(* Calls without an answer.                                                *)

LEMMA TroublesStep ==
  ASSUME CallTypes, ScriptTypes, Awaited, Troubles, Step
  PROVE  Troubles'
<1>0. /\ client = "lost" \/ ~server => "server" \in seen
      /\ job.rpc = "command_execute" /\ job.slow => "slow" \in seen
      /\ script.pc \in {"origin", "restored"} /\ call.state = "answered" /\ call.num \in NoAnswer
           => Trouble
      /\ last.op = "restore" /\ last.num \in NoAnswer => Trouble
      /\ seen \cap {"unknown", "torn"} # {} => Trouble
      /\ job \in Jobs
  BY DEF Troubles, CallTypes
<1>1. /\ NoJob.rpc = "none" /\ NoScript.pc = "idle" /\ NoCall.state = "idle" /\ NoLast.op = "none"
      /\ SUCCESS \notin NoAnswer /\ FAILED \notin NoAnswer
      /\ TIMEOUT_EXPIRED \in NoAnswer
  BY DEF NoJob, NoScript, NoCall, NoLast, SUCCESS, FAILED, NoAnswer, TIMEOUT_EXPIRED, NO_CONNECTION
<1>2. seen \subseteq seen' /\ (Trouble => Trouble')
  BY SeenGrows DEF Trouble
<1>3. ASSUME NEW r \in FileRequest, Makes(r)
      PROVE  Troubles'
  <2>1. /\ UNCHANGED <<server, job>> /\ last'.op = "none"
        /\ client' = "lost" => client = "lost"
        /\ call'.state = "answered" => client = "lost"
    BY <1>3 DEF Makes, Sends
  <2>2. "server" \in seen => Trouble'
    BY <1>2 DEF Trouble
  <2>3. seen' \cap {"unknown", "torn"} # {} => Trouble'
    <3>1. \/ seen' = seen
          \/ /\ seen' = seen \cup {"unknown"}
             /\ script.pc = "origin" /\ call.state = "answered" /\ call.num = TIMEOUT_EXPIRED
      BY <1>3 DEF Makes, Guards
    <3>. QED
      BY <1>0, <1>1, <1>2, <3>1
  <2>. QED
    BY <1>0, <1>2, <2>1, <2>2, <2>3 DEF Troubles
<1>4. CASE Finishes
  <2>1. PICK num : /\ last' = [op |-> script.op, num |-> num]
                   /\ num = call.num \/ script.op \in {"get", "set"}
    BY <1>4 DEF Finishes
  <2>2. /\ last'.op = script.op /\ last'.num = num
        /\ call.state = "answered" /\ script'.pc = "idle"
        /\ UNCHANGED <<client, server, job, seen>>
    BY <1>1, <1>4, <2>1 DEF Finishes
  <2>3. script.op = "restore" => script.pc \in {"origin", "restored"}
    BY DEF ScriptTypes, Placed
  <2>. QED
    BY <1>0, <1>2, <2>1, <2>2, <2>3 DEF Troubles
<1>5. CASE Arrives
  <2>1. UNCHANGED <<client, server, job, seen, last>> /\ script'.pc = "copied"
    BY <1>5 DEF Arrives, callVars, ScriptTypes, Placed, Scripts
  <2>. QED
    BY <1>0, <1>2, <2>1 DEF Troubles
<1>6. CASE TimesOut
  <2>1. UNCHANGED <<client, server, seen, last>> /\ job' = Forsaken(job)
    BY <1>6 DEF TimesOut, Forsakes
  <2>2. job'.rpc = job.rpc /\ (job.rpc = "command_execute" => job'.slow = job.slow)
    BY <1>0, <2>1, ForsakenJob
  <2>3. Trouble
    BY <1>0, <1>6 DEF TimesOut, Hangs, Trouble
  <2>. QED
    BY <1>0, <1>2, <2>1, <2>2, <2>3 DEF Troubles
<1>7. CASE Quits
  <2>1. /\ client' = "none" /\ UNCHANGED server /\ job' = Forsaken(job)
        /\ last'.op = "none" /\ script'.pc = "idle" /\ seen' \in {seen, seen \cup {"atf"}}
    BY <1>1, <1>7 DEF Quits, Forsakes
  <2>2. job'.rpc = job.rpc /\ (job.rpc = "command_execute" => job'.slow = job.slow)
    BY <1>0, <2>1, ForsakenJob
  <2>. QED
    BY <1>0, <1>2, <2>1, <2>2 DEF Troubles
<1>8. ASSUME UNCHANGED <<client, script, last>>,
             ~server' => ~server,
             job'.rpc # "command_execute" \/ (job'.slow => "slow" \in seen'),
             \/ UNCHANGED call
             \/ call'.num \notin NoAnswer
             \/ script.pc \notin {"origin", "restored"},
             seen' \cap {"unknown", "torn"} \subseteq seen
      PROVE  Troubles'
  BY <1>0, <1>2, <1>8 DEF Troubles
<1>9. ASSUME NEW num \in {SUCCESS, FAILED}, Answers(num)
      PROVE  Troubles'
  <2>1. /\ job'.rpc = "none" /\ UNCHANGED <<client, server, script, last, seen>>
        /\ UNCHANGED call \/ call'.num = num
    BY <1>1, <1>9 DEF Answers, Respond, Answered, scriptSide
  <2>. QED
    BY <1>1, <1>8, <2>1
<1>10. CASE \/ BackupStarts \/ RestoreStarts \/ UpdateStarts
            \/ PieceStarts \/ FolderStarts \/ CommandStarts
  <2>1. /\ UNCHANGED <<client, server, script, last, call>>
        /\ job'.rpc # "command_execute" \/ (job'.slow => "slow" \in seen')
        /\ seen' \subseteq seen \cup {"disk", "missing", "slow"}
    BY <1>10 DEF BackupStarts, RestoreStarts, UpdateStarts, PieceStarts, FolderStarts,
                 CommandStarts, Starts, scriptSide
  <2>. QED
    BY <1>8, <2>1
<1>11. CASE Deletes \/ Reads \/ Walked
  <2>1. /\ UNCHANGED <<client, server, script, last, call, seen>>
        /\ job'.rpc # "command_execute"
    BY <1>11 DEF Deletes, Reads, Walked, Works, scriptSide
  <2>. QED
    BY <1>8, <2>1
<1>12. ASSUME NEW num, NEW text, Responds(num, text), seen' \subseteq seen \cup {"disk", "dangling"}
       PROVE  Troubles'
  <2>1. /\ job'.rpc = "none" /\ UNCHANGED <<client, server, script, last>>
        /\ UNCHANGED call \/ (job.waiting /\ call'.num = num)
        /\ num \in NoAnswer => job.rpc = "file_content"
    BY <1>1, <1>12 DEF Responds, Respond, Answered, scriptSide
  <2>2. ASSUME job.waiting, job.rpc = "file_content"
        PROVE  script.pc \notin {"origin", "restored"}
    <3>1. "file_content" \in Rpcs
      BY DEF Rpcs
    <3>2. ExpectedAt(script, "file_content")
      BY <2>2, <3>1 DEF Awaited, Expected
    <3>. QED
      BY <3>2 DEF ExpectedAt, ScriptTypes, Placed
  <2>. QED
    BY <1>8, <1>12, <2>1, <2>2
<1>13. ASSUME NEW num \in {SUCCESS, FAILED}, Closes(num) \/ WalkEnds(num) \/ Done(num)
       PROVE  Troubles'
  BY <1>12, <1>13 DEF Closes, WalkEnds, Done
<1>14. CASE ReadEnds
  BY <1>12, <1>14 DEF ReadEnds
<1>15. CASE Loses
  <2>1. "server" \in seen' /\ job'.rpc = "none" /\ Trouble'
    BY <1>1, <1>15 DEF Loses, Trouble
  <2>. QED
    BY <2>1 DEF Troubles
<1>16. CASE Beside
  <2>1. /\ UNCHANGED <<client, script, last, call, job>> /\ server' \in {server, TRUE}
        /\ seen' \subseteq seen \cup {"shrink", "writer"}
    BY <1>16 DEF Beside
  <2>2. ~server' => ~server
    BY <2>1, Zenon
  <2>3. job'.rpc # "command_execute" \/ (job'.slow => "slow" \in seen')
    BY <1>0, <1>2, <2>1
  <2>. QED
    BY <1>8, <2>1, <2>2, <2>3
<1>. QED
  BY <1>3, <1>4, <1>5, <1>6, <1>7, <1>9, <1>10, <1>11, <1>13, <1>14, <1>15, <1>16 DEF Step

-----------------------------------------------------------------------------
(* The folder.                                                             *)

(* What there is of the folder while it is deleted.                        *)
LEMMA TreeKeptStep ==
  ASSUME CallTypes, TreeKept, Step
  PROVE  TreeKept'
<1>0. /\ tree \subseteq Nodes
      /\ tree \cap {Crt, Hash, Extra} # {} => Sub \in tree
      /\ Sub \in tree => Root \in tree
      /\ Extra \in tree => "writer" \in seen
      /\ job.rpc = "folder_delete" =>
           /\ Root \in tree /\ tree \subseteq job.unread \cup {Extra}
           /\ job.path = <<Root, Sub>> => Sub \in tree
      /\ job \in Jobs /\ seen \subseteq seen'
  BY SeenGrows DEF TreeKept, CallTypes
<1>1. NoJob.rpc = "none" /\ <<Root>> # <<Root, Sub>>
  BY PathFacts DEF NoJob
<1>2. Root \notin {Sub, Crt, Hash, Extra} /\ Sub \notin {Crt, Hash, Extra}
      /\ Nodes = {Root, Sub, Crt, Hash, Extra}
  BY FilesAssumption DEF Nodes
<1>3. ASSUME UNCHANGED tree, job'.rpc # "folder_delete" \/ UNCHANGED job
      PROVE  TreeKept'
  BY <1>0, <1>3 DEF TreeKept
<1>4. CASE \/ \E r \in FileRequest : Makes(r)
           \/ Finishes \/ Arrives \/ Loses
  BY <1>1, <1>3, <1>4 DEF Makes, Finishes, Arrives, Loses, callVars
<1>5. CASE TimesOut \/ Quits
  <2>1. UNCHANGED tree /\ job' = Forsaken(job)
    BY <1>5 DEF TimesOut, Quits, Forsakes
  <2>2. /\ job'.rpc = job.rpc
        /\ job.rpc = "folder_delete" => job'.path = job.path /\ job'.unread = job.unread
    BY <1>0, <2>1, ForsakenJob
  <2>. QED
    BY <1>0, <2>1, <2>2 DEF TreeKept
<1>6. ASSUME NEW num \in {SUCCESS, FAILED}, Answers(num)
      PROVE  TreeKept'
  <2>1. job'.rpc = "none" /\ (UNCHANGED tree \/ tree' = tree \cup {Root})
    BY <1>1, <1>6 DEF Answers, Respond
  <2>. QED
    BY <1>0, <1>2, <2>1 DEF TreeKept
<1>7. CASE BackupStarts \/ RestoreStarts \/ UpdateStarts \/ PieceStarts \/ CommandStarts
  BY <1>3, <1>7 DEF BackupStarts, RestoreStarts, UpdateStarts, PieceStarts, CommandStarts, Starts
<1>8. CASE FolderStarts
  <2>1. UNCHANGED tree /\ Root \in tree /\ job'.path = <<Root>> /\ job'.unread = tree
    BY <1>8 DEF FolderStarts, Starts
  <2>. QED
    BY <1>0, <1>1, <2>1 DEF TreeKept
<1>9. CASE Deletes \/ Reads
  BY <1>3, <1>9 DEF Deletes, Reads, Works
<1>10. CASE Walked
  <2>1. /\ job.rpc = "folder_delete" /\ job'.unread = job.unread
        /\ \/ job'.path = <<Root, Sub>> /\ Sub \in tree /\ UNCHANGED tree
           \/ /\ \E n \in {Crt, Hash, Extra} : tree' = tree \ {n}
              /\ job'.path = job.path
           \/ /\ tree \cap {Crt, Hash, Extra} = {} /\ tree' = tree \ {Sub}
              /\ job'.path = <<Root>>
    BY <1>10 DEF Walked
  <2>2. CASE job'.path = <<Root, Sub>> /\ Sub \in tree /\ UNCHANGED tree
    BY <1>0, <2>1, <2>2 DEF TreeKept
  <2>3. ASSUME NEW n \in {Crt, Hash, Extra}, tree' = tree \ {n}, job'.path = job.path
        PROVE  TreeKept'
    BY <1>0, <1>2, <2>1, <2>3 DEF TreeKept
  <2>4. CASE tree \cap {Crt, Hash, Extra} = {} /\ tree' = tree \ {Sub} /\ job'.path = <<Root>>
    BY <1>0, <1>1, <1>2, <2>1, <2>4 DEF TreeKept
  <2>. QED
    BY <2>1, <2>2, <2>3, <2>4
<1>11. CASE ReadEnds \/ \E num \in {SUCCESS, FAILED} : Closes(num) \/ Done(num)
  BY <1>1, <1>3, <1>11 DEF ReadEnds, Closes, Done, Responds, Respond
<1>12. ASSUME NEW num \in {SUCCESS, FAILED}, WalkEnds(num)
       PROVE  TreeKept'
  <2>1. job'.rpc = "none" /\ (UNCHANGED tree \/ (tree' = tree \ {Root} /\ Sub \notin tree))
    BY <1>1, <1>12 DEF WalkEnds, Responds, Respond
  <2>. QED
    BY <1>0, <1>2, <2>1 DEF TreeKept
<1>13. CASE Beside
  <2>1. /\ UNCHANGED job
        /\ UNCHANGED tree \/ (tree' = tree \cup {Extra} /\ Sub \in tree /\ "writer" \in seen')
    BY <1>13 DEF Beside
  <2>. QED
    BY <1>0, <1>2, <2>1 DEF TreeKept
<1>. QED
  BY <1>4, <1>5, <1>6, <1>7, <1>8, <1>9, <1>10, <1>11, <1>12, <1>13 DEF Step

(* What the script is told about it.                                       *)
LEMMA FolderToldStep ==
  ASSUME CallTypes, ScriptTypes, Awaited, Settled, TreeKept, FolderTold, Step
  PROVE  FolderTold'
<1>0. /\ script.op = "folder_delete" /\ call.state = "answered" => Told(call.num)
      /\ last.op = "folder_delete" => Told(last.num)
      /\ job \in Jobs /\ seen \subseteq seen'
  BY SeenGrows DEF FolderTold, CallTypes
<1>1. /\ NoJob.rpc = "none" /\ NoScript.op = "none" /\ NoLast.op = "none"
      /\ NO_CONNECTION \in NoAnswer /\ TIMEOUT_EXPIRED \in NoAnswer
      /\ SUCCESS \notin NoAnswer /\ FAILED \notin NoAnswer /\ SUCCESS # FAILED
  BY DEF NoJob, NoScript, NoLast, SUCCESS, FAILED, NoAnswer, TIMEOUT_EXPIRED, NO_CONNECTION
<1>3. ASSUME NEW r \in FileRequest, Makes(r)
      PROVE  FolderTold'
  <2>1. last'.op = "none" /\ (call'.state = "answered" => call'.num \in NoAnswer)
    BY <1>1, <1>3 DEF Makes, Sends
  <2>. QED
    BY <1>1, <2>1 DEF FolderTold, Told
<1>4. CASE Finishes
  <2>1. PICK num : /\ last' = [op |-> script.op, num |-> num]
                   /\ num = call.num \/ script.op \in {"get", "set"}
    BY <1>4 DEF Finishes
  <2>2. /\ last'.op = script.op /\ last'.num = num
        /\ call.state = "answered" /\ script'.op = "none" /\ UNCHANGED <<tree, seen>>
    BY <1>1, <1>4, <2>1 DEF Finishes
  <2>. QED
    BY <1>0, <2>1, <2>2 DEF FolderTold, Told
<1>5. CASE Arrives
  <2>1. UNCHANGED <<call, tree, seen, last>> /\ script'.op = script.op
    BY <1>5 DEF Arrives, callVars, ScriptTypes, Placed, Scripts
  <2>. QED
    BY <1>0, <2>1 DEF FolderTold, Told
<1>6. CASE TimesOut
  <2>1. UNCHANGED <<tree, seen, last>> /\ call'.num \in NoAnswer
    BY <1>1, <1>6 DEF TimesOut
  <2>. QED
    BY <1>0, <1>1, <2>1 DEF FolderTold, Told
<1>7. CASE Quits
  <2>1. script'.op = "none" /\ last'.op = "none"
    BY <1>1, <1>7 DEF Quits
  <2>. QED
    BY <2>1 DEF FolderTold
<1>8. ASSUME ~Still, UNCHANGED <<script, last>>,
             \/ UNCHANGED call
             \/ script.op = "folder_delete" /\ call'.state = "answered" =>
                  /\ call'.num = SUCCESS => tree' = {}
                  /\ call'.num = FAILED /\ Root \in tree' => seen' \cap {"dangling", "writer"} # {}
      PROVE  FolderTold'
  <2>1. /\ call.state = "answered" => call.num \in NoAnswer
        /\ last.op = "folder_delete" => last.num \in NoAnswer
    BY <1>8 DEF Settled
  <2>2. last'.op = "folder_delete" => last'.num \notin {SUCCESS, FAILED}
    BY <1>1, <1>8, <2>1
  <2>3. UNCHANGED call /\ call'.state = "answered" => call'.num \notin {SUCCESS, FAILED}
    BY <1>1, <2>1
  <2>. QED
    BY <1>8, <2>2, <2>3 DEF FolderTold, Told
<1>9. ASSUME NEW rpc \in Rpcs, ExpectedAt(script, rpc), script.op = "folder_delete"
      PROVE  rpc = "folder_delete"
  <2>1. script.pc \notin {"origin", "restored", "exists", "first", "more"}
    BY <1>9 DEF ScriptTypes, Placed
  <2>. QED
    BY <1>9, <2>1 DEF ExpectedAt
<1>10. ASSUME NEW num \in {SUCCESS, FAILED}, Answers(num)
       PROVE  FolderTold'
  <2>1. /\ Takes /\ UNCHANGED <<script, last>>
        /\ UNCHANGED call \/ (Taken.waiting /\ call'.num = num)
        /\ Taken.rpc = "folder_delete" => num = FAILED /\ Root \notin tree /\ UNCHANGED tree
    BY <1>10 DEF Answers, Respond, Answered, scriptSide
  <2>2. ~Still
    BY <2>1 DEF Takes, Still
  <2>3. ASSUME Taken.waiting, script.op = "folder_delete"
        PROVE  Taken.rpc = "folder_delete"
    <3>1. Taken = rpcs[1] /\ 1 \in 1..Len(rpcs) /\ Taken \in FileRequest
      BY <2>1, AfterTakes
    <3>2. Taken.rpc \in Rpcs
      BY <3>1, Requests
    <3>3. ExpectedAt(script, Taken.rpc)
      BY <2>3, <3>1, <3>2 DEF Awaited, Expected
    <3>. QED
      BY <1>9, <2>3, <3>2, <3>3
  <2>. QED
    BY <1>1, <1>8, <2>1, <2>2, <2>3
<1>11. CASE \/ BackupStarts \/ RestoreStarts \/ UpdateStarts
            \/ PieceStarts \/ FolderStarts \/ CommandStarts
  <2>1. UNCHANGED <<script, last, call>> /\ Takes
    BY <1>11 DEF BackupStarts, RestoreStarts, UpdateStarts, PieceStarts, FolderStarts,
                 CommandStarts, Starts, scriptSide
  <2>2. ~Still
    BY <2>1 DEF Takes, Still
  <2>. QED
    BY <1>8, <2>1, <2>2
<1>12. job.rpc # "none" => ~Still
  BY DEF Still, NoJob
<1>13. CASE Deletes \/ Reads \/ Walked
  <2>1. UNCHANGED <<script, last, call>> /\ job.rpc # "none"
    BY <1>13 DEF Deletes, Reads, Walked, Works, scriptSide
  <2>. QED
    BY <1>8, <1>12, <2>1
<1>14. ASSUME NEW num, NEW text, Responds(num, text),
              \/ job.rpc # "folder_delete"
              \/ /\ num = SUCCESS => tree' = {}
                 /\ num = FAILED /\ Root \in tree' => seen' \cap {"dangling", "writer"} # {}
       PROVE  FolderTold'
  <2>1. /\ UNCHANGED <<script, last>> /\ job.rpc # "none"
        /\ UNCHANGED call \/ (job.waiting /\ call'.num = num)
    BY <1>14 DEF Responds, Respond, Answered, scriptSide
  <2>2. ASSUME job.waiting, script.op = "folder_delete"
        PROVE  job.rpc = "folder_delete"
    <3>1. job.rpc \in Rpcs
      BY <1>0, <2>1, Shapes DEF Rpcs, Streaming, FileCalls, FolderCalls
    <3>2. ExpectedAt(script, job.rpc)
      BY <2>2, <3>1 DEF Awaited, Expected
    <3>. QED
      BY <1>9, <2>2, <3>1, <3>2
  <2>. QED
    BY <1>8, <1>12, <1>14, <2>1, <2>2
<1>15. ASSUME NEW num \in {SUCCESS, FAILED}, Closes(num) \/ Done(num)
       PROVE  FolderTold'
  <2>1. Responds(num, <<>>) /\ job.rpc # "folder_delete"
    BY <1>15 DEF Closes, Done, Streaming
  <2>. QED
    BY <1>14, <2>1
<1>16. CASE ReadEnds
  <2>1. job.rpc # "folder_delete" /\ \E num : Responds(num, job.text)
    BY <1>16 DEF ReadEnds
  <2>. QED
    BY <1>14, <2>1
<1>17. ASSUME NEW num \in {SUCCESS, FAILED}, WalkEnds(num)
       PROVE  FolderTold'
  <2>1. Responds(num, <<>>) /\ job.rpc = "folder_delete"
    BY <1>17 DEF WalkEnds
  <2>2. CASE num = SUCCESS /\ tree' = tree \ {Root} /\ Sub \notin tree
    <3>1. tree' = {}
      BY <2>2 DEF TreeKept, Nodes
    <3>. QED
      BY <1>1, <1>14, <2>1, <2>2, <3>1
  <2>3. CASE num = FAILED /\ seen' = seen \cup {"dangling"}
    BY <1>1, <1>14, <2>1, <2>3
  <2>4. CASE num = FAILED /\ UNCHANGED seen /\ tree \cap (Nodes \ job.unread) # {}
    <3>1. "writer" \in seen'
      BY <2>1, <2>4 DEF TreeKept
    <3>. QED
      BY <1>1, <1>14, <2>1, <2>4, <3>1
  <2>. QED
    BY <1>17, <2>2, <2>3, <2>4 DEF WalkEnds
<1>18. CASE Loses
  <2>1. UNCHANGED <<call, script, last, tree>>
    BY <1>18 DEF Loses
  <2>. QED
    BY <1>0, <2>1 DEF FolderTold, Told
<1>19. CASE Beside
  <2>1. UNCHANGED <<call, script, last>> /\ (UNCHANGED tree \/ job.rpc = "folder_delete")
    BY <1>19 DEF Beside
  <2>2. CASE UNCHANGED tree
    BY <1>0, <2>1, <2>2 DEF FolderTold, Told
  <2>3. CASE job.rpc = "folder_delete"
    BY <1>8, <1>12, <2>1, <2>3
  <2>. QED
    BY <2>1, <2>2, <2>3
<1>. QED
  BY <1>3, <1>4, <1>5, <1>6, <1>7, <1>10, <1>11, <1>13, <1>15, <1>16, <1>17, <1>18, <1>19 DEF Step

-----------------------------------------------------------------------------
(* The copy.                                                               *)

(* Beginnings of a file that grows, and of a copy that gets a piece.       *)
LEMMA Beginnings ==
  /\ \A c \in Content : Begins(c, c) /\ Begins(<<>>, c)
  /\ \A c \in Content, s \in Content : Begins(s, c) => Begins(s, Append(c, "s"))
  /\ \A c \in Content, t \in Content, n \in Nat :
       Follows(n, t, c) => Follows(n, t, Append(c, "s"))
  /\ \A c \in Content, t \in Content :
       Follows(0, t, c) => Begins(t, c)
  /\ \A c \in Content, s \in Content, t \in Content :
       Begins(s, c) /\ Follows(Len(s), t, c) => Begins(s \o t, c)
  /\ \A c \in Content, d \in Content : Len(c \o d) = Len(c) + Len(d)
  /\ \A c \in Content : Len(Append(c, "s")) = Len(c) + 1
<1>. DEFINE S == Block
<1>0. Content = Seq(S) /\ "s" \in S
  BY DEF Content, Block
<1>. HIDE DEF S
<1>1. /\ \A c \in Seq(S) : /\ Len(c) \in Nat /\ Append(c, "s") \in Seq(S)
                           /\ Len(Append(c, "s")) = Len(c) + 1
                           /\ \A i \in 1..Len(c) : Append(c, "s")[i] = c[i]
      /\ \A c \in Seq(S), d \in Seq(S) : Len(c \o d) = Len(c) + Len(d)
  BY <1>0
<1>2. Len(<<>>) = 0
  BY Contents
<1>3. \A c \in Seq(S) : Begins(c, c) /\ Begins(<<>>, c)
  BY <1>1, <1>2 DEF Begins
<1>4. ASSUME NEW c \in Seq(S), NEW s \in Seq(S), Begins(s, c)
      PROVE  Begins(s, Append(c, "s"))
  BY <1>1, <1>4 DEF Begins
<1>5. ASSUME NEW c \in Seq(S), NEW t \in Seq(S), NEW n \in Nat, Follows(n, t, c)
      PROVE  Follows(n, t, Append(c, "s"))
  <2>1. \A i \in 1..Len(t) : n + i \in 1..Len(c)
    BY <1>1, <1>5 DEF Follows
  <2>. QED
    BY <1>1, <1>5, <2>1 DEF Follows
<1>6. ASSUME NEW c \in Seq(S), NEW t \in Seq(S), Follows(0, t, c)
      PROVE  Begins(t, c)
  <2>1. \A i \in 1..Len(t) : 0 + i = i
    BY <1>1
  <2>. QED
    BY <1>1, <1>6, <2>1 DEF Follows, Begins
<1>7. ASSUME NEW c \in Seq(S), NEW s \in Seq(S), NEW t \in Seq(S), Begins(s, c),
             Follows(Len(s), t, c)
      PROVE  Begins(s \o t, c)
  <2>1. Len(s \o t) = Len(s) + Len(t) /\ Len(s) \in Nat /\ Len(t) \in Nat
    OBVIOUS
  <2>2. ASSUME NEW i \in 1..(Len(s) + Len(t))
        PROVE  (s \o t)[i] = c[i]
    <3>1. CASE i <= Len(s)
      <4>1. (s \o t)[i] = s[i] /\ i \in 1..Len(s)
        BY <2>1, <3>1
      <4>. QED
        BY <1>7, <4>1 DEF Begins
    <3>2. CASE i > Len(s)
      <4>1. PICK j \in 1..Len(t) : i = Len(s) + j
        <5>1. i - Len(s) \in 1..Len(t) /\ i = Len(s) + (i - Len(s))
          BY <2>1, <3>2
        <5>. QED
          BY <5>1
      <4>2. (s \o t)[i] = t[j]
        BY <2>1, <3>2, <4>1
      <4>3. t[j] = c[Len(s) + j]
        BY <1>7, <4>1 DEF Follows
      <4>. QED
        BY <4>1, <4>2, <4>3
    <3>. QED
      BY <2>1, <3>1, <3>2
  <2>. QED
    BY <1>7, <2>1, <2>2 DEF Begins, Follows
<1>. QED
  BY <1>0, <1>1, <1>3, <1>4, <1>5, <1>6, <1>7

(* The copy gets a piece.                                                  *)
LEMMA PieceGained ==
  ASSUME DiskTypes, AnswerTypes, Copying, Gains, NEW d \in Content,
         script.pc = "more" => Begins(tmp, d),
         Follows(Got, call.text, d)
  PROVE  /\ tmp' \in Content /\ Len(tmp') = Got + Len(call.text)
         /\ Begins(tmp', d)
<1>0. call.text \in Content /\ (script.pc = "more" => tmp \in Content)
      /\ Len(call.text) \in Nat
  BY Contents DEF DiskTypes, AnswerTypes
<1>1. CASE script.pc = "first"
  <2>1. Got = 0 /\ tmp' = call.text
    BY <1>1 DEF Got, Gains
  <2>. QED
    BY <1>0, <2>1, Beginnings
<1>2. CASE script.pc = "more"
  <2>1. Got = Len(tmp) /\ tmp' = tmp \o call.text /\ tmp \in Content
    BY <1>0, <1>2 DEF Got, Gains
  <2>. QED
    BY <1>0, <1>2, <2>1, Beginnings, Contents
<1>. QED
  BY <1>1, <1>2 DEF Copying

(* What the worker is asked, or is doing, while the script copies a file.  *)
LEMMA OnlyPieces ==
  ASSUME CallTypes, Awaited, Asked, Settled, ScriptTypes, Alone
  PROVE  /\ Takes /\ Copying => Taken.rpc = "file_content"
         /\ Takes /\ Copying /\ call.state = "waiting" =>
              Taken.waiting /\ Taken.types = PIECE /\ Taken.arg.file = script.file
         /\ Copying => job.rpc \in {"none", "file_content"}
         /\ Copying /\ call.state = "waiting" /\ job.rpc # "none" =>
              job.waiting /\ job.file = script.file
         /\ ~Still /\ call.state = "answered" => call.num \in NoAnswer
         /\ script.pc = "copied" => Still
         /\ Takes => ~Still
         /\ job.rpc # "none" => ~Still
<1>1. /\ Copying => /\ \A i \in 1..Len(rpcs) : rpcs[i].rpc = "file_content"
                    /\ job.rpc \in {"none", "file_content"}
      /\ Copying /\ call.state = "waiting" =>
           /\ \A i \in 1..Len(rpcs) : rpcs[i].waiting
           /\ job = NoJob \/ (job.waiting /\ job.file = script.file)
      /\ script.pc = "copied" => Still
  BY DEF Alone
<1>2. ASSUME Takes, Copying
      PROVE  /\ Taken.rpc = "file_content"
             /\ call.state = "waiting" =>
                  Taken.waiting /\ Taken.types = PIECE /\ Taken.arg.file = script.file
  <2>1. Taken = rpcs[1] /\ 1 \in 1..Len(rpcs)
    BY <1>2, AfterTakes
  <2>. QED
    BY <1>1, <1>2, <2>1 DEF Asked, Copying
<1>3. Takes => ~Still
  BY DEF Takes, Still
<1>4. job.rpc # "none" => ~Still /\ job # NoJob
  BY DEF Still, NoJob
<1>5. ~Still /\ call.state = "answered" => call.num \in NoAnswer
  BY DEF Settled
<1>. QED
  BY <1>1, <1>2, <1>3, <1>4, <1>5

(* While the script copies a file, nothing else is at the server.          *)
LEMMA AloneStep ==
  ASSUME CallTypes, ScriptTypes, AnswerTypes, DiskTypes, Awaited, Asked, Settled, Alone, Step
  PROVE  Alone'
<1>0. /\ script.pc = "exists" /\ call.state = "answered" /\ call.num = SUCCESS
           => disk[script.file] \in Content
      /\ Copying =>
           /\ \A i \in 1..Len(rpcs) : rpcs[i].rpc = "file_content"
           /\ job.rpc \in {"none", "file_content"}
           /\ disk[script.file] \in Content
      /\ Copying /\ call.state = "waiting" =>
           /\ \A i \in 1..Len(rpcs) : rpcs[i].waiting
           /\ job = NoJob \/ (job.waiting /\ job.file = script.file)
      /\ script.pc = "copied" => Still /\ disk[script.file] \in Content
  BY DEF Alone
<1>1. /\ NoJob.rpc = "none" /\ NoScript.pc = "idle"
      /\ SUCCESS \notin NoAnswer /\ FAILED \notin NoAnswer /\ FAILED # SUCCESS
      /\ NO_CONNECTION # SUCCESS /\ TIMEOUT_EXPIRED # SUCCESS
      /\ \A n \in Int : n > 0 \/ n = 0 => n \notin NoAnswer
  BY DEF NoJob, NoScript, SUCCESS, FAILED, NoAnswer, TIMEOUT_EXPIRED, NO_CONNECTION
<1>2. /\ job \in Jobs /\ call.num \in Int /\ rpcs \in Seq(FileRequest)
      /\ disk \in [Names -> {Absent} \cup Content] /\ disk[Log] \in Content
      /\ script.file \in {Cfg, Log}
      /\ \A s \in Placed : s.pc \in {"exists", "first", "more", "copied"} => s.op \in {"get", "set"}
      /\ script \in Placed
  BY DEF CallTypes, AnswerTypes, DiskTypes, ScriptTypes, Placed, Scripts
<1>3. ASSUME NEW r \in FileRequest, Makes(r)
      PROVE  Alone'
  <2>1. /\ UNCHANGED <<disk, job>> /\ r.waiting
        /\ script'.pc # "copied" /\ script' \in Placed
        /\ \A c \in Rpcs : c = r.rpc => Expected(c)'
        /\ call'.state = "answered" => call'.num = NO_CONNECTION
        /\ UNCHANGED rpcs \/ rpcs' = Append(rpcs, r)
    BY <1>3 DEF Makes, Sends, Places
  <2>2. /\ script'.pc \in {"first", "more"} =>
             call.state = "answered" /\ script'.file = script.file
        /\ script'.pc = "first" => script.pc = "exists" /\ call.num = SUCCESS
        /\ script'.pc = "more" => Copying /\ call.num > 0
    BY <1>3 DEF Makes, Continues
  <2>3. ASSUME script'.pc \in {"first", "more"}
        PROVE  Still /\ disk[script.file] \in Content
    BY <1>0, <1>1, <1>2, <2>2, <2>3 DEF Settled
  <2>4. ASSUME script'.pc \in {"first", "more"}
        PROVE  r.rpc = "file_content"
    <3>1. r.rpc \in Rpcs
      BY Requests
    <3>2. ExpectedAt(script', r.rpc)
      BY <2>1, <3>1 DEF Expected
    <3>3. script'.op \in {"get", "set"}
      BY <1>2, <2>1, <2>4
    <3>. QED
      BY <2>4, <3>2, <3>3 DEF ExpectedAt
  <2>5. ASSUME script'.pc \in {"first", "more"}
        PROVE  \A i \in 1..Len(rpcs') : rpcs'[i] = r
    <3>1. rpcs = <<>>
      BY <2>3, <2>5 DEF Still
    <3>2. Len(rpcs) = 0
      BY <3>1, Contents
    <3>3. CASE UNCHANGED rpcs
      BY <3>2, <3>3
    <3>4. CASE rpcs' = Append(rpcs, r)
      BY <3>2, <3>4, AfterCall
    <3>. QED
      BY <2>1, <3>3, <3>4
  <2>6. script'.pc \in {"first", "more"} => job' = NoJob
    BY <2>1, <2>3 DEF Still
  <2>. QED
    BY <1>1, <2>1, <2>2, <2>3, <2>4, <2>5, <2>6 DEF Alone, Copying
<1>4. CASE Finishes \/ Quits
  <2>1. script'.pc = "idle"
    BY <1>1, <1>4 DEF Finishes, Quits
  <2>. QED
    BY <2>1 DEF Alone, Copying
<1>5. CASE Arrives
  <2>1. /\ UNCHANGED <<rpcs, job, disk>> /\ script'.pc = "copied" /\ script'.file = script.file
        /\ Copying /\ call.state = "answered" /\ call.num = 0
    BY <1>2, <1>5 DEF Arrives, callVars, Placed, Scripts
  <2>2. Still
    BY <1>1, <1>2, <2>1 DEF Settled
  <2>3. Still'
    BY <2>1, <2>2 DEF Still
  <2>. QED
    BY <1>0, <2>1, <2>3 DEF Alone, Copying
<1>6. CASE TimesOut
  <2>1. /\ Forsakes /\ UNCHANGED <<script, disk>> /\ call.state = "waiting"
        /\ call'.state = "answered" /\ call'.num = TIMEOUT_EXPIRED
    BY <1>6 DEF TimesOut
  <2>2. job'.rpc = job.rpc /\ Len(rpcs') = Len(rpcs)
        /\ \A i \in 1..Len(rpcs) : rpcs'[i].rpc = rpcs[i].rpc
    BY <1>2, <2>1, AfterForsakes, ForsakenJob DEF Forsakes
  <2>3. script.pc # "copied"
    BY <2>1 DEF ScriptTypes
  <2>. QED
    BY <1>0, <1>1, <2>1, <2>2, <2>3 DEF Alone, Copying
<1>7. ASSUME NEW num \in {SUCCESS, FAILED}, Answers(num)
      PROVE  Alone'
  <2>1. /\ Takes /\ UNCHANGED script /\ job' = NoJob
        /\ UNCHANGED call \/ (Taken.waiting /\ call'.state = "answered" /\ call'.num = num)
        /\ UNCHANGED disk \/ Taken.rpc = "file_delete"
        /\ Taken.rpc = "file_exists" => num = CodeOf(disk[Taken.arg.file] # Absent)
    BY <1>7 DEF Answers, Respond, Answered, scriptSide
  <2>2. /\ Taken = rpcs[1] /\ 1 \in 1..Len(rpcs) /\ Taken \in FileRequest
        /\ \A i \in 1..Len(rpcs') : i + 1 \in 1..Len(rpcs) /\ rpcs'[i] = rpcs[i + 1]
    BY <2>1, AfterTakes
  <2>3. ASSUME script.pc = "exists", Taken.waiting, num = SUCCESS
        PROVE  disk'[script.file] \in Content
    <3>1. Taken.rpc \in Rpcs
      BY <2>2, Requests
    <3>2. ExpectedAt(script, Taken.rpc)
      BY <2>2, <2>3, <3>1 DEF Awaited, Expected
    <3>3. Taken.rpc = "file_exists"
      BY <1>2, <2>3, <3>2 DEF ExpectedAt
    <3>4. Taken.arg.file = script.file
      BY <2>2, <2>3 DEF Asked
    <3>5. disk[script.file] # Absent
      BY <1>1, <2>1, <2>3, <3>3, <3>4 DEF CodeOf
    <3>. QED
      BY <1>2, <2>1, <3>3, <3>5, FileNames
  <2>4. script.pc # "copied"
    BY <2>1, OnlyPieces
  <2>5. UNCHANGED call => ~(call'.state = "answered" /\ call'.num = SUCCESS)
    BY <1>1, <2>1, OnlyPieces
  <2>6. Copying => UNCHANGED disk
    BY <2>1, OnlyPieces
  <2>7. Copying => \A i \in 1..Len(rpcs') : rpcs'[i].rpc = "file_content"
    BY <1>0, <2>2
  <2>8. Copying /\ call'.state = "waiting" => \A i \in 1..Len(rpcs') : rpcs'[i].waiting
    BY <1>0, <2>1, <2>2
  <2>. QED
    BY <1>0, <1>1, <2>1, <2>3, <2>4, <2>5, <2>6, <2>7, <2>8 DEF Alone, Copying
<1>8. CASE \/ BackupStarts \/ RestoreStarts \/ UpdateStarts
           \/ PieceStarts \/ FolderStarts \/ CommandStarts
  <2>1. /\ Takes /\ UNCHANGED <<script, call>>
        /\ job'.rpc = Taken.rpc /\ job'.waiting = Taken.waiting
        /\ Taken.rpc = "file_content" => UNCHANGED disk /\ job'.file = Taken.arg.file
    BY <1>8 DEF BackupStarts, RestoreStarts, UpdateStarts, PieceStarts, FolderStarts,
                CommandStarts, Starts, scriptSide
  <2>2. \A i \in 1..Len(rpcs') : i + 1 \in 1..Len(rpcs) /\ rpcs'[i] = rpcs[i + 1]
    BY <2>1, AfterTakes
  <2>3. script.pc # "copied" /\ ~(call.state = "answered" /\ call.num = SUCCESS)
    BY <1>1, <2>1, OnlyPieces
  <2>4. /\ Copying => \A i \in 1..Len(rpcs') : rpcs'[i].rpc = "file_content"
        /\ Copying /\ call.state = "waiting" => \A i \in 1..Len(rpcs') : rpcs'[i].waiting
    BY <1>0, <2>2
  <2>5. /\ Copying => UNCHANGED disk /\ job'.rpc = "file_content"
        /\ Copying /\ call.state = "waiting" => job'.waiting /\ job'.file = script.file
    BY <2>1, OnlyPieces
  <2>. QED
    BY <1>0, <2>1, <2>3, <2>4, <2>5 DEF Alone, Copying
<1>9. CASE Deletes \/ Reads \/ Walked
  <2>1. /\ UNCHANGED <<script, call, rpcs>> /\ job.rpc # "none"
        /\ job'.rpc = job.rpc /\ job'.waiting = job.waiting
        /\ job.rpc = "file_content" => UNCHANGED disk /\ job'.file = job.file
    BY <1>9 DEF Deletes, Reads, Walked, Works, scriptSide
  <2>2. script.pc # "copied" /\ ~(call.state = "answered" /\ call.num = SUCCESS)
    BY <1>1, <2>1, OnlyPieces
  <2>3. /\ Copying => UNCHANGED disk /\ job'.rpc = "file_content"
        /\ Copying /\ call.state = "waiting" => job'.waiting /\ job'.file = script.file
    BY <2>1, OnlyPieces
  <2>. QED
    BY <1>0, <2>1, <2>2, <2>3 DEF Alone, Copying
<1>10. CASE ReadEnds \/ \E num \in {SUCCESS, FAILED} : Closes(num) \/ WalkEnds(num) \/ Done(num)
  <2>1. /\ UNCHANGED <<script, rpcs>> /\ job.rpc # "none" /\ job' = NoJob
        /\ UNCHANGED call \/ (job.waiting /\ call'.state = "answered")
        /\ job.rpc = "file_content" => UNCHANGED disk
    BY <1>10 DEF ReadEnds, Closes, WalkEnds, Done, Responds, Respond, Answered, scriptSide, Streaming
  <2>2. script.pc # "copied" /\ ~(call.state = "answered" /\ call.num = SUCCESS)
    BY <1>1, <2>1, OnlyPieces
  <2>3. ASSUME job.waiting
        PROVE  script.pc # "exists"
    <3>1. job.rpc \in Rpcs /\ job.rpc # "file_exists"
      BY <1>2, <2>1, Shapes DEF Rpcs, Streaming, FileCalls, FolderCalls
    <3>2. ExpectedAt(script, job.rpc)
      BY <2>3, <3>1 DEF Awaited, Expected
    <3>. QED
      BY <1>2, <3>1, <3>2 DEF ExpectedAt
  <2>4. Copying => UNCHANGED disk
    BY <2>1, OnlyPieces
  <2>. QED
    BY <1>0, <1>1, <2>1, <2>2, <2>3, <2>4 DEF Alone, Copying
<1>11. CASE Loses
  <2>1. rpcs' = <<>> /\ job' = NoJob /\ UNCHANGED <<script, call, disk>>
    BY <1>11 DEF Loses
  <2>2. Still' /\ \A i \in 1..Len(rpcs') : FALSE
    BY <2>1, Contents DEF Still
  <2>. QED
    BY <1>0, <1>1, <2>1, <2>2 DEF Alone, Copying
<1>12. CASE Beside
  <2>1. UNCHANGED <<script, call, rpcs, job>>
    BY <1>12 DEF Beside
  <2>2. disk[script.file] \in Content => disk'[script.file] \in Content
    <3>1. disk' = disk \/ \E c \in Content : disk' = [disk EXCEPT ![Log] = c]
      BY <1>2, <1>12, Contents DEF Beside
    <3>. QED
      BY <1>2, <3>1, FileNames
  <2>3. Still' <=> Still
    BY <2>1 DEF Still
  <2>. QED
    BY <1>0, <2>1, <2>2, <2>3 DEF Alone, Copying
<1>. QED
  BY <1>3, <1>4, <1>5, <1>6, <1>7, <1>8, <1>9, <1>10, <1>11, <1>12 DEF Step

CopyTaken ==
  /\ CallTypes /\ ScriptTypes /\ AnswerTypes /\ DiskTypes
  /\ Awaited /\ Asked /\ Settled /\ Alone

Pieces == PieceAsked /\ PieceRead /\ PieceAnswered /\ CopyDone

(* The script asks for a piece, or has all of them.                        *)
LEMMA PieceMakes ==
  ASSUME CopyTaken, Pieces, NEW r \in FileRequest, Makes(r)
  PROVE  Pieces'
<1>0. CallTypes /\ DiskTypes /\ AnswerTypes /\ Settled /\ Alone /\ PieceAnswered
  BY DEF CopyTaken, Pieces
<1>1. /\ NO_CONNECTION < 0 /\ NO_CONNECTION \in Int
      /\ \A n \in Int : n > 0 \/ n = SUCCESS => n \notin NoAnswer
  BY DEF SUCCESS, NoAnswer, TIMEOUT_EXPIRED, NO_CONNECTION
<1>2. /\ UNCHANGED <<disk, job>> /\ script'.pc # "copied"
      /\ \/ rpcs' = Append(rpcs, r)
         \/ UNCHANGED rpcs /\ call'.state = "answered" /\ call'.num = NO_CONNECTION
  BY <1>1 DEF Makes, Sends, Places
<1>3. CopyDone'
  BY <1>2 DEF CopyDone
<1>4. PieceAnswered'
  <2>1. call'.state = "answered" => call'.num = NO_CONNECTION
    BY DEF Makes, Sends
  <2>2. call'.state = "answered" => ~(call'.num >= 0)
    BY <1>1, <2>1
  <2>. QED
    BY <2>2 DEF PieceAnswered
<1>5. ASSUME script'.pc \in {"first", "more"}
      PROVE  /\ call.state = "answered" /\ script'.file = script.file
             /\ disk[script.file] \in Content /\ Still
             /\ script'.pc = "first" => r.arg.offset = 0
             /\ script'.pc = "more" =>
                  Copying /\ call.num > 0 /\ r.arg.offset = call.num /\ Gains /\ UNCHANGED first
  <2>1. /\ call.state = "answered" /\ script'.file = script.file
        /\ script'.pc = "first" => script.pc = "exists" /\ call.num = SUCCESS /\ r.arg.offset = 0
        /\ script'.pc = "more" =>
             Copying /\ call.num > 0 /\ r.arg.offset = call.num /\ Gains /\ UNCHANGED first
    BY <1>5 DEF Makes, Continues
  <2>2. call.num \notin NoAnswer
    BY <1>0, <1>1, <1>5, <2>1 DEF AnswerTypes
  <2>. QED
    BY <1>0, <1>5, <2>1, <2>2 DEF Settled, Alone
<1>6. PieceRead'
  <2>1. script'.pc \in {"first", "more"} => job' = NoJob
    BY <1>2, <1>5 DEF Still
  <2>. QED
    BY <2>1 DEF PieceRead, Copying, NoJob
<1>7. PieceAsked'
  <2>. SUFFICES ASSUME script'.pc \in {"first", "more"}, call'.state = "waiting"
                PROVE  /\ \A i \in 1..Len(rpcs') : rpcs'[i].arg.offset = Got'
                       /\ script'.pc = "more" => /\ Begins(tmp', disk'[script'.file])
                                                 /\ Begins(first', disk'[script'.file])
                                                 /\ Len(tmp') <= MaxInt
    BY DEF PieceAsked, Copying
  <2>1. rpcs' = Append(rpcs, r) /\ rpcs = <<>>
    BY <1>2, <1>5 DEF Still
  <2>2. \A i \in 1..Len(rpcs') : rpcs'[i] = r
    <3>1. Len(rpcs) = 0
      BY <2>1, Contents
    <3>. QED
      BY <1>0, <2>1, <3>1, AfterCall
  <2>3. CASE script'.pc = "first"
    BY <1>5, <2>2, <2>3 DEF Got
  <2>4. CASE script'.pc = "more"
    <3>1. PICK d \in Content : d = disk[script.file] /\ d = disk'[script'.file]
      BY <1>2, <1>5, <2>4
    <3>2. /\ script.pc = "more" => Begins(tmp, d)
          /\ Follows(Got, call.text, d) /\ Begins(first, d)
          /\ call.num = Got + Len(call.text) /\ call.num <= MaxInt
      BY <1>0, <1>5, <2>4, <3>1 DEF PieceAnswered, AnswerTypes
    <3>3. Len(tmp') = Got + Len(call.text) /\ Begins(tmp', d)
      BY <1>0, <1>5, <2>4, <3>2, PieceGained
    <3>4. Got' = Len(tmp')
      BY <2>4 DEF Got
    <3>. QED
      BY <1>5, <2>2, <2>4, <3>1, <3>2, <3>3, <3>4
  <2>. QED
    BY <2>3, <2>4
<1>. QED
  BY <1>3, <1>4, <1>6, <1>7 DEF Pieces

LEMMA PieceArrives ==
  ASSUME CopyTaken, Pieces, Arrives
  PROVE  Pieces'
<1>0. DiskTypes /\ AnswerTypes /\ ScriptTypes /\ Alone /\ PieceAnswered
  BY DEF CopyTaken, Pieces
<1>1. /\ UNCHANGED <<disk, first>> /\ script'.pc = "copied" /\ script'.file = script.file
      /\ Copying /\ call.state = "answered" /\ call.num = 0 /\ Gains
  BY <1>0 DEF Arrives, callVars, ScriptTypes, Placed, Scripts
<1>2. PICK d \in Content : d = disk[script.file] /\ d = disk'[script'.file]
  BY <1>0, <1>1 DEF Alone
<1>3. /\ script.pc = "more" => Begins(tmp, d)
      /\ Follows(Got, call.text, d) /\ Begins(first, d)
      /\ Len(first) <= Got + Len(call.text)
  BY <1>0, <1>1, <1>2 DEF PieceAnswered
<1>4. Len(tmp') = Got + Len(call.text) /\ Begins(tmp', d)
  BY <1>0, <1>1, <1>3, PieceGained
<1>5. CopyDone'
  BY <1>1, <1>2, <1>3, <1>4 DEF CopyDone
<1>6. PieceAsked' /\ PieceRead' /\ PieceAnswered'
  BY <1>1 DEF PieceAsked, PieceRead, PieceAnswered, Copying
<1>. QED
  BY <1>5, <1>6 DEF Pieces

(* The worker begins to read a piece.                                      *)
LEMMA PieceTaken ==
  ASSUME CopyTaken, Pieces,
         \/ BackupStarts \/ RestoreStarts \/ UpdateStarts
         \/ PieceStarts \/ FolderStarts \/ CommandStarts
  PROVE  Pieces'
<1>0. /\ CallTypes /\ ScriptTypes /\ AnswerTypes /\ DiskTypes
      /\ Awaited /\ Asked /\ Settled /\ Alone /\ PieceAsked /\ PieceAnswered /\ CopyDone
  BY DEF CopyTaken, Pieces
<1>1. /\ Takes /\ UNCHANGED <<script, call, tmp>>
      /\ Taken.rpc = "file_content" => PieceStarts
  BY DEF BackupStarts, RestoreStarts, UpdateStarts, PieceStarts, FolderStarts,
         CommandStarts, Starts, scriptSide
<1>2. /\ ~Still /\ script.pc # "copied"
      /\ call.state = "answered" => call.num \in NoAnswer
      /\ Copying => Taken.rpc = "file_content"
      /\ Copying /\ call.state = "waiting" => Taken.arg.file = script.file
  BY <1>0, <1>1, OnlyPieces
<1>3. \A n \in NoAnswer : ~(n >= 0)
  BY DEF NoAnswer, TIMEOUT_EXPIRED, NO_CONNECTION
<1>4. CopyDone' /\ PieceAnswered'
  BY <1>1, <1>2, <1>3 DEF CopyDone, PieceAnswered
<1>5. CASE ~(Copying /\ call.state = "waiting")
  <2>1. PieceAsked' /\ PieceRead'
    BY <1>1, <1>5 DEF PieceAsked, PieceRead, Copying
  <2>. QED
    BY <1>4, <2>1 DEF Pieces
<1>6. CASE Copying /\ call.state = "waiting"
  <2>1. PICK d \in Content : d = disk[script.file]
    BY <1>0, <1>6 DEF Alone
  <2>2. /\ UNCHANGED disk /\ job'.offset = Taken.arg.offset /\ job'.step = "read"
        /\ job'.len = PieceLength(Len(d), Taken.arg.offset)
        /\ first' = IF Taken.arg.offset = 0 THEN d ELSE first
    BY <1>1, <1>2, <1>6, <2>1 DEF PieceStarts
  <2>3. /\ Taken = rpcs[1] /\ 1 \in 1..Len(rpcs)
        /\ \A i \in 1..Len(rpcs') : i + 1 \in 1..Len(rpcs) /\ rpcs'[i] = rpcs[i + 1]
    BY <1>0, <1>1, AfterTakes
  <2>4. /\ Taken.arg.offset = Got
        /\ \A i \in 1..Len(rpcs') : rpcs'[i].arg.offset = Got
        /\ script.pc = "more" => Begins(tmp, d) /\ Begins(first, d) /\ Len(tmp) <= MaxInt
    BY <1>0, <1>6, <2>1, <2>3 DEF PieceAsked
  <2>5. Got \in Nat /\ Got <= Len(d) /\ Len(d) \in Nat
    <3>1. script.pc = "more" => tmp \in Content
      BY <1>0 DEF DiskTypes
    <3>2. CASE script.pc = "more"
      BY <2>4, <3>1, <3>2, Contents DEF Got, Begins
    <3>3. CASE script.pc = "first"
      BY <3>3, Contents DEF Got
    <3>. QED
      BY <1>6, <3>2, <3>3 DEF Copying
  <2>6. /\ job'.len \in Nat /\ job'.len <= MaxPiece
        /\ Got + job'.len <= Len(d)
        /\ Got + job'.len = 0 => Len(d) = 0
    BY <2>2, <2>4, <2>5, PieceLengths
  <2>7. Begins(first', d) /\ (Got + job'.len = 0 => Len(first') = 0)
    <3>1. CASE Got = 0
      BY <2>1, <2>2, <2>4, <2>6, <3>1, Beginnings
    <3>2. CASE Got # 0
      <4>1. script.pc = "more"
        BY <1>6, <3>2 DEF Got, Copying
      <4>. QED
        BY <2>2, <2>4, <2>5, <2>6, <3>2, <4>1
    <3>. QED
      BY <3>1, <3>2
  <2>8. Got' = Got
    BY <1>1 DEF Got
  <2>9. PieceAsked'
    BY <1>1, <2>1, <2>2, <2>4, <2>7, <2>8 DEF PieceAsked, Copying
  <2>10. PieceRead'
    BY <1>1, <2>1, <2>2, <2>4, <2>6, <2>7, <2>8 DEF PieceRead
  <2>. QED
    BY <1>4, <2>9, <2>10 DEF Pieces
<1>. QED
  BY <1>5, <1>6

(* The worker reads the piece.                                             *)
LEMMA PieceReads ==
  ASSUME CopyTaken, Pieces, Deletes \/ Reads \/ Walked
  PROVE  Pieces'
<1>0. /\ CallTypes /\ ScriptTypes /\ Awaited /\ Asked /\ Settled /\ Alone
      /\ PieceAsked /\ PieceRead /\ PieceAnswered /\ CopyDone
  BY DEF CopyTaken, Pieces
<1>1. /\ UNCHANGED <<script, call, tmp, rpcs, first>> /\ job.rpc # "none"
      /\ job.rpc = "file_content" => Reads
  BY DEF Deletes, Reads, Walked, Works, scriptSide
<1>2. /\ ~Still /\ script.pc # "copied"
      /\ call.state = "answered" => call.num \in NoAnswer
      /\ Copying => job.rpc = "file_content"
      /\ Copying /\ call.state = "waiting" => job.file = script.file
  BY <1>0, <1>1, OnlyPieces
<1>3. \A n \in NoAnswer : ~(n >= 0)
  BY DEF NoAnswer, TIMEOUT_EXPIRED, NO_CONNECTION
<1>4. CopyDone' /\ PieceAnswered'
  BY <1>1, <1>2, <1>3 DEF CopyDone, PieceAnswered
<1>5. CASE ~(Copying /\ call.state = "waiting")
  <2>1. PieceAsked' /\ PieceRead'
    BY <1>1, <1>5 DEF PieceAsked, PieceRead, Copying
  <2>. QED
    BY <1>4, <2>1 DEF Pieces
<1>6. CASE Copying /\ call.state = "waiting"
  <2>1. PICK d \in Content : d = disk[script.file]
    BY <1>0, <1>6 DEF Alone
  <2>2. /\ UNCHANGED disk /\ job'.offset = job.offset /\ job'.len = job.len
        /\ Len(job'.text) = job.len
        /\ \A i \in 1..job.len : job.offset + i <= Len(d) => job'.text[i] = d[job.offset + i]
    BY <1>1, <1>2, <1>6, <2>1 DEF Reads
  <2>3. /\ job.offset = Got /\ job.len <= MaxPiece
        /\ job.offset + job.len <= Len(d)
        /\ Begins(first, d)
        /\ job.offset + job.len = 0 => Len(first) = 0
    BY <1>0, <1>2, <1>6, <2>1 DEF PieceRead
  <2>4. job.offset \in Nat /\ job.len \in Nat /\ Len(d) \in Nat
    <3>1. job \in ContentJobs
      BY <1>0, <1>2, <1>6, Shapes DEF CallTypes
    <3>. QED
      BY <3>1, Contents DEF ContentJobs
  <2>5. Follows(job.offset, job'.text, d)
    <3>1. \A i \in 1..job.len : job.offset + i <= Len(d)
      BY <2>3, <2>4
    <3>. QED
      BY <2>2, <2>3, <3>1 DEF Follows
  <2>6. Got' = Got
    BY <1>1 DEF Got
  <2>7. PieceAsked'
    BY <1>0, <1>1, <2>2, <2>6 DEF PieceAsked, Copying
  <2>8. PieceRead'
    BY <1>1, <2>1, <2>2, <2>3, <2>5, <2>6 DEF PieceRead
  <2>. QED
    BY <1>4, <2>7, <2>8 DEF Pieces
<1>. QED
  BY <1>5, <1>6

(* The worker sends it.                                                    *)
LEMMA PieceSent ==
  ASSUME CopyTaken, Pieces,
         ReadEnds \/ \E num \in {SUCCESS, FAILED} : Closes(num) \/ WalkEnds(num) \/ Done(num)
  PROVE  Pieces'
<1>0. /\ CallTypes /\ ScriptTypes /\ DiskTypes /\ Awaited /\ Asked /\ Settled /\ Alone
      /\ PieceAsked /\ PieceRead /\ PieceAnswered /\ CopyDone
  BY DEF CopyTaken, Pieces
<1>1. /\ UNCHANGED <<script, tmp, rpcs, first>> /\ job.rpc # "none" /\ job' = NoJob
      /\ UNCHANGED call \/ call'.state = "answered"
      /\ ~job.waiting => UNCHANGED call
      /\ job.waiting => call'.state = "answered"
      /\ job.rpc = "file_content" => ReadEnds
  BY DEF ReadEnds, Closes, WalkEnds, Done, Responds, Respond, Answered, scriptSide, Streaming
<1>2. /\ ~Still /\ script.pc # "copied"
      /\ call.state = "answered" => call.num \in NoAnswer
      /\ Copying => job.rpc = "file_content"
      /\ Copying /\ call.state = "waiting" => job.waiting /\ job.file = script.file
  BY <1>0, <1>1, OnlyPieces
<1>3. \A n \in NoAnswer : ~(n >= 0)
  BY DEF NoAnswer, TIMEOUT_EXPIRED, NO_CONNECTION
<1>4. CopyDone' /\ PieceAsked' /\ PieceRead'
  <2>1. Copying => call'.state # "waiting"
    BY <1>1, <1>2
  <2>. QED
    BY <1>1, <1>2, <2>1 DEF CopyDone, PieceAsked, PieceRead, Copying
<1>5. CASE ~Copying \/ UNCHANGED call
  <2>1. PieceAnswered'
    BY <1>1, <1>2, <1>3, <1>5 DEF PieceAnswered, Copying
  <2>. QED
    BY <1>4, <2>1 DEF Pieces
<1>6. CASE Copying /\ job.waiting
  <2>1. PICK d \in Content : d = disk[script.file]
    BY <1>0, <1>6 DEF Alone
  <2>2. call.state = "waiting"
    BY <1>0, <1>6 DEF Awaited
  <2>3. PICK num : /\ num = IF job.len + job.offset = Len(d) THEN SUCCESS
                            ELSE Narrow(job.len + job.offset)
                   /\ call'.num = num /\ call'.text = job.text
                   /\ UNCHANGED disk /\ job.step = "end"
    BY <1>1, <1>2, <1>6, <2>1, <2>2 DEF ReadEnds, Responds, Respond, Answered
  <2>4. /\ job.offset = Got /\ job.len <= MaxPiece
        /\ Begins(first, d)
        /\ job.offset + job.len = 0 => Len(first) = 0
        /\ Follows(job.offset, job.text, d) /\ Len(job.text) = job.len
        /\ script.pc = "more" => Begins(tmp, d) /\ Len(tmp) <= MaxInt
    BY <1>0, <1>2, <1>6, <2>1, <2>2, <2>3 DEF PieceRead, PieceAsked
  <2>5. job.offset \in Nat /\ job.len \in Nat /\ Len(d) \in Nat /\ Len(first) \in Nat
    <3>1. job \in ContentJobs
      BY <1>0, <1>2, <1>6, Shapes DEF CallTypes
    <3>2. first \in Content
      BY <1>0 DEF DiskTypes
    <3>. QED
      BY <3>1, <3>2, Contents DEF ContentJobs
  <2>6. job.offset <= MaxInt /\ MaxInt \in Nat /\ MaxPiece <= MaxInt /\ MaxPiece \in Nat
    BY <1>6, <2>4, FilesAssumption DEF Got, Copying
  <2>. DEFINE next == job.len + job.offset
  <2>7. next \in Nat /\ next <= 2 * MaxInt /\ next = job.offset + job.len
    BY <2>4, <2>5, <2>6
  <2>8. num = IF next = Len(d) THEN 0 ELSE Narrow(next)
    BY <2>3 DEF SUCCESS
  <2>9. Len(first) <= Len(d)
    BY <2>4 DEF Begins
  <2>. HIDE DEF next
  <2>10. /\ Narrow(next) \in Int
         /\ next <= MaxInt => Narrow(next) = next
         /\ next > MaxInt => Narrow(next) < 0
    BY <2>7, Narrows
  <2>11. ASSUME num >= 0
         PROVE  /\ num > 0 => num = next /\ num <= MaxInt
                /\ num = 0 => Len(first) <= next
    <3>1. CASE next = Len(d)
      BY <2>7, <2>8, <2>9, <3>1
    <3>2. CASE next # Len(d)
      <4>1. num = Narrow(next) /\ next <= MaxInt
        BY <2>6, <2>7, <2>8, <2>10, <2>11, <3>2
      <4>2. num = next
        BY <2>10, <4>1
      <4>. QED
        BY <2>4, <2>5, <2>7, <4>1, <4>2
    <3>. QED
      BY <3>1, <3>2
  <2>12. Got' = Got
    BY <1>1 DEF Got
  <2>13. PieceAnswered'
    BY <1>1, <2>1, <2>3, <2>4, <2>7, <2>11, <2>12 DEF PieceAnswered
  <2>. QED
    BY <1>4, <2>13 DEF Pieces
<1>. QED
  BY <1>1, <1>5, <1>6

(* Nothing else disturbs the copy.                                         *)
LEMMA PieceBeside ==
  ASSUME CopyTaken, Pieces, Beside, "shrink" \notin seen'
  PROVE  Pieces'
<1>0. /\ ScriptTypes /\ AnswerTypes /\ DiskTypes /\ CallTypes /\ Alone
      /\ PieceAsked /\ PieceRead /\ PieceAnswered /\ CopyDone
  BY DEF CopyTaken, Pieces
<1>1. UNCHANGED <<script, call, rpcs, job, tmp, first>>
  BY DEF Beside
<1>2. UNCHANGED disk \/ disk' = [disk EXCEPT ![Log] = Append(@, "s")]
  BY DEF Beside
<1>3. Got' = Got
  BY <1>1 DEF Got
<1>4. CASE ~Copying /\ script.pc # "copied"
  BY <1>1, <1>4 DEF Pieces, PieceAsked, PieceRead, PieceAnswered, CopyDone, Copying
<1>5. CASE Copying \/ script.pc = "copied"
  <2>1. PICK d \in Content : d = disk[script.file]
    BY <1>0, <1>5 DEF Alone
  <2>2. disk'[script.file] \in {d, Append(d, "s")}
    <3>1. script.file \in {Cfg, Log}
      BY <1>0 DEF ScriptTypes, Placed, Scripts
    <3>. QED
      BY <1>0, <1>2, <2>1, <3>1, FileNames DEF DiskTypes
  <2>3. PICK e : e = disk'[script.file] /\ e \in {d, Append(d, "s")}
    BY <2>2
  <2>4. /\ first \in Content /\ call.text \in Content
        /\ script.pc \in {"more", "copied"} => tmp \in Content
        /\ job.rpc = "file_content" => job.text \in Content /\ job.offset \in Nat /\ job.len \in Nat
    BY <1>0, Shapes DEF DiskTypes, AnswerTypes, CallTypes, ContentJobs
  <2>5. Copying => Got \in Nat
    BY <2>4, Contents DEF Got, Copying
  <2>6. Len(d) \in Nat /\ Len(e) \in Nat /\ Len(d) <= Len(e)
    <3>1. Len(d) \in Nat /\ Len(Append(d, "s")) = Len(d) + 1
      BY Beginnings, Contents
    <3>. QED
      BY <2>3, <3>1
  <2>7. /\ \A s \in Content : Begins(s, d) => Begins(s, e)
        /\ \A t \in Content, n \in Nat : Follows(n, t, d) => Follows(n, t, e)
    <3>1. CASE e = d
      BY <3>1
    <3>2. CASE e = Append(d, "s")
      <4>1. ASSUME NEW s \in Content, Begins(s, d)
            PROVE  Begins(s, Append(d, "s"))
        BY <4>1, Beginnings
      <4>2. ASSUME NEW t \in Content, NEW n \in Nat, Follows(n, t, d)
            PROVE  Follows(n, t, Append(d, "s"))
        BY <4>2, Beginnings
      <4>. QED
        BY <3>2, <4>1, <4>2
    <3>. QED
      BY <2>3, <3>1, <3>2
  <2>8. PieceAsked'
    BY <1>0, <1>1, <1>3, <2>1, <2>3, <2>4, <2>7 DEF PieceAsked, Copying
  <2>9. PieceRead'
    <3>. SUFFICES ASSUME Copying, call.state = "waiting", job.rpc = "file_content"
                  PROVE  /\ job.offset = Got /\ job.len <= MaxPiece
                         /\ job.offset + job.len <= Len(e)
                         /\ Begins(first, e)
                         /\ job.offset + job.len = 0 => Len(first) = 0
                         /\ job.step = "end" =>
                              Follows(job.offset, job.text, e) /\ Len(job.text) = job.len
      BY <1>1, <1>3, <2>3 DEF PieceRead, Copying
    <3>. QED
      BY <1>0, <2>1, <2>4, <2>6, <2>7 DEF PieceRead
  <2>10. PieceAnswered'
    BY <1>0, <1>1, <1>3, <2>1, <2>3, <2>4, <2>5, <2>7 DEF PieceAnswered, Copying
  <2>11. CopyDone'
    BY <1>0, <1>1, <2>1, <2>3, <2>4, <2>7 DEF CopyDone
  <2>. QED
    BY <2>8, <2>9, <2>10, <2>11 DEF Pieces
<1>. QED
  BY <1>4, <1>5

(* What is copied is the file.                                             *)
LEMMA CopyKeptStep ==
  ASSUME CopyTaken, CopyKept, Step
  PROVE  CopyKept'
<1>. SUFFICES ASSUME "shrink" \notin seen'
              PROVE  Pieces'
  BY DEF CopyKept, Pieces
<1>1. Pieces
  BY SeenGrows DEF CopyKept, Pieces
<1>2. /\ NoScript.pc = "idle" /\ NoJob.rpc = "none"
      /\ \A n \in NoAnswer : ~(n >= 0)
      /\ ~(TIMEOUT_EXPIRED >= 0) /\ ~(FAILED >= 0)
  BY DEF NoScript, NoJob, NoAnswer, TIMEOUT_EXPIRED, NO_CONNECTION, FAILED
<1>3. CASE Finishes \/ Quits
  <2>1. script'.pc = "idle"
    BY <1>2, <1>3 DEF Finishes, Quits
  <2>. QED
    BY <2>1 DEF Pieces, PieceAsked, PieceRead, PieceAnswered, CopyDone, Copying
<1>4. CASE TimesOut
  <2>1. /\ call.state = "waiting" /\ UNCHANGED script
        /\ call'.state = "answered" /\ call'.num = TIMEOUT_EXPIRED
    BY <1>4 DEF TimesOut
  <2>2. script.pc # "copied"
    BY <2>1 DEF CopyTaken, ScriptTypes
  <2>. QED
    BY <1>2, <2>1, <2>2 DEF Pieces, PieceAsked, PieceRead, PieceAnswered, CopyDone
<1>5. ASSUME NEW num \in {SUCCESS, FAILED}, Answers(num)
      PROVE  Pieces'
  <2>1. /\ Takes /\ UNCHANGED script /\ job' = NoJob
        /\ ~Taken.waiting => UNCHANGED call
        /\ Taken.waiting => call'.state = "answered" /\ call'.num = num
        /\ Taken.rpc = "file_content" => num = FAILED
    BY <1>5 DEF Answers, Respond, Answered, scriptSide
  <2>2. /\ script.pc # "copied"
        /\ call.state = "answered" => call.num \in NoAnswer
        /\ Copying => Taken.rpc = "file_content"
        /\ Copying /\ call.state = "waiting" => Taken.waiting
    BY <2>1, OnlyPieces DEF CopyTaken
  <2>3. Copying => call'.state # "waiting" /\ ~(call'.state = "answered" /\ call'.num >= 0)
    BY <1>2, <2>1, <2>2
  <2>. QED
    BY <2>1, <2>2, <2>3 DEF Pieces, PieceAsked, PieceRead, PieceAnswered, CopyDone, Copying
<1>6. CASE Loses
  <2>1. rpcs' = <<>> /\ job' = NoJob /\ UNCHANGED <<script, call, disk, tmp, first>>
    BY <1>6 DEF Loses
  <2>2. \A i \in 1..Len(rpcs') : FALSE
    BY <2>1, Contents
  <2>3. PieceRead'
    BY <1>2, <2>1 DEF PieceRead
  <2>4. Got' = Got
    BY <2>1 DEF Got
  <2>5. PieceAsked' /\ PieceAnswered' /\ CopyDone'
    BY <1>1, <2>1, <2>2, <2>4 DEF Pieces, PieceAsked, PieceAnswered, CopyDone, Copying
  <2>. QED
    BY <2>3, <2>5 DEF Pieces
<1>. QED
  BY <1>1, <1>3, <1>4, <1>5, <1>6, PieceMakes, PieceArrives, PieceTaken, PieceReads, PieceSent,
     PieceBeside DEF Step

(* A beginning is a prefix.                                                *)
LEMMA BeginIsPrefix ==
  /\ \A c \in Content, s \in Content : Begins(s, c) => IsPrefix(s, c)
  /\ \A c \in Content, s \in Content, t \in Content :
       Begins(s, c) /\ Begins(t, c) /\ Len(s) <= Len(t) => Begins(s, t)
<1>. DEFINE S == Block
<1>0. Content = Seq(S)
  BY DEF Content, Block
<1>. HIDE DEF S
<1>1. ASSUME NEW u \in Seq(S), NEW v \in Seq(S), Len(u) = Len(v),
             \A i \in 1..Len(u) : u[i] = v[i]
      PROVE  u = v
  BY <1>1
<1>2. ASSUME NEW c \in Seq(S), NEW s \in Seq(S), Begins(s, c)
      PROVE  IsPrefix(s, c)
  <2>. DEFINE u == SubSeq(s, 1, Len(s))
              v == SubSeq(c, 1, Len(s))
  <2>1. Len(s) \in Nat /\ Len(c) \in Nat /\ Len(s) <= Len(c)
    BY <1>2 DEF Begins
  <2>2. u \in Seq(S) /\ Len(u) = Len(s) /\ \A i \in 1..Len(s) : u[i] = s[i]
    BY <2>1
  <2>3. v \in Seq(S) /\ Len(v) = Len(s) /\ \A i \in 1..Len(s) : v[i] = c[i]
    BY <2>1
  <2>. HIDE DEF u, v
  <2>4. \A i \in 1..Len(u) : u[i] = v[i]
    BY <1>2, <2>2, <2>3 DEF Begins
  <2>5. u = v
    BY <1>1, <2>2, <2>3, <2>4
  <2>. QED
    BY <2>1, <2>5 DEF IsPrefix, u, v
<1>3. ASSUME NEW c \in Seq(S), NEW s \in Seq(S), NEW t \in Seq(S),
             Begins(s, c), Begins(t, c), Len(s) <= Len(t)
      PROVE  Begins(s, t)
  <2>1. \A i \in 1..Len(s) : i \in 1..Len(t)
    BY <1>3
  <2>. QED
    BY <1>3, <2>1 DEF Begins
<1>. QED
  BY <1>0, <1>2, <1>3

-----------------------------------------------------------------------------
(* The invariant.                                                          *)

LEMMA InvInit ==
  ASSUME Init
  PROVE  Inv
<1>1. /\ client = "none" /\ call = NoCall /\ server = TRUE /\ rpcs = <<>> /\ job = NoJob
      /\ tree = Nodes \ {Extra} /\ tmp = Absent /\ script = NoScript /\ guarded = FALSE
      /\ last = NoLast /\ first = <<>> /\ seen = {}
      /\ original \in Originals
      /\ disk = [n \in Names |-> CASE n = Cfg -> original [] n = Log -> <<>> [] OTHER -> Absent]
  BY DEF Init, CallInit
<1>2. /\ rpcs \in Seq(FileRequest) /\ \A i \in 1..Len(rpcs) : FALSE
      /\ NoJob.rpc = "none" /\ NoJob.waiting = FALSE
      /\ NoCall.state = "idle" /\ NoCall.num \in Int /\ NoCall.text = <<>> /\ <<>> \in Content
      /\ NoScript.op = "none" /\ NoScript.pc = "idle" /\ NoScript \in Placed
      /\ NoLast.op = "none"
  <2>1. <<>> \in Seq(FileRequest)
    OBVIOUS
  <2>. QED
    BY <1>1, <2>1, Contents DEF NoJob, NoCall, NoScript, NoLast, Placed, Scripts, SUCCESS
<1>3. original \in {Absent} \cup Content
  <2>1. ASSUME NEW c \in Seq({"o"})
        PROVE  c \in Content
    <3>1. \A i \in 1..Len(c) : c[i] \in Block
      BY DEF Block
    <3>2. c \in [1..Len(c) -> Block] /\ Len(c) \in Nat
      BY <3>1
    <3>3. c \in Seq(Block)
      BY <3>2
    <3>. QED
      BY <3>3 DEF Content, Block
  <2>. QED
    BY <1>1, <2>1, FilesAssumption
<1>4. /\ disk \in [Names -> {Absent} \cup Content]
      /\ disk[Cfg] = original /\ disk[Log] = <<>> /\ disk[Bak] = Absent
  BY <1>1, <1>2, <1>3, FileNames
<1>5. CallTypes /\ ScriptTypes /\ AnswerTypes /\ DiskTypes /\ ClientTypes
  BY <1>1, <1>2, <1>3, <1>4 DEF CallTypes, ScriptTypes, AnswerTypes, DiskTypes, ClientTypes, Jobs
<1>6. Awaited /\ Held /\ Asked /\ Settled
  BY <1>1, <1>2 DEF Awaited, Held, Asked, Settled
<1>7. Kept /\ SetGuarded /\ Troubles
  <2>1. Orig
    BY <1>4 DEF Orig
  <2>2. JobKept /\ RestoreFirst /\ BackupNext /\ WritesLast
    BY <1>1, <1>2, <2>1 DEF JobKept, RestoreFirst, BackupNext, WritesLast
  <2>3. Guarded /\ OriginKnown /\ Restoring /\ Restored
    BY <1>1, <1>2 DEF Guarded, OriginKnown, Restoring, Restored, Connected
  <2>4. SetGuarded /\ Troubles
    BY <1>1, <1>2 DEF SetGuarded, Troubles
  <2>. QED
    BY <2>2, <2>3, <2>4 DEF Kept, Safe
<1>8. Alone /\ CopyKept
  BY <1>1, <1>2 DEF Alone, CopyKept, PieceAsked, PieceRead, PieceAnswered, CopyDone, Copying
<1>9. TreeKept
  BY <1>1, <1>2, FilesAssumption DEF TreeKept, Nodes
<1>10. FolderTold
  BY <1>1, <1>2 DEF FolderTold
<1>. QED
  BY <1>5, <1>6, <1>7, <1>8, <1>9, <1>10 DEF Inv

LEMMA InvStep ==
  ASSUME Inv, [Next]_vars
  PROVE  Inv'
<1>0. /\ CallTypes /\ ScriptTypes /\ AnswerTypes /\ DiskTypes /\ ClientTypes
      /\ Awaited /\ Held /\ Asked /\ Settled /\ Kept /\ SetGuarded /\ Troubles
      /\ Alone /\ CopyKept /\ TreeKept /\ FolderTold
  BY DEF Inv
<1>1. Step
  <2>1. CASE UNCHANGED vars
    BY <2>1 DEF vars, callVars, Beside, Step
  <2>. QED
    BY <1>0, <2>1, Steps
<1>2. CallStep
  BY <1>0, <1>1, CallSteps
<1>3. CallTypes' /\ AnswerTypes' /\ ScriptTypes' /\ ClientTypes'
  BY <1>0, <1>2, CallTypesStep, ScriptTypesStep
<1>4. DiskTypes'
  BY <1>0, <1>1, DiskTypesStep
<1>5. Awaited' /\ Held' /\ Asked' /\ Settled' /\ SetGuarded'
  BY <1>0, <1>2, AwaitedStep, SettledStep, SetGuardedStep
<1>6. Kept' /\ Troubles'
  BY <1>0, <1>1, KeptStep, TroublesStep DEF CallsKept
<1>7. Alone' /\ CopyKept'
  BY <1>0, <1>1, AloneStep, CopyKeptStep DEF CopyTaken
<1>8. TreeKept' /\ FolderTold'
  BY <1>0, <1>1, TreeKeptStep, FolderToldStep
<1>. QED
  BY <1>3, <1>4, <1>5, <1>6, <1>7, <1>8 DEF Inv

(* The inductive invariant holds: in every reachable state of the script,  *)
(* of the calls of RemoteClient (content_call, file_call) and of the worker*)
(* with the functions of UtilsManager.                                     *)
THEOREM Invariant == Spec => []Inv
<1>1. Init => Inv
  BY InvInit
<1>2. Inv /\ [Next]_vars => Inv'
  BY InvStep
<1>. QED
  BY <1>1, <1>2, PTL DEF Spec

-----------------------------------------------------------------------------
(* The properties.                                                         *)

(* Files, the copy in /tmp and the folder stay what they can be; the script*)
(* waits exactly while a call is with the server that it is connected to   *)
(* (RemoteClient::content_call is synchronous, one worker serves).         *)
THEOREM TypeCorrect == Spec => []TypeOK
<1>1. ASSUME Inv
      PROVE  TypeOK
  <2>1. /\ CallTypes /\ ScriptTypes /\ AnswerTypes /\ DiskTypes /\ ClientTypes
        /\ Awaited /\ Held /\ TreeKept
    BY <1>1 DEF Inv
  <2>2. DOMAIN rpcs = 1..Len(rpcs)
    BY <2>1 DEF CallTypes
  <2>3. job.waiting \in BOOLEAN
    BY <2>1, Shapes DEF CallTypes
  <2>4. (call.state = "waiting" /\ Connected) <=>
           (job.waiting \/ \E i \in DOMAIN rpcs : rpcs[i].waiting)
    BY <2>1, <2>2, <2>3 DEF Awaited, Held
  <2>5. /\ \A n \in Names : disk[n] = Absent \/ disk[n] \in Content
        /\ tmp = Absent \/ tmp \in Content
    BY <2>1 DEF DiskTypes
  <2>. QED
    BY <2>1, <2>4, <2>5 DEF TypeOK, ScriptTypes, AnswerTypes, ClientTypes, TreeKept
<1>. QED
  BY <1>1, Invariant, PTL

(* The configuration of before the first run is never lost (SDL.lua:225,   *)
(* FileBackup and FileRestore of utils_manager.cc), wherever ATF is aborted*)
(* and however often it is run again, unless the call for a leftover timed *)
(* out, the server died in a copy, a write failed or there was no file; and*)
(* a restore of which no call got lost has brought it back.                *)
THEOREM BackupKeptCorrect == Spec => []BackupKept
<1>1. ASSUME Inv
      PROVE  BackupKept
  <2>1. Kept /\ Troubles /\ CallTypes
    BY <1>1 DEF Inv
  <2>2. OriginalKept
    <3>1. CASE Lost
      BY <3>1 DEF Lost, OriginalKept
    <3>2. CASE ~Lost
      <4>1. JobKept
        BY <2>1, <3>2 DEF Kept, Safe
      <4>2. \/ original \in {disk[Cfg], disk[Bak]}
            \/ job.rpc = "file_restore" /\ job.data = original
        BY <4>1 DEF JobKept, Saved, Orig, Streaming
      <4>. QED
        BY <4>2, FileNames DEF OriginalKept
    <3>. QED
      BY <3>1, <3>2
  <2>3. RestoreTrue
    <3>. SUFFICES ASSUME last.op = "restore",
                         seen \cap {"slow", "server", "disk", "missing"} = {}
                  PROVE  disk[Cfg] = original /\ disk[Origin(Cfg)] = Absent
      BY DEF RestoreTrue
    <3>1. ~Trouble
      BY DEF Trouble
    <3>2. last.num \notin NoAnswer /\ ~Lost
      BY <2>1, <3>1 DEF Troubles, Lost
    <3>3. Orig
      BY <2>1, <3>2 DEF Kept, Safe, Restored
    <3>. QED
      BY <3>3, FileNames DEF Orig
  <2>. QED
    BY <2>2, <2>3 DEF BackupKept
<1>. QED
  BY <1>1, Invariant, PTL

(* A copy that file_call (remote_client.cc:40) calls complete is what the  *)
(* file was at some moment of the call, for any lengths of a piece and of  *)
(* an int and however SDL appends to it; and after folder_delete           *)
(* (utils_manager.cc:597) the script is told what happened to the folder.  *)
THEOREM ResultsCorrect == Spec => []ResultsTrue
<1>1. ASSUME Inv
      PROVE  ResultsTrue
  <2>1. CopyKept /\ Alone /\ DiskTypes /\ FolderTold
    BY <1>1 DEF Inv
  <2>2. CopyTrue
    <3>. SUFFICES ASSUME script.pc = "copied", "shrink" \notin seen
                  PROVE  IsPrefix(first, tmp) /\ IsPrefix(tmp, disk[script.file])
      BY DEF CopyTrue
    <3>1. PICK d \in Content : d = disk[script.file]
      BY <2>1 DEF Alone
    <3>2. first \in Content /\ tmp \in Content
      BY <2>1 DEF DiskTypes
    <3>3. Begins(tmp, d) /\ Begins(first, d) /\ Len(first) <= Len(tmp)
      BY <2>1, <3>1 DEF CopyKept, CopyDone
    <3>4. Begins(first, tmp)
      BY <3>2, <3>3, BeginIsPrefix
    <3>5. IsPrefix(first, tmp) /\ IsPrefix(tmp, d)
      BY <3>2, <3>3, <3>4, BeginIsPrefix
    <3>. QED
      BY <3>1, <3>5
  <2>3. FolderDeleteTold
    BY <2>1 DEF FolderTold, Told, FolderDeleteTold
  <2>. QED
    BY <2>2, <2>3 DEF ResultsTrue
<1>. QED
  BY <1>1, Invariant, PTL
=============================================================================
