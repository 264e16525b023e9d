-------------------------- MODULE MessageDispatcher --------------------------
(***************************************************************************)
(* The way of a frame from a test script to the socket: FileConnection     *)
(* (modules/file_connection.lua) writes frames to a FileStorage, the       *)
(* MessageDispatcher (modules/message_dispatcher.lua) serves the storage   *)
(* and the FileStreams of StartStreaming round robin, and hands a frame to *)
(* the socket when the bytes the socket has not yet written leave room.    *)
(*                                                                         *)
(* A frame is its size in bytes.  A generator g owns file[g], the frames   *)
(* its file holds, and reads it in order: pos[g] frames have been read and *)
(* keep[g] says that the last of them waits in g.keep.  The rate limit of  *)
(* a stream is a flag: limited[g] is the test of FileStream:GetMessage on  *)
(* its bandwidth, which time makes false.                                  *)
(***************************************************************************)
EXTENDS Integers, Sequences, SequencesExt

CONSTANTS
  Storage,       \* the FileStorage of the connection
  Streams,       \* supply of FileStream objects
  FileOf,        \* FileOf[s]: the name of the file s streams
  Content,       \* Content[s]: the sizes of the frames s makes of its file
  Capacity,      \* FRAME_SIZE of config.defaultProtocolVersion
  FrameSizes,    \* sizes of the frames a script sends
  MayClose,      \* whether the script closes and reopens the connection
  Nil,
  MaxFrames,     \* bound: frames written to the storage
  MaxClose       \* bound: number of times the connection is closed

Generators == {Storage} \cup Streams
FileNames == {FileOf[s] : s \in Streams}

ASSUME GeneratorAssumption ==
  /\ Storage \notin Streams
  /\ Nil \notin Streams
  /\ Content \in [Streams -> Seq(Nat)]
  /\ \A s \in Streams : Content[s] # <<>>
ASSUME SizeAssumption ==
  /\ Capacity \in Nat
  /\ FrameSizes \subseteq Nat
  /\ MaxFrames \in Nat
  /\ MaxClose \in Nat
  /\ MayClose \in BOOLEAN

VARIABLES
  file, pos, keep,   \* the generators' files, see above
  limited,           \* streams that are over their bandwidth
  generators, idx,   \* MessageDispatcher.generators and .idx
  mapped,            \* FileConnection.mapped
  bufferSize,        \* MessageDispatcher.bufferSize: the room that is left
  timer,             \* whether the 250 ms timer runs
  inflight,          \* bytes given to the socket, bytesWritten still to come
  open, closes,      \* the socket, and how often it was closed
  sent               \* history: sent[g], the frames of g given to Send

genVars == <<file, pos, keep, limited, generators, idx, mapped>>
vars == <<genVars, bufferSize, timer, inflight, open, closes, sent>>

-----------------------------------------------------------------------------
(* The loop of bytesWritten                                                *)

(* The generator the loop asks in its i-th turn, the first after idx.      *)
Turn(G, i) ==
  LET first == IF idx < Len(G) THEN idx + 1 ELSE 1
  IN ((first + i - 2) % Len(G)) + 1

(* Mutant: a kept frame is forgotten, the next one is read.                *)
FrameSkipsKept(g) == pos[g] + 1

(* GetMessage: the frame a generator would return, the kept one first.     *)
Frame(g) == IF keep[g] THEN pos[g] ELSE pos[g] + 1
Offers(F, g) == ~limited[g] /\ Frame(g) <= Len(F[g])

(* Mutant: a frame is sent whatever room there is.                         *)
FitsAlways(F, g, credit) == Offers(F, g)

(* The frame is there and there is room for it.                            *)
Fits(F, g, credit) == Offers(F, g) /\ F[g][Frame(g)] <= credit

(* Mutant: a stream over its bandwidth does not ask for the timer.         *)
AskedWithoutTimer(F, G, n, kept, running) ==
  LET asked == {G[Turn(G, i)] : i \in 1..n}
      taken == {g \in asked : Offers(F, g)}
      read  == {g \in taken : ~keep[g]}
  IN /\ idx' = IF n = 0 THEN idx ELSE Turn(G, n)
     /\ pos' = [g \in Generators |-> IF g \in taken THEN Frame(g) ELSE pos[g]]
     /\ keep' = [g \in Generators |-> IF g \in taken THEN kept[g] ELSE keep[g]]
     /\ \E over \in SUBSET (read \cap Streams) :
           limited' = [g \in Generators |-> limited[g] \/ g \in over]
     /\ timer' = running

(* What GetMessage and KeepMessage leave when the turns 1..n were taken    *)
(* and kept is what the loop gave back.  Reading a chunk adds to           *)
(* bytesSent, which may put a stream over its bandwidth; a limited         *)
(* generator asks for the timer.                                           *)
Asked(F, G, n, kept, running) ==
  LET asked == {G[Turn(G, i)] : i \in 1..n}
      taken == {g \in asked : Offers(F, g)}
      read  == {g \in taken : ~keep[g]}
  IN /\ idx' = IF n = 0 THEN idx ELSE Turn(G, n)
     /\ pos' = [g \in Generators |-> IF g \in taken THEN Frame(g) ELSE pos[g]]
     /\ keep' = [g \in Generators |-> IF g \in taken THEN kept[g] ELSE keep[g]]
     /\ \E over \in SUBSET (read \cap Streams) :
           limited' = [g \in Generators |-> limited[g] \/ g \in over]
     /\ timer' = (running \/ \E g \in asked : limited[g])

(* Mutant: the room is not charged for what was sent.                      *)
ToSocketFree(g, size, credit) ==
  /\ bufferSize' = credit
  /\ sent' = [sent EXCEPT ![g] = Append(@, size)]

(* connection:Send of one frame.                                           *)
ToSocket(g, size, credit) ==
  /\ bufferSize' = credit - size
  /\ sent' = [sent EXCEPT ![g] = Append(@, size)]

(* bytesWritten with credit bytes of room, on files F and generators G:    *)
(* the first generator whose frame fits has it sent and ends the loop, the *)
(* frames that do not fit are kept.  pend: bytes that are in the socket; a *)
(* closed socket takes none.  There is always a generator, the storage.    *)
Pump(F, G, credit, pend, running) ==
  \/ \E i \in 1..Len(G) :
       LET g == G[Turn(G, i)]
           size == F[g][Frame(g)]
       IN /\ Fits(F, g, credit)
          /\ \A j \in 1..(i - 1) : ~Fits(F, G[Turn(G, j)], credit)
          /\ Asked(F, G, i, [x \in Generators |-> x # g], running)
          /\ ToSocket(g, size, credit)
          /\ inflight' = IF open THEN pend + size ELSE pend
  \/ /\ \A i \in 1..Len(G) : ~Fits(F, G[Turn(G, i)], credit)
     /\ Asked(F, G, Len(G), [x \in Generators |-> TRUE], running)
     /\ bufferSize' = credit
     /\ inflight' = pend
     /\ UNCHANGED sent

-----------------------------------------------------------------------------
(* Operations                                                              *)

(* FileConnection:Send: the frames go to the storage, then Pulse.          *)
Send(frames) ==
  LET F == [file EXCEPT ![Storage] = @ \o frames]
  IN /\ Len(F[Storage]) <= MaxFrames
     /\ file' = F
     /\ Pump(F, generators, bufferSize, inflight, timer)
     /\ UNCHANGED <<generators, mapped, open, closes>>

(* FileConnection:StartStreaming.  A new stream is over its bandwidth: no  *)
(* time has passed since its ts.                                           *)
StartStreaming(s) ==
  LET F == [file EXCEPT ![s] = Content[s]]
      G == Append(generators, s)
  IN /\ file[s] = <<>>
     /\ file' = F
     /\ generators' = G
     /\ mapped' = [mapped EXCEPT ![FileOf[s]] = s]
     /\ Pump(F, G, bufferSize, inflight, timer)
     /\ UNCHANGED <<open, closes>>

(* Mutant: the stream stays with the dispatcher.                           *)
StopStreamingKeepsGenerator(f) ==
  /\ mapped[f] # Nil
  /\ mapped' = [mapped EXCEPT ![f] = Nil]
  /\ UNCHANGED <<file, pos, keep, limited, generators, idx, bufferSize, timer,
                 inflight, open, closes, sent>>
(* FileConnection:StopStreaming and UnmapFile.                             *)
StopStreaming(f) ==
  /\ mapped[f] # Nil
  /\ mapped' = [mapped EXCEPT ![f] = Nil]
  /\ \E i \in 1..Len(generators) :
        generators[i] = mapped[f] /\ generators' = RemoveAt(generators, i)
  /\ UNCHANGED <<file, pos, keep, limited, idx, bufferSize, timer, inflight,
                 open, closes, sent>>


(* The socket reports c bytes written.                                     *)
BytesWritten(c) ==
  /\ c <= inflight
  /\ Pump(file, generators, bufferSize + c, inflight - c, timer)
  /\ UNCHANGED <<file, generators, mapped, open, closes>>

(* The single shot timer: bytesWritten(0).                                 *)
Timeout ==
  /\ timer
  /\ Pump(file, generators, bufferSize, inflight, FALSE)
  /\ UNCHANGED <<file, generators, mapped, open, closes>>

(* Time passes and a stream is within its bandwidth again.                 *)
Elapse(s) ==
  /\ limited[s] /\ file[s] # <<>>
  /\ limited' = [limited EXCEPT ![s] = FALSE]
  /\ UNCHANGED <<file, pos, keep, generators, idx, mapped, bufferSize, timer,
                 inflight, open, closes, sent>>

(* FileConnection:Close: of the bytes in the socket only some are still    *)
(* reported as written.                                                    *)
Close ==
  /\ MayClose /\ open /\ closes < MaxClose
  /\ open' = FALSE
  /\ closes' = closes + 1
  /\ inflight' \in 0..inflight
  /\ UNCHANGED <<genVars, bufferSize, timer, sent>>

(* FileConnection:Connect: the dispatcher is not told.                     *)
Connect ==
  /\ ~open
  /\ open' = TRUE
  /\ UNCHANGED <<genVars, bufferSize, timer, inflight, closes, sent>>

Init ==
  /\ file = [g \in Generators |-> <<>>]
  /\ pos = [g \in Generators |-> 0]
  /\ keep = [g \in Generators |-> FALSE]
  /\ limited = [g \in Generators |-> g \in Streams]
  /\ generators = <<Storage>>
  /\ idx = 0
  /\ mapped = [f \in FileNames |-> Nil]
  /\ bufferSize = Capacity
  /\ timer = FALSE
  /\ inflight = 0
  /\ open = TRUE
  /\ closes = 0
  /\ sent = [g \in Generators |-> <<>>]

(* A message is one frame or a first and a consecutive frame.              *)
Packs == {<<a>> : a \in FrameSizes} \cup {<<a, b>> : a, b \in FrameSizes}

Next ==
  \/ \E frames \in Packs : Send(frames)
  \/ \E s \in Streams : StartStreaming(s) \/ Elapse(s)
  \/ \E f \in FileNames : StopStreaming(f)
  \/ \E c \in 1..inflight : BytesWritten(c)
  \/ Timeout
  \/ Close
  \/ Connect

Spec == Init /\ [][Next]_vars

(* The operating system takes the bytes of an open socket, a Qt timer that *)
(* was started fires, and time passes.                                     *)
Fairness ==
  /\ WF_vars(\E c \in 1..inflight : BytesWritten(c))
  /\ WF_vars(Timeout)
  /\ WF_vars(Connect)
  /\ \A s \in Streams : WF_vars(Elapse(s))

FairSpec == Spec /\ Fairness

-----------------------------------------------------------------------------
(* Properties                                                              *)

(* Every variable keeps its type, and a generator reads no further than    *)
(* its file goes.                                                          *)
TypeOK ==
  /\ file \in [Generators -> Seq(Nat)]
  /\ pos \in [Generators -> Nat]
  /\ \A g \in Generators : pos[g] <= Len(file[g])
  /\ keep \in [Generators -> BOOLEAN]
  /\ limited \in [Generators -> BOOLEAN]
  /\ generators \in Seq(Generators)
  /\ idx \in Nat
  /\ mapped \in [FileNames -> Streams \cup {Nil}]
  /\ bufferSize \in Nat
  /\ timer \in BOOLEAN
  /\ inflight \in Nat
  /\ open \in BOOLEAN
  /\ closes \in Nat
  /\ sent \in [Generators -> Seq(Nat)]

(* Flow control: the socket never holds more than Capacity bytes, the room *)
(* is never overdrawn, and as long as the connection was never closed no   *)
(* byte of room is lost or invented by the frames, timers and bytesWritten *)
(* signals of any number of generators.                                    *)
RoomKept ==
  /\ bufferSize >= 0
  /\ bufferSize + inflight <= Capacity
  /\ closes = 0 => bufferSize + inflight = Capacity

(* Each generator is a message channel: whatever was kept back, limited,   *)
(* interleaved or stopped, the socket gets the frames of the storage (and  *)
(* of each stream) once each, whole and in the order they were written.    *)
Channel == INSTANCE MessageChannel
             WITH Ends <- Generators, sent <- file, got <- sent
InOrder == Channel!Spec

(* StopStreaming(filename): data of a file goes to the socket only while   *)
(* the file is being streamed.                                             *)
StoppedStays ==
  [][\A s \in Streams : sent'[s] # sent[s] => mapped'[FileOf[s]] # Nil]_vars

(* Every frame a script sent, if none is larger than the window, reaches   *)
(* the socket, unless the connection is closed meanwhile: Close loses room *)
(* that Connect does not give back.                                        *)
AllSent ==
  \A n \in 1..MaxFrames :
     Len(file[Storage]) >= n ~> Len(sent[Storage]) >= n \/ closes > 0

(* A stream is sent to its end unless the script stops it or closes the    *)
(* connection, whatever else is sent meanwhile.                            *)
StreamDrained ==
  \A s \in Streams :
     file[s] # <<>> ~> \/ sent[s] = Content[s]
                       \/ mapped[FileOf[s]] = Nil
                       \/ closes > 0

(* The flow control starves nobody: messages and streams, which share the  *)
(* window of the socket, are all sent.                                     *)
EverythingSent == AllSent /\ StreamDrained
=============================================================================
