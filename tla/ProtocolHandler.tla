--------------------------- MODULE ProtocolHandler ---------------------------
(***************************************************************************)
(* The framing layer (modules/protocol_handler/protocol_handler.lua):      *)
(* Compose cuts a message into frames, Parse puts the messages of a byte   *)
(* stream together again, with the decryption of security_manager.lua in   *)
(* between.  The peer on the other side of the connection is external: it  *)
(* frames as Compose does, and may interleave the frames of its messages.  *)
(*                                                                         *)
(* The i-th byte of message m is the pair <<m, i>>, so that a byte that is *)
(* lost, repeated or put into another message is seen.  wire is the part   *)
(* of the stream Parse has not consumed, as frames; buffer is how many of  *)
(* its bytes have arrived, cut anywhere.                                   *)
(***************************************************************************)
EXTENDS Integers, Sequences, SequencesExt

CONSTANTS
  Messages,
  Session, Id,         \* sessionId and messageId of a message
  Kind,                \* "rpc": with a binary header, "raw": audio or video data,
                       \* "control": a control frame
  Json, Bin,           \* sizes of a message's JSON and of its binary data
  Encrypted,           \* the messages that are sent encrypted
  HeaderSize,          \* PROTOCOL_HEADER_SIZE, 12
  BinaryHeaderSize,    \* BINARY_HEADER_SIZE, 12
  FirstSize,           \* payload of a first frame, 8
  MaxPayload,          \* frame size of the version less the header
  MaxInfo,             \* 255, the last number of a consecutive frame
  MaxRecord,           \* plain bytes of one TLS record
  Overhead,            \* bytes encryption adds to a record
  MayUnregister,       \* whether sessions lose their security on the way
  MaxWire,             \* bound: frames on the wire or in the buffer
  None                 \* nil

Sessions == {Session[m] : m \in Messages}
Keys == {<<Session[m], Id[m]>> : m \in Messages}

ASSUME MessageAssumption ==
  /\ Kind \in [Messages -> {"rpc", "raw", "control"}]
  /\ Json \in [Messages -> Nat]
  /\ Bin \in [Messages -> Nat]
  /\ Encrypted \subseteq Messages
  /\ \A m, n \in Messages : Session[m] = Session[n] /\ Id[m] = Id[n] => m = n
  /\ None \notin Seq(Messages \X Nat)
ASSUME SizeAssumption ==
  /\ {HeaderSize, BinaryHeaderSize, FirstSize, MaxPayload, MaxInfo, MaxRecord}
       \subseteq Nat \ {0}
  /\ Overhead \in Nat
  /\ FirstSize <= MaxPayload
  /\ MayUnregister \in BOOLEAN
  /\ MaxWire \in Nat

VARIABLES
  queue,      \* queue[m]: frames of m that are not yet on the wire
  composed,   \* messages that were composed
  secure,     \* sessions in SecurityManager.mobileSecurities, handshake done
  wire,       \* frames on the wire or in the buffer
  buffer,     \* #self.buffer
  frames,     \* self.frames: per key the bytes collected so far, or None
  totalSize,  \* self.totalSize
  bioIn,      \* per session the TLS records written to bioIn and not read
  res,        \* res of the running Parse
  pc,         \* "loop": in the event loop, "parse": in Parse, "error": Lua error
  completed,  \* history: contents of the messages that are wholly on the wire
  handed      \* history: what Parse returned

vars == <<queue, composed, secure, wire, buffer, frames, totalSize, bioIn, res,
          pc, completed, handed>>
parser == <<buffer, frames, totalSize, bioIn, res, pc, handed>>

-----------------------------------------------------------------------------
(* Compose                                                                 *)

(* rpcPayload puts the binary header before the JSON and the binary data.  *)
Length(m) == (IF Kind[m] = "rpc" THEN BinaryHeaderSize + Json[m] ELSE 0) + Bin[m]
Bytes(m, from, to) == [i \in 1..(to - from + 1) |-> <<m, from + i - 1>>]
Parts(m) == (Length(m) + MaxPayload - 1) \div MaxPayload
LeastOf(x, y) == IF x <= y THEN x ELSE y

(* SSL_write cuts its data into records.                                   *)
Records(data) ==
  LET n == (Len(data) + MaxRecord - 1) \div MaxRecord
  IN [r \in 1..n |-> SubSeq(data, (r - 1) * MaxRecord + 1, LeastOf(r * MaxRecord, Len(data)))]

(* GetBinaryFrame: the header with the size of what follows it.            *)
GetBinaryFrame(m, type, info, data, enc) ==
  [type |-> type, info |-> info, session |-> Session[m], id |-> Id[m],
   service |-> Kind[m], enc |-> enc, data |-> data,
   size |-> Len(data) + (IF enc THEN Overhead * Len(Records(data)) ELSE 0)]

(* Mutant: the numbers of the frames run through 0.                        *)
FrameInfoWraps(k, n) == IF k = n THEN 0 ELSE k % (MaxInfo + 1)

(* frame_info of the k-th of n consecutive frames.                         *)
FrameInfo(k, n) == IF k = n THEN 0 ELSE ((k - 1) % MaxInfo) + 1

Consecutive(m, k) ==
  GetBinaryFrame(m, "consecutive", FrameInfo(k, Parts(m)),
                 Bytes(m, (k - 1) * MaxPayload + 1, LeastOf(k * MaxPayload, Length(m))),
                 m \in Encrypted)

(* The first frame carries the size and the number of frames, unencrypted. *)
First(m) == GetBinaryFrame(m, "first", 0, [i \in 1..FirstSize |-> None], FALSE)

Single(m) ==
  GetBinaryFrame(m, IF Kind[m] = "control" THEN "control" ELSE "single", 0,
                 Bytes(m, 1, Length(m)), m \in Encrypted)

(* A message that does not fit in one frame: a first frame and consecutive *)
(* ones.                                                                   *)
Composed(m) ==
  IF Length(m) > MaxPayload
  THEN <<First(m)>> \o [k \in 1..Parts(m) |-> Consecutive(m, k)]
  ELSE <<Single(m)>>

(* Encryption of an unregistered session is an error.                      *)
Compose(m) ==
  /\ m \notin composed
  /\ m \in Encrypted => Session[m] \in secure
  /\ composed' = composed \cup {m}
  /\ queue' = [queue EXCEPT ![m] = Composed(m)]
  /\ UNCHANGED <<secure, wire, parser, completed>>

(* What a receiver should get of m.                                        *)
Content(m) ==
  LET head == IF Kind[m] = "rpc" THEN BinaryHeaderSize + Json[m] ELSE 0
  IN [key |-> <<Session[m], Id[m]>>,
      json |-> IF Kind[m] = "rpc" THEN Bytes(m, BinaryHeaderSize + 1, head) ELSE <<>>,
      bin |-> Bytes(m, head + 1, Length(m))]

(* The peer writes the next frame of m to the connection.                  *)
Transmit(m) ==
  /\ queue[m] # <<>>
  /\ Len(wire) < MaxWire
  /\ wire' = Append(wire, Head(queue[m]))
  /\ queue' = [queue EXCEPT ![m] = Tail(@)]
  /\ completed' = IF Len(queue[m]) = 1 THEN Append(completed, Content(m)) ELSE completed
  /\ UNCHANGED <<composed, secure, parser>>

(* unregisterSessionSecurity.                                              *)
Unregister(s) ==
  /\ MayUnregister
  /\ s \in secure
  /\ secure' = secure \ {s}
  /\ UNCHANGED <<queue, composed, wire, parser, completed>>

-----------------------------------------------------------------------------
(* Parse                                                                   *)

(* The bytes of the frames w, each with its header.                        *)
StreamBytes(w) ==
  LET Upto[i \in 0..Len(w)] == IF i = 0 THEN 0 ELSE Upto[i - 1] + HeaderSize + w[i].size
  IN Upto[Len(w)]
WireBytes == StreamBytes(wire)

(* OnInputData: n more bytes are there, Parse appends them to its buffer.  *)
Read(n) ==
  /\ pc = "loop"
  /\ buffer' = buffer + n
  /\ pc' = "parse"
  /\ UNCHANGED <<queue, composed, secure, wire, frames, totalSize, bioIn, res,
                 completed, handed>>

(* The header is there and parseProtocolHeader finds the frame complete.   *)
FrameArrived(f) == buffer >= HeaderSize /\ buffer >= f.size + HeaderSize

(* Mutant: the session is left out.                                        *)
KeyOfId(f) == <<1, f.id>>

(* The key of self.frames and self.totalSize.                              *)
Key(f) == <<f.session, f.id>>

(* decryptPayload: the records of the frame go to bioIn, and the one record*)
(* SSL_pending sees is read from there.                                    *)
InBio(f) == bioIn[f.session] \o Records(f.data)
Decrypted(f) ==
  IF ~f.enc THEN [status |-> "NO_ENCRYPTION", data |-> f.data, left |-> bioIn]
  ELSE IF f.session \notin secure \/ f.data = <<>>
       THEN [status |-> "ERROR", data |-> f.data, left |-> bioIn]
  ELSE [status |-> "SUCCESS", data |-> Head(InBio(f)),
        left |-> [bioIn EXCEPT ![f.session] = Tail(InBio(f))]]

(* string.sub, which stops at the end of the string.                       *)
Sub(data, from, to) == SubSeq(data, from, LeastOf(to, Len(data)))

(* parseBinaryHeader: rpcJsonSize is read from the header, the JSON follows*)
(* it, and what is left is binary data.                                    *)
ParseBinaryHeader(data, size) ==
  LET json == Json[data[1][1]]
  IN [json |-> Sub(data, BinaryHeaderSize + 1, BinaryHeaderSize + json),
      bin |-> IF size > json + BinaryHeaderSize
              THEN SubSeq(data, BinaryHeaderSize + json + 1, Len(data)) ELSE <<>>]

(* A message for res: with its binary header parsed, or as it is.          *)
Result(f, status, data, size) ==
  LET parts == IF f.service = "rpc" /\ f.type # "control"
               THEN ParseBinaryHeader(data, size)
               ELSE [json |-> <<>>, bin |-> data]
  IN [key |-> Key(f), json |-> parts.json, bin |-> parts.bin, status |-> status]
Report(f, status, data) ==
  [key |-> Key(f), json |-> <<>>, bin |-> data, status |-> status]

(* The loop takes the first frame f out of the buffer.                     *)
Consume(f, left) ==
  /\ pc = "parse"
  /\ FrameArrived(f)
  /\ wire' = Tail(wire)
  /\ buffer' = buffer - f.size - HeaderSize
  /\ bioIn' = left
  /\ UNCHANGED <<queue, composed, secure, completed, handed>>

(* No payload, or one that cannot be decrypted: reported as it is.         *)
ParseUndecrypted(f, d) ==
  /\ d.data = <<>> \/ d.status = "ERROR"
  /\ Consume(f, d.left)
  /\ res' = Append(res, Report(f, d.status, d.data))
  /\ UNCHANGED <<frames, totalSize, pc>>

ParseControlFrame(f, d) ==
  /\ d.data # <<>> /\ d.status # "ERROR" /\ f.type = "control"
  /\ Consume(f, d.left)
  /\ res' = Append(res, Report(f, d.status, d.data))
  /\ UNCHANGED <<frames, totalSize, pc>>

ParseSingleFrame(f, d) ==
  /\ d.data # <<>> /\ d.status # "ERROR" /\ f.type = "single"
  /\ Consume(f, d.left)
  /\ res' = Append(res, Result(f, d.status, d.data, f.size))
  /\ UNCHANGED <<frames, totalSize, pc>>

ParseFirstFrame(f, d) ==
  /\ d.data # <<>> /\ d.status # "ERROR" /\ f.type = "first"
  /\ Consume(f, d.left)
  /\ frames' = [frames EXCEPT ![Key(f)] = <<>>]
  /\ totalSize' = [totalSize EXCEPT ![Key(f)] = f.size]
  /\ UNCHANGED <<res, pc>>

(* self.frames[key] .. msg.binaryData; without a first frame               *)
(* self.frames[key] is nil and the concatenation an error.                 *)
Collected(f, d) == (IF frames[Key(f)] = None THEN <<>> ELSE frames[Key(f)]) \o d.data
ParseConsecutiveFrame(f, d) ==
  /\ d.data # <<>> /\ d.status # "ERROR" /\ f.type = "consecutive"
  /\ Consume(f, d.left)
  /\ pc' = IF frames[Key(f)] = None THEN "error" ELSE pc
  /\ \/ /\ f.info # 0
        /\ frames' = [frames EXCEPT ![Key(f)] = Collected(f, d)]
        /\ totalSize' = [totalSize EXCEPT ![Key(f)] = @ + f.size]
        /\ UNCHANGED res
     \/ /\ f.info = 0
        /\ frames' = [frames EXCEPT ![Key(f)] = None]
        /\ totalSize' = [totalSize EXCEPT ![Key(f)] = 0]
        /\ res' = Append(res, Result(f, d.status, Collected(f, d),
                                     totalSize[Key(f)] + f.size))

(* One turn of the loop of Parse.                                          *)
ParseFrame ==
  /\ wire # <<>>
  /\ LET f == Head(wire)
         d == Decrypted(f)
     IN \/ ParseUndecrypted(f, d)
        \/ ParseControlFrame(f, d)
        \/ ParseSingleFrame(f, d)
        \/ ParseFirstFrame(f, d)
        \/ ParseConsecutiveFrame(f, d)

(* Parse returns, OnInputData hands its messages on.                       *)
EndParse ==
  /\ pc = "parse"
  /\ wire = <<>> \/ ~FrameArrived(Head(wire))
  /\ handed' = handed \o res
  /\ res' = <<>>
  /\ pc' = "loop"
  /\ UNCHANGED <<queue, composed, secure, wire, buffer, frames, totalSize, bioIn,
                 completed>>

-----------------------------------------------------------------------------
Init ==
  /\ queue = [m \in Messages |-> <<>>]
  /\ composed = {}
  /\ secure = Sessions
  /\ wire = <<>>
  /\ buffer = 0
  /\ frames = [k \in Keys |-> None]
  /\ totalSize = [k \in Keys |-> 0]
  /\ bioIn = [s \in Sessions |-> <<>>]
  /\ res = <<>>
  /\ pc = "loop"
  /\ completed = <<>>
  /\ handed = <<>>

Arrive == \E n \in 1..(WireBytes - buffer) : Read(n)

Next ==
  \/ \E m \in Messages : Compose(m) \/ Transmit(m)
  \/ \E s \in Sessions : Unregister(s)
  \/ Arrive
  \/ ParseFrame
  \/ EndParse

Spec == Init /\ [][Next]_vars

-----------------------------------------------------------------------------
(* Properties                                                              *)

(* The buffer never holds more, or less, bytes than the stream has, and    *)
(* bytes are collected for a key between its first and its last frame only.*)
TypeOK ==
  /\ composed \subseteq Messages
  /\ secure \subseteq Sessions
  /\ buffer \in 0..WireBytes
  /\ pc \in {"loop", "parse", "error"}
  /\ \A k \in Keys : totalSize[k] \in Nat /\ (frames[k] = None <=> totalSize[k] = 0)
  /\ pc = "loop" => res = <<>>

(* Reassembly: whatever pieces the stream arrives in and however frames of *)
(* messages are interleaved, Parse returns every message once, whole, with *)
(* its JSON and binary data told apart, in the order their last frames were*)
(* sent, up to the first frame that cannot be decrypted.                   *)
Parsed == handed \o res
Clean == {i \in 1..Len(Parsed) : \A j \in 1..i : Parsed[j].status # "ERROR"}
Channel == INSTANCE MessageChannel
  WITH Ends <- {"in"},
       sent <- [e \in {"in"} |-> completed],
       got  <- [e \in {"in"} |->
                 [i \in 1..Cardinality(Clean) |->
                   [key |-> Parsed[i].key, json |-> Parsed[i].json, bin |-> Parsed[i].bin]]]
Reassembled == Channel!Spec

(* A message that Parse returns without a decryption error is one that was *)
(* composed, byte for byte, and is returned once, even when the session    *)
(* loses its security in the middle of a message.                          *)
Intact ==
  \A i \in 1..Len(Parsed) :
    Parsed[i].status # "ERROR" =>
      /\ \E m \in composed : /\ Parsed[i].key = Content(m).key
                             /\ Parsed[i].json = Content(m).json
                             /\ Parsed[i].bin = Content(m).bin
      /\ \A j \in 1..Len(Parsed) :
            i # j /\ Parsed[j].status # "ERROR" => Parsed[i].key # Parsed[j].key

(* Parse never concatenates to a message whose first frame it did not keep,*)
(* whichever frames it could not decrypt.                                  *)
NoLuaError == pc # "error"

(* Nothing is held back: when the last byte on the wire has been parsed,   *)
(* every message whose frames are all sent has been returned, or reported  *)
(* as one that could not be decrypted, and no part of one is left behind   *)
(* while the sessions keep their security.                                 *)
AllDelivered ==
  pc = "loop" /\ wire = <<>> =>
    \A m \in composed : queue[m] = <<>> =>
      /\ \E i \in 1..Len(handed) : handed[i].key = Content(m).key
      /\ Session[m] \in secure =>
            frames[Content(m).key] = None /\ bioIn[Session[m]] = <<>>

(* The parser in every state: it keeps its bookkeeping, returns only what  *)
(* was composed, never fails in Lua, and holds nothing back.               *)
ParserSound == TypeOK /\ Intact /\ NoLuaError /\ AllDelivered
=============================================================================
