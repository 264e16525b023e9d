SPECIFICATION Spec
CONSTANTS
  long = long
  other = other
  data = data
  ack = ack
  Messages = {long, other, data, ack}
  Session <- MCSession
  Id <- MCId
  Kind <- MCKind
  Json <- MCJson
  Bin <- MCBin
  Encrypted = {long, data}
  HeaderSize = 2
  BinaryHeaderSize = 1
  FirstSize = 1
  MaxPayload = 2
  MaxInfo = 1
  MaxRecord = 2
  Overhead = 1
  MayUnregister = TRUE
  MaxWire = 3
  None = None
INVARIANT ParserSound
PROPERTY Reassembled
CHECK_DEADLOCK FALSE
