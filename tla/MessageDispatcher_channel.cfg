SPECIFICATION FairSpec
CONSTANTS
  Storage = fbuf
  Nil = Nil
  s1 = s1
  s2 = s2
  a = a
  b = b
  Streams = {s1, s2}
  FileOf <- TwoFiles
  Content <- OneEach
  Capacity = 2
  FrameSizes = {1, 2}
  MayClose = TRUE
  MaxFrames = 2
  MaxClose = 1
INVARIANT TypeOK
INVARIANT RoomKept
PROPERTY InOrder
PROPERTY StoppedStays
PROPERTY EverythingSent
CHECK_DEADLOCK FALSE
