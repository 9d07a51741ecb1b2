CONSTANTS
  MaxKeys = 1
  MaxMouseBytes = 3
  TickDivider = 2
  KeyKinds = {"press"}
  QueueSize = 2
  NoByte = NoByte
  NoEvent = NoEvent
SPECIFICATION FairSpec
PROPERTIES BytesTaken QueueServed
