CONSTANTS
  MaxKeys = 2
  MaxMouseBytes = 4
  TickDivider = 2
  KeyKinds = {"press", "shiftDown"}
  QueueSize = 1
  NoByte = NoByte
  NoEvent = NoEvent
SPECIFICATION Spec
INVARIANTS TypeOK TextInOrder MouseInSync PicQuiescent MouseNotReentered
