CONSTANTS
  HeapTotal = 220
  HDR = 20
  Slack = 16
  Requests = {1, 24, 60}
  Aligns = {8}
  MaxLive = 3
  WordSize = 1024
  Nil = Nil
SPECIFICATION Spec
INVARIANTS TypeOK Tiled BlocksOwned FreedHeapIsWhole
PROPERTY ImplementsAllocator
