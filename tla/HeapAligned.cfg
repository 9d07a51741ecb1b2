\* The same heap, and the check of every header that heap_validate makes.
CONSTANTS
  HeapTotal = 220
  HDR = 20
  Slack = 16
  Requests = {1, 24}
  Aligns = {8}
  MaxLive = 2
  WordSize = 1024
  Nil = Nil
SPECIFICATION Spec
INVARIANT MagicIntact
