CONSTANTS
  NBlocks = 6
  NInodes = 3
  Direct = 1
  Words = 2
  Values = {v1}
  Junk = junk
  file = file
  other = other
  Names = {file, other}
  OnImage <- OneFile
  Rooms = {TRUE, FALSE}
  Handles = {h1}
  WriteSizes = {3}
  Offsets = {}
  Nil = Nil
SPECIFICATION Spec
INVARIANTS LinkedBlocksMarked NoSharedBlock
