CONSTANTS
  NBlocks = 8
  NInodes = 2
  Direct = 1
  Words = 2
  Values = {v1}
  Junk = junk
  file = file
  other = other
  Names = {file, other}
  OnImage <- OneFile
  Rooms = {FALSE}
  Handles = {h1, h2}
  WriteSizes = {3}
  Offsets = {3}
  Nil = Nil
SPECIFICATION Spec
INVARIANTS TypeOK LinkedBlocksMarked NoSharedBlock ContentsKept LoneCloseKeepsSize
SYMMETRY HandleSymmetry
