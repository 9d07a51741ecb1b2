CONSTANTS
  NBlocks = 4
  NInodes = 2
  Direct = 1
  Words = 2
  Values = {v1}
  Junk = junk
  file = file
  other = other
  Names = {file, other}
  OnImage <- OneFile
  Rooms = {TRUE, FALSE}
  Handles = {h1}
  WriteSizes = {3}
  Offsets = {3}
  Nil = Nil
SPECIFICATION Spec
INVARIANT CreatedIsFound
