SPECIFICATION Spec
CONSTANTS
  x = x
  sp = sp
  Chars = {x, sp}
  Space = sp
  Nul = Nul
  BufferSize = 4
  Visible = 2
  Initial <- MCInitial
  Placeholder <- MCPlaceholder
  SetTexts <- MCSetTexts
  UserNames <- MCUserNames
  Images <- MCImages
  DiskCount = 4
  IsATAPI <- MCIsATAPI
  DiskSectors <- MCDiskSectors
  ImageSectors = 3
  BlockSectors = 2
  FlushEvery = 2
  MaxPowerCuts = 2
  NoisyCuts = 1
  MaxCount = 3
  MoveSteps = 2
  OnScreen = 3
  MaxPosts = 4
INVARIANTS TypeOK CompleteIsWhole OnlyFittingTouched DoneIsDone StringInBuffer DrawnAtItsButton ClosesWhatWasPressed
PROPERTIES ImplementsEditor InstallationEnds MessagesExpire
CHECK_DEADLOCK FALSE
