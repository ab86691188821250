SPECIFICATION Spec
CONSTANTS
  BlockSize = 2
  FirstData = 1
  BlocksPerGroup = 8
  BitmapBits = 8
  TotalBlocks = 14
  Meta <- MCMeta
  ItableEnd <- MCItableEnd
  InodesPerGroup = 2
  TotalInodes = 4
  ByteBits = 2
  NearGoal = 4
  DirectCnt = 1
  PerBlock = 2
  RootMax = 1
  NodeMax = 2
  MaxLen = 3
  InlineMax = 2
  Text = 1
  Images <- MCImages
  MaxSize = 6
  Writes <- MCWrites
  Lengths <- MCLengths
  MaxFiles = 2
  MaxOps = 5
  Admitted = {}
INVARIANTS
  OwnedOnce
  CountersAgree
  TreesSound
PROPERTY
  ImplementsFileMap
CHECK_DEADLOCK FALSE
