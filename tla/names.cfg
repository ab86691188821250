SPECIFICATION Spec
CONSTANTS
  DirBlock = 12
  Name <- MCName
  NameLen <- MCNameLen
  Hash <- MCHash
  AttrLen <- MCAttrLen
  BodyLen = 14
  AclLen = 24
  MaxIno = 5
  FileBlock = 2
  LinkMax = 4
  LinkText = 2
  Device <- MCDevice
  DevSlots = 2
  MountSlots = 2
  MountName <- MCMountName
  Under <- MCUnder
  Kind <- MCKind
  Images <- MCImages
  Texts <- MCTexts
  Sizes = {0, 1, 3}
  Values <- MCValues
  Handle = {1, 2}
  Admitted = {"locked twice", "writes left delayed"}
INVARIANTS
  EntriesFindable
  BlocksSound
  LinksExact
  CallsBalanced
  ListingComplete
  AttrAreasSound
  DentriesFresh
  MountsClean
PROPERTY
  ImplementsNameSpace
CHECK_DEADLOCK FALSE
