SPECIFICATION Spec
CONSTANTS
  NumBlocks = 3
  Slots = 2
  MAX_DATA_SPACE = 1
  ByteRange = 256
  a = a
  ctl = ctl
  Names = {a}
  NoName = NoName
  Tags = {t1}
  NoTag = NoTag
  FD_TABLESIZE = 2
  Paths <- NestedPaths
  Unreadable = {}
  Sizes = {2}
  Offsets <- SomeOffsets
INVARIANTS
  TypeOK
  SuperblockIntact
  UnmountedIsQuiet
