SPECIFICATION ClientSpec
CONSTANTS
  NumBlocks = 4
  Slots = 3
  MAX_DATA_SPACE = 2
  ByteRange = 256
  a = a
  d = d
  ctl = ctl
  Names = {a, d}
  NoName = NoName
  Tags = {t1}
  NoTag = NoTag
  FD_TABLESIZE = 1
  Paths <- TwoLevels
  Unreadable = {}
  Sizes = {1, 3}
  Offsets = {0}
  Calls = {"mkfs", "createDir", "removeDir", "removeAll", "deleteFile", "writeFile", "crash"}
  Promises = {"fdsRoom", "filesOnly", "noShrink", "fits", "goodSizes", "rootStays", "unmountFirst", "smallRewrites"}
INVARIANTS
  MountedIsSound
