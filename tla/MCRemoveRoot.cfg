SPECIFICATION ClientSpec
CONSTANTS
  NumBlocks = 4
  Slots = 3
  MAX_DATA_SPACE = 2
  ByteRange = 256
  a = a
  d = d
  ctl = ctl
  Names = {a, d, ctl}
  NoName = NoName
  Tags = {t1}
  NoTag = NoTag
  FD_TABLESIZE = 1
  Paths <- TreePaths
  Unreadable = {ctl}
  Sizes = {1, 3}
  Offsets = {0}
  Calls = {"removeAll", "createDir", "writeFile"}
  Promises = {"fdsRoom", "filesOnly", "noShrink", "fits", "goodSizes", "unmountFirst"}
INVARIANTS
  Mountable
