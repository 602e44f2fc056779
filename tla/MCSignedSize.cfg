SPECIFICATION ClientSpec
CONSTANTS
  NumBlocks = 4
  Slots = 3
  MAX_DATA_SPACE = 252
  ByteRange = 256
  one = one
  two = two
  Names = {one, two}
  NoName = NoName
  Tags = {t1}
  NoTag = NoTag
  FD_TABLESIZE = 1
  Paths <- FlatPaths
  Unreadable = {}
  Sizes = {1, 252, 255}
  Offsets = {0}
  Calls = {"unmount", "closeFile", "deleteFile", "writeFile"}
  Promises = {"fdsRoom", "filesOnly", "noShrink", "fits", "rootStays", "unmountFirst"}
INVARIANTS
  Mountable
