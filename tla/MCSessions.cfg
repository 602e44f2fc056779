SPECIFICATION ClientSpec
CONSTANTS
  NumBlocks = 4
  Slots = 3
  MAX_DATA_SPACE = 2
  ByteRange = 256
  one = one
  two = two
  Names = {one, two}
  NoName = NoName
  Tags = {t1}
  NoTag = NoTag
  FD_TABLESIZE = 2
  Paths <- FlatPaths
  Unreadable = {}
  Sizes = {0, 3}
  Offsets = {0}
  Calls = {"mkfs", "unmount", "createDir", "removeDir", "removeAll", "rename", "closeFile", "deleteFile", "writeFile"}
  Promises = {"fdsRoom", "filesOnly", "noShrink", "fits", "goodSizes", "rootStays", "unmountFirst"}
SYMMETRY Interchangeable
INVARIANTS
  Mountable
  DescriptorsLive
PROPERTIES
  ImplementsFileSystem
