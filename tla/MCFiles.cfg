SPECIFICATION ClientSpec
CONSTANTS
  NumBlocks = 5
  Slots = 4
  MAX_DATA_SPACE = 2
  ByteRange = 256
  one = one
  two = two
  Names = {one, two}
  NoName = NoName
  Tags = {t1}
  NoTag = NoTag
  FD_TABLESIZE = 2
  Paths <- FlatPaths
  Unreadable = {}
  Sizes = {1, 3}
  Offsets = {0}
  Calls = {"closeFile", "deleteFile", "readByte", "writeFile", "seek"}
  Promises = {"fdsRoom", "filesOnly", "noShrink", "fits", "goodSizes", "rootStays", "unmountFirst"}
SYMMETRY Interchangeable
INVARIANTS
  OneOwner
PROPERTIES
  ImplementsFileSystem
  ReadsReturnTheFile
