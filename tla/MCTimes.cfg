SPECIFICATION TimesSpec
CONSTANTS
  NumBlocks = 4
  Slots = 3
  MAX_DATA_SPACE = 2
  ByteRange = 256
  a = a
  Names = {a}
  NoName = NoName
  Tags = {t1}
  NoTag = NoTag
  FD_TABLESIZE = 2
  Paths <- TimedPaths
  Unreadable = {}
  Sizes = {1, 3}
  Offsets = {0}
  MaxTime = 1
  Calls = {"crash", "mkfs", "unmount", "rename", "closeFile", "deleteFile", "readByte", "writeFile", "seek", "createDir", "removeDir", "removeAll"}
  Promises = {"fdsRoom", "filesOnly", "noShrink", "fits", "goodSizes", "rootStays", "unmountFirst"}
PROPERTIES
  FilesAreDated
  DatesNeverGoBack
