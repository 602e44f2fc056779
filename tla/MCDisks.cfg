SPECIFICATION Spec
CONSTANTS
  NumBlocks = 8
  Slots = 2
  MAX_DATA_SPACE = 1
  ByteRange = 8
  n1 = n1
  t1 = t1
  Names = {n1}
  NoName = NoName
  Tags = {t1}
  NoTag = NoTag
  Files = {f1, f2}
  NoFile = NoFile
  Descriptors = {3, 4, 5}
  BLOCKSIZE = 2
  ByteCounts = {1, 2, 5, 8, 10, 18}
  Foreign <- Images
SYMMETRY Interchangeable
INVARIANTS
  TypeOK
  MountedIsHeld
PROPERTIES
  
  OnlyFinishedImages
  
  CheckIsMountCheck
  OnlyMkfsAndRefusalsLeak
