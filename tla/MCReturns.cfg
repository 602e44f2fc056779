SPECIFICATION FairSpec
CONSTANTS
  NumBlocks = 3
  Slots = 2
  MAX_DATA_SPACE = 1
  ByteRange = 256
  a = a
  ctl = ctl
  Names = {a, ctl}
  NoName = NoName
  Tags = {t1}
  NoTag = NoTag
  FD_TABLESIZE = 1
  Paths <- RefusedToo
  Unreadable = {ctl}
  Sizes = {1, 2}
  Offsets = {0}
PROPERTIES
  CallsReturn
