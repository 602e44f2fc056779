SPECIFICATION MCSpec
CONSTANTS
  Chars <- MCChars
  Slash = "/"
  Controls = {"!"}
  NUL = "0"
  FILENAME_LENGTH = 2
  PathBuffer = 4
  Strings <- MCStrings
  Dirs <- MCDirs
  Files <- MCFiles
  FD_TABLESIZE = 4
  Inodes = {1, 2}
INVARIANTS
  PathTypeOK
  FdTypeOK
PROPERTIES
  CreatedHasName
  AnswersByName
  NestedLeadsToChild
  FirstUnused
