CONSTANTS
  MaxNodes = 7
  Names <- SomeNames
  str_cpy <- Copied
  Components <- Split
SPECIFICATION VfsSpec
CHECK_DEADLOCK FALSE
INVARIANTS
  TreeLinked
  PathsResolve
