CONSTANTS
  PAGE_SIZE = 4
  SizeModulus = 16
  Byte = {1, 2}
  Stale = 99
  Offsets <- AllOffsets
  Sizes <- AllSizes
SPECIFICATION TmpfsSpec
INVARIANTS
  ReadsOnlyWritten
PROPERTIES
  ImplementsByteFile
