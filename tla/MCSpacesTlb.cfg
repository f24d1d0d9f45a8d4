CONSTANTS
  NumFrames = 12
  LEVELS = 3
  ENTRIES = 4
  MaxProcs = 2
  Mapped <- OnePage
  Segment <- OnePage
  StackPages <- Stack
  Values = {1, 2}
  BootTable <- Cleared
  Tlb = TRUE
SPECIFICATION Spec
CHECK_DEADLOCK FALSE
INVARIANTS
  SpacesPrivate
