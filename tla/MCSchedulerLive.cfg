CONSTANTS
  MAX_THREADS = 4
  RtLevels = 3
  Levels = 4
  NoDeadline = 2
  PrioInputs <- RealTime
  PolicyInputs <- NoDlPolicies
SPECIFICATION CooperativeSpec
CHECK_DEADLOCK FALSE
PROPERTIES
  TickingFifoIsPreempted
  WaitingThreadRuns
