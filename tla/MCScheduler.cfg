CONSTANTS
  MAX_THREADS = 4
  RtLevels = 3
  Levels = 4
  NoDeadline = 2
  PrioInputs <- AllPriorities
  PolicyInputs <- AllPolicies
SPECIFICATION Spec
CHECK_DEADLOCK FALSE
INVARIANTS
  QueuesSound
  IdleCanWake
PROPERTIES
  SwitchesToMostUrgent
  TickLostOnlyWhenAlone
