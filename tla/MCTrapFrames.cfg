CONSTANTS
  MaxNest = 3
  Touched <- SomeRegisters
  Numbers = {57}
  Results = {0, 2}
SPECIFICATION Spec
CHECK_DEADLOCK FALSE
INVARIANTS
  FaultFrameTruthful
PROPERTIES
  PlainTrapReturns
  SyscallKeepsRegisters
  SwitchIsExact
