CONSTANTS
  qsize <- ThreeEach
  MaxCommands = 4
SPECIFICATION FairSpec
CHECK_DEADLOCK FALSE
INVARIANTS
  OwnAnswerWithoutTimeout
PROPERTIES
  EachCompletionOnce
  CallAnswered
