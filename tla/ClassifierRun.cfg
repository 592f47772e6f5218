SPECIFICATION FairSpec
CONSTANTS
  PipeCapacity = 2
  OutputLength = 3
  MaxLogLines = 3
INVARIANTS
  TypeOK
  AnswerIsResult
PROPERTIES
  RunEnds
CHECK_DEADLOCK FALSE
