SPECIFICATION MCSpec
CONSTANTS
  Ocbs = {o1, o2}
  MaxValue = 2
  MaxAttempts = 2
  MaxReads = 3
INVARIANTS
  CommandInForce
  RepliesMatch
PROPERTIES
  IsCounter
  Answered
CHECK_DEADLOCK FALSE
