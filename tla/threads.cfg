SPECIFICATION MCSpec
CONSTANTS
  Threads = {t1, t2, t3, t4}
  Fields = 4
  MaxJitter = 2
  duration = 2
  LongModulus = 6
  MaxNow = 8
INVARIANTS
  OneInstance
  WaitersGetComplete
  InTime
  CeilingKept
PROPERTIES
  IncompleteOnlyMeanwhile
CHECK_DEADLOCK FALSE
