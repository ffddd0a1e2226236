SPECIFICATION Spec
CONSTANTS
  CtrlSize = 2
  LineCoding = 3
  LockModulus = 256
  Requests <- MCRequests
INVARIANTS
  AddressAgreed
  Served
  ConfigurationWhole
  SleepDepth
PROPERTIES
  TransfersEnd
CHECK_DEADLOCK FALSE
