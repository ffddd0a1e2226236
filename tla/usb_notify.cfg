SPECIFICATION Spec
CONSTANTS
  Lines = {"dcd", "dsr"}
  Errors = {"framing"}
  MaxSignals = 2
  MaxOpened = 1
  MaxHalts = 1
INVARIANT HostKnowsTheLines
CHECK_DEADLOCK FALSE
