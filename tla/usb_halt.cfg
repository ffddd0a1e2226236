SPECIFICATION Spec
CONSTANTS
  BufferSize = 2
  PacketSize = 1
  Frames = 2
  Banks = 1
  MaxBytes = 2
  MaxSessions = 1
  MaxUpsets = 1
  HaltSessions = 1
INVARIANTS
  StallIsRequested
CHECK_DEADLOCK FALSE
