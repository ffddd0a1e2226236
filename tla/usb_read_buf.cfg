SPECIFICATION ReadSpec
CONSTANTS
  BufferSize = 2
  PacketSize = 1
  Frames = 2
  Banks = 1
  MaxBytes = 3
  MaxSessions = 2
  MaxUpsets = 1
  HaltSessions = 1
  MaxBlock = 3
INVARIANT
  ReadsWhatCame
CHECK_DEADLOCK FALSE
