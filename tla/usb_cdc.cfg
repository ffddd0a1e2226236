SPECIFICATION BlockSpec
CONSTANTS
  BufferSize = 2
  PacketSize = 1
  Frames = 2
  Banks = 1
  MaxBytes = 2
  MaxSessions = 2
  MaxUpsets = 1
  HaltSessions = 1
  MaxBlock = 3
INVARIANTS
  BytesInOrder
  BuffersApart
PROPERTIES
  EchoComesBack
CHECK_DEADLOCK FALSE
