SPECIFICATION MCSpec
CONSTANTS
  DelayB = 20
  Pulse = 1
  Pins1 = {p}
  LED_COUNT = 3
  Spare = 1
  Period = 5
  Low = 1
  MaxLate = 2
  MaxLow = 25
INVARIANTS
  NoEdgeLost
  LatencyBounded
  PinsAsAsked
  StartsSafely
  LowIsAnswered
PROPERTIES
  PulseWidth
CHECK_DEADLOCK FALSE
