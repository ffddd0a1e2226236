SPECIFICATION Spec
CONSTANTS
  Iterations = 3
  Period = 2
  MaxEvents = 1
INVARIANTS
  OutstandingBounded
  FreshSamples
PROPERTIES
  ControllerIsPeriodic
  Stops
