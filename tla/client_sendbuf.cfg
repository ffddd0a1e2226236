SPECIFICATION Spec
CONSTANTS
  Iterations = 1
  Period = 1
  MaxEvents = 1
INVARIANT
  SendsItsCommand
