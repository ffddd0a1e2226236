SPECIFICATION Spec
CONSTANT N = 7
INVARIANTS
  NoHoldAndWait
PROPERTIES
  SolvesDining
  DinnerGoesOn
