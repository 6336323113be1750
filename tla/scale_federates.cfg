SPECIFICATION Spec
CONSTANTS
  None = None
  Scenarios <- MCScenarios
  MaxStarts = 2
CHECK_DEADLOCK FALSE
INVARIANT
  FarmFederatesAreCounted
