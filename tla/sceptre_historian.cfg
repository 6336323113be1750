SPECIFICATION Spec
CONSTANTS
  None = None
  Scenarios <- NetworkScenarios
  MaxStarts = 2
CHECK_DEADLOCK FALSE
INVARIANT HistorianUsesOnlyItsOpc
