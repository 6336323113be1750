SPECIFICATION Spec
CONSTANTS
  None = None
  DefaultInfrastructure = "power"
  Infrastructures <- MCInfrastructures
  Scenarios <- MCScenarios
  MaxStarts = 2
  MaxToggles = 1
CHECK_DEADLOCK FALSE
INVARIANTS
  AddressesAgree
  NothingUpstreamIsHidden
  FederatesAreCounted
  OneInjectPerPlace
PROPERTY
  RestartChangesNothing
