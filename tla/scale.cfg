SPECIFICATION Spec
CONSTANTS
  None = None
  Scenarios <- MCScenarios
  MaxStarts = 2
CHECK_DEADLOCK FALSE
INVARIANTS
  ContainersAddUp
  TurbinesAreWhole
  AddressesAreDistinct
  AddressesMeetInterfaces
  EveryVmGetsItsFile
  ClientsFindServers
PROPERTY
  StageAgainChangesNothing
