\* Five stages with one fault among them, on a host with three pids.
CONSTANTS
    Pids = {1, 2, 3}
    MaxStages = 5
    MaxFaults = 1

SPECIFICATION Spec

INVARIANTS
    EveryListenerIsFound

PROPERTIES
    CleanupLeavesNoListener

\* Stages are bounded, and the host may do nothing.
CHECK_DEADLOCK FALSE
