\* Stages one at a time, three operations in a row, resets among them; an agent may be lost.
CONSTANTS
    Components = {c1}
    VMs = {v1, v2}
    Jobs <- ForegroundJobs
    ExitCodes = {0}
    Concurrent = FALSE
    MaxOps = 3
    MaxReboots = 1

SPECIFICATION FairSpec

INVARIANTS
    RunsOnlyOnTarget

PROPERTIES
    ImplementsRemoteExec
    EveryOperationEnds

\* Every behaviour ends when the operations and the reboots are used up.
CHECK_DEADLOCK FALSE
