\* Two background components in mm_exec_wait at the same time.
CONSTANTS
    Components = {c1, c2}
    VMs = {v1, v2}
    Jobs <- ExecWaitJobs
    ExitCodes = {0}
    Concurrent = TRUE
    MaxOps = 2
    MaxReboots = 0

SPECIFICATION Spec

SYMMETRY MCSymmetry

INVARIANTS
    RunsOnlyOnTarget

\* Every behaviour ends when the operations and the reboots are used up.
CHECK_DEADLOCK FALSE
