\* Background components share the queue, and one of them clears it.
CONSTANTS
    Components = {c1, c2}
    VMs = {v1, v2}
    Jobs <- SharedJobs
    ExitCodes = {0}
    Concurrent = TRUE
    MaxOps = 3
    MaxReboots = 0

SPECIFICATION Spec

SYMMETRY MCSymmetry

INVARIANTS
    TypeOK
    ResultIsOwn
    AnswerIsOwn
    CommandKept

\* Every behaviour ends when the operations and the reboots are used up.
CHECK_DEADLOCK FALSE
