\* A flush every second poll; the disk may refuse a write or the process be killed once.
CONSTANTS
    FlushEvery = 2
    MaxSamples = 4
    MaxFaults = 1

SPECIFICATION FairSpec

INVARIANTS
    FileAndBufferAreTaken
    EndedKeepsAll
    BufferBounded

PROPERTIES
    StopEnds
    ImplementsStageProcess

\* The process ends.
CHECK_DEADLOCK FALSE
