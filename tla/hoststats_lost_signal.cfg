\* Nothing fails; SIGTERM may come at any time.
CONSTANTS
    FlushEvery = 2
    MaxSamples = 2
    MaxFaults = 0

SPECIFICATION FairSpec

PROPERTIES
    StopsWhenTold

\* The process ends.
CHECK_DEADLOCK FALSE
