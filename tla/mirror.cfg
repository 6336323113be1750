\* Two hosts, two targets; three starts, any of them dry runs, one creation that fails, one
\* process that dies, deletion that fails or stage that gives up.
CONSTANTS
    h1 = h1
    h2 = h2
    Hosts = {h1, h2}
    NumTargets = 2
    Seen <- MCSeen
    Topology <- MCTopology
    MaxStarts = 3
    MaxErrors = 1
    MaxFaults = 1

SPECIFICATION Spec

INVARIANTS
    NothingIsLost
    LaunchIsClean
    DryRunIsHarmless
    MadeIsComplete
