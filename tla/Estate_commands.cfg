CONSTANTS
    Runtimes = {"native", "docker"}
    Scales <- OneEach
    MaxPids = 3
    MaxCommands = 3
    MaxEdits = 1
    MaxFaults = 1
SPECIFICATION FairSpec
INVARIANT DownStops
PROPERTIES UpIsFresh ServiceKept CommandEnds
CHECK_DEADLOCK FALSE
