CONSTANTS
    Shell = "shell"
    Servers <- MCServers
    Rosters <- MCRosters
    Devices <- MCDevices
    Core = "core"
    Access = "access"
    Declared <- MCDeclared
    None = "none"
    Args <- MCArgs
    BulkSize = 3
    MaxRuns = 3
    MaxFailures = 1
    MaxRosters = 2
    MaxFlaps = 1
SPECIFICATION FairSpec
INVARIANTS ParentsFirst RerunRepairs InSync RemovalComplete
PROPERTY RunEnds
CHECK_DEADLOCK FALSE
