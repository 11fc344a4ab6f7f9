CONSTANTS
    Shell = "shell"
    Servers <- MCServers
    Rosters <- MCRosters
    Devices <- MCDevices
    Core = "core"
    Access = "access"
    Declared <- MCDeclared
    None = "none"
    Args <- MCUp
    BulkSize = 3
    MaxRuns = 3
    MaxFailures = 1
    MaxRosters = 2
    MaxFlaps = 0
SPECIFICATION Spec
INVARIANT MatchMeansConfigured
CHECK_DEADLOCK FALSE
