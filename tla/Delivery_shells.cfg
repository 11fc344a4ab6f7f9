CONSTANTS
    Order <- OneKid
    FleetOrder <- OneBulk
    MaxShells = 2
    Modes <- ThreeModes
    MaxToggles <- Toggles
    MaxFails = 1
    MaxSignals = 1
SPECIFICATION FairSpec
INVARIANTS BlocksComplete Reaped
PROPERTIES AgentFilesWhole ToggleFiled
CHECK_DEADLOCK FALSE
