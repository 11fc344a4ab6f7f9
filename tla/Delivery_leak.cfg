CONSTANTS
    Order <- OneKid
    FleetOrder <- OneBulk
    MaxShells = 1
    Modes <- ThreeModes
    MaxToggles <- Toggles
    MaxFails = 0
    MaxSignals = 1
SPECIFICATION Spec
INVARIANT NoneLeaked
CHECK_DEADLOCK FALSE
