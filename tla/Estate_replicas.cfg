CONSTANTS
    Runtimes = {"native"}
    Scales <- Replicas
    MaxPids = 3
    MaxCommands = 2
    MaxEdits = 1
    MaxFaults = 0
SPECIFICATION Spec
PROPERTIES ReplicasServed
CHECK_DEADLOCK FALSE
