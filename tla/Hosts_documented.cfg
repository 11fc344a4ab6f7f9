CONSTANTS
    Simulated = {"app-redis-01", "app-worker-01", "fileserver-01", "mail-relay-01"}
    Step = 2
    Oldest = 22
    MaxToggles = 1
    MaxTears = 1
SPECIFICATION Spec
INVARIANT AsDocumented
CHECK_DEADLOCK FALSE
