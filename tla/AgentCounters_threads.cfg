CONSTANTS
    Pollers = {a1, a2}
    Togglers = {}
    BusyRates = {1}
    Budget = 3
    Unit = 2
    MaxTime = 2
    MaxPolls = 2
    MaxToggles = 0
    MaxRedeploys = 0
    MaxCrashes = 1
    MaxSteps = 1
SPECIFICATION Spec
INVARIANT NothingLost
PROPERTY CounterMonotone
