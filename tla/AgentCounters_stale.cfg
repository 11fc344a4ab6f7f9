CONSTANTS
    Pollers = {a1}
    Togglers = {t1}
    BusyRates <- MCBusyRates
    Budget = 3
    Unit = 2
    MaxTime = 3
    MaxPolls = 3
    MaxToggles = 1
    MaxRedeploys = 1
    MaxCrashes = 0
    MaxSteps = 0
SPECIFICATION Spec
PROPERTY EmittedMonotone
