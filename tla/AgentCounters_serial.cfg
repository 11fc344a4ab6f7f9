CONSTANTS
    Pollers = {a1}
    Togglers = {}
    BusyRates <- MCBusyRates
    Budget = 3
    Unit = 2
    MaxTime = 4
    MaxPolls = 3
    MaxToggles = 1
    MaxRedeploys = 2
    MaxCrashes = 0
    MaxSteps = 0
SPECIFICATION Spec
PROPERTIES EmittedMonotone BudgetExact
