CONSTANTS
    Hosts <- MCHosts
    NumSteps = 2
    HostOf <- MCHostOf2
    ActionOf <- MCAction2
    DelayOf <- MCDelay2
    MaxAge = 1
    Ticker = ticker
    Handlers = {h1}
    MaxRuns = 1
    MaxHeals = 1
    MaxCrashes = 0
    MaxFailures = 0
    MaxManual = 0
SPECIFICATION Spec
INVARIANT HealStopsTheRun
