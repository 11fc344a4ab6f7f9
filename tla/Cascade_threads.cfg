CONSTANTS
    Hosts <- MCHosts
    NumSteps = 2
    HostOf <- MCHostOf2
    ActionOf <- MCAction2
    DelayOf <- MCDelay2
    MaxAge = 1
    Ticker = ticker
    Handlers = {h1, h2}
    MaxRuns = 2
    MaxHeals = 1
    MaxCrashes = 0
    MaxFailures = 1
    MaxManual = 0
SPECIFICATION Spec
SYMMETRY Symmetry
INVARIANT HealSticks
PROPERTY SentOnce
