CONSTANTS
    Hosts <- MCHosts
    NumSteps = 3
    HostOf <- MCHostOf
    ActionOf <- MCAction
    DelayOf <- MCDelay
    MaxAge = 2
    Ticker = ticker
    Handlers = {h1}
    MaxRuns = 1
    MaxHeals = 1
    MaxCrashes = 2
    MaxFailures = 0
    MaxManual = 1
SPECIFICATION FairSpec
INVARIANTS FiredWasSent ArmedHasStart CausalOrder OutcomeReached
PROPERTY ArmedRunEnds
