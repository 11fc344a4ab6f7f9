CONSTANTS
    StartState = "degraded"
    AutoBreak = 2
    Watchdog = watchdog
    Handlers = {h1, h2}
    MaxTime = 3
    MaxToggles = 2
    MaxPolls = 1
    MaxCrashes = 1
SPECIFICATION FairSpec
INVARIANTS StoryConsistent LateEscalation SavedIsCurrent
PROPERTY DegradedEscalates
