CONSTANTS
    Order <- Both
    Left <- LeftBroken
    Main = main
    Renderer = renderer
    Watchdog = watchdog
    Handlers = {h1}
    Transports = {"walk", "snmp"}
    AutoBreak = 1
    MaxTime = 3
    MaxToggles = 1
    MaxFails = 1
    MaxStops = 1
SPECIFICATION FairSpec
INVARIANTS ToggleShown AlarmTold
PROPERTIES FilesForward CatchUp
