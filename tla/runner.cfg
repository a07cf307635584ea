SPECIFICATION GSpec
CONSTANTS
    Scenarios <- AllScenarios
    MaxQueue = 2
    SignalCap = 1
INVARIANTS
    NoOrphanTask
    ButtonsMatch
    NoStalePause
    PausedStill
    RunnerTypeOK
PROPERTIES
    NodeEndedItself
