SPECIFICATION GFairSpec
CONSTANTS
    Scenarios <- Progress
    MaxQueue = 2
    SignalCap = 0
PROPERTIES
    PauseHonoured
    StopEnds
    WaitsEnd
