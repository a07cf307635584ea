SPECIFICATION GSpec
CONSTANTS
    Scenarios <- NestedStop
    MaxQueue = 2
    SignalCap = 1
INVARIANTS
    StoppedMeansStopped
