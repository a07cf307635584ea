SPECIFICATION Spec
CONSTANTS
    MaxPos = 2
    MaxStep = 1
    BackDist = 1
    MaxDelay = 1
    MaxSegments = 1
    MaxRecords = 2
    Kinds = {"G00"}
    Delays = {1}
    Events = {}
INVARIANTS
    TaskHoldsAxis
    WayBackKept
PROPERTIES
    NoCmdAxisJump
    WarningHoldsAxis
    RequestsComplete
