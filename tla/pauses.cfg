SPECIFICATION Spec
CONSTANTS
    MaxPos = 2
    MaxStep = 1
    BackDist = 1
    MaxDelay = 1
    MaxSegments = 2
    MaxRecords = 1
    Kinds = {"G01", "G01Group"}
    Delays = {1}
    Events = {}
INVARIANTS
    TaskHoldsAxis
    WayBackKept
    ResumeFindsPausedTask
    ModeMatchesRunner
