SPECIFICATION Spec
CONSTANTS
    MaxPos = 2
    MaxStep = 1
    BackDist = 1
    MaxDelay = 2
    MaxSegments = 1
    MaxRecords = 0
    Kinds = {"Manual", "G04"}
    Delays = {2}
    Events = {"LinkLost", "Stop"}
INVARIANTS
    EnabledWhenReady
PROPERTIES
    ManualMoveEnds
    ImplementsService
    CommandsAsPromised
CHECK_DEADLOCK FALSE
