SPECIFICATION Spec
CONSTANTS
    MaxPos = 4
    MaxStep = 1
    BackDist = 2
    MaxDelay = 2
    MaxSegments = 2
    MaxRecords = 0
    Kinds = {"G00", "G01", "G04", "M00"}
    Delays = {2}
    Events = {}
INVARIANTS
    TypeOK
    NoBackOffInJump
    PowerFollowsMachining
PROPERTIES
    NoCmdAxisJump
    RequestsComplete
