SPECIFICATION CoordSpec
CONSTANTS
    x = x
    Axes = {x}
    FirstAxis = x
    Indexes = {54}
    Defaults = {55}
    Values <- OddValues
    Starts = {1}
    None = None
    Far = 2
    Fine = 2
    Grid = 2
    Ops = {"Offset", "Global", "Limits", "Axis", "Origin", "SetZero", "Restart", "NoFile",
           "Line", "Panel", "Jog", "Group"}
    Bound = 1
    MaxPoints = 2
INVARIANTS
    MachineCacheFresh
    GroupAsWritten
PROPERTIES
    SetMeansRead
    RestartKeeps
    LimitsHold
