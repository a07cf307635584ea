SPECIFICATION CoordSpec
CONSTANTS
    x = x
    Axes = {x}
    FirstAxis = x
    Indexes = {54}
    Defaults = {55}
    Values <- OddValues
    Starts = {1}
    None = None
    Far = 2
    Fine = 2
    Grid = 2
    Ops = {"Global", "SetZero"}
    Bound = 2
    MaxPoints = 1
PROPERTIES
    SetZeroReadsZero
