SPECIFICATION ISpec
CONSTANTS
    Indexes <- ProgramIndexes
    Known = {54}
    Feeds = {0, 1}
    Calls = {"g90", "g91", "g04", "e", "set_coord", "coord_set_zero", "m02", "m00", "g01", "g00",
             "g01_group", "drill", "f", "points_g90", "points_g91", "points_f", "push"}
    MaxCommands = 5
    MaxPoints = 1
INVARIANTS
    ModalSettings
    EndsOnce
    MovesInKnownSystems
CONSTRAINT GroupsAlone
CHECK_DEADLOCK FALSE
