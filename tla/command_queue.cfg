SPECIFICATION Spec
CONSTANTS
    MaxCommands = 5
INVARIANTS
    NothingLost
    NoSleepOnWork
PROPERTIES
    EveryCommandRuns
CHECK_DEADLOCK FALSE
