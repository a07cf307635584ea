SPECIFICATION Spec
CONSTANTS
    MaxCommands = 1
PROPERTIES
    DestructorReturns
CHECK_DEADLOCK FALSE
