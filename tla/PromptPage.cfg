SPECIFICATION FairSpec
CONSTANTS
    MaxSockets = 2
    MaxTasks = 3
    MaxDisturbances = 1
    MaxPrompts = 2
    MaxMessages = 2
INVARIANTS
    PageIsTrue
PROPERTIES
    PageMovesOn
CHECK_DEADLOCK FALSE
