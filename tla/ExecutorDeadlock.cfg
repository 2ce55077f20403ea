SPECIFICATION FairSpec
CONSTANTS
    N = 3
    Channels = {"a", "b"}
    Regions <- MCRegions
    Priorities <- MCNoPriorities
    MaxPriority = 3
    Strategies = {"loop"}
    Reports = TRUE
PROPERTY DeadlockReported
CHECK_DEADLOCK FALSE
