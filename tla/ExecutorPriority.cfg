SPECIFICATION FairSpec
CONSTANTS
    N = 3
    Channels = {"a", "b"}
    Regions <- MCRegions
    Priorities <- MCPriorities
    MaxPriority = 3
    Strategies = {"loop"}
    Reports = TRUE
PROPERTY DocumentedOrder
CHECK_DEADLOCK FALSE
