SPECIFICATION FairSpec
CONSTANTS
    N = 3
    Channels = {"a", "b"}
    Regions <- MCRegions
    Priorities <- MCPriorities
    MaxPriority = 3
    Strategies = {"loop", "oneshot"}
    Reports = TRUE
INVARIANT TypeOK
INVARIANT EachStatementOnce
INVARIANT ExitMeansDone
INVARIANT DeadlockIsReal
PROPERTY StrictPriority
PROPERTY TakesTurns
PROPERTY RegionEnds
PROPERTY PriorityDeadlockReported
CHECK_DEADLOCK FALSE
