SPECIFICATION Spec
CONSTANTS
    Agents = {0, 1, 2}
    Main = {0}
    Requesters = {0, 1}
    Modulus = 4
    SpuriousWakes = FALSE
    MayShutdown = TRUE
CHECK_DEADLOCK FALSE
INVARIANT TypeOK
INVARIANT StoppedIsCount
INVARIANT WorldStopped
INVARIANT OneCollector
INVARIANT RoundInv
PROPERTY ImplementsStopTheWorld
