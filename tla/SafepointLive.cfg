SPECIFICATION FairSpec
CONSTANTS
    Agents = {0, 1, 2}
    Main = {}
    Requesters = {1}
    Modulus = 2
    SpuriousWakes = TRUE
    MayShutdown = TRUE
CHECK_DEADLOCK FALSE
PROPERTY StopHappens
PROPERTY BarrierEmpties
PROPERTY RunReturns
