SPECIFICATION FairSpec
CONSTANTS
    Agents = {0, 1}
    Main = {}
    Requesters = {1}
    Modulus = 4
    SpuriousWakes = FALSE
    MayShutdown = FALSE
PROPERTY StopHappens
