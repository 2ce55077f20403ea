SPECIFICATION FairSpec
CONSTANTS
    Agents = {0, 1, 2}
    Main = {}
    Requesters = {0, 1}
    Modulus = 4
    SpuriousWakes = TRUE
    MayShutdown = FALSE
PROPERTY StopHappens
