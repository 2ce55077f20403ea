SPECIFICATION FairSpec
CONSTANTS
    j1 = j1
    j2 = j2
    j3 = j3
    N = 2
    Jobs = {j1, j2, j3}
    Placed <- MCPlaced
    Hosts = {h}
    Capacity = 2
    Steps = 1
    Strays = 1
INVARIANT TypeOK
INVARIANT JobInOnePlace
INVARIANT ParkedIsWaiting
INVARIANT NobodySleepsOnWork
INVARIANT EarlyWakesAreClaimed
INVARIANT ShutdownLeavesNoSleeper
PROPERTY JobsFinish
CHECK_DEADLOCK FALSE
