SPECIFICATION Spec
CONSTANTS
    Fibers = {f1, f2}
    Places = {p1, p2, p3}
    Maps = {m1, m2, m3}
    Requests = {1, 5}
    MinStack = 2
    Align = 2
    Page = 4
    MaxParked = 2
    Values = {v1, v2}
    None = None
    MaxYields = 2
INVARIANT TypeOK
INVARIANT MappedOnce
INVARIANT ActiveIsRunning
INVARIANT FateIsRecorded
INVARIANT SliceIsOfThisTurn
PROPERTY InputReachesYield
PROPERTY StackFits
PROPERTY RemovesTheFinished
SYMMETRY Symmetry
CHECK_DEADLOCK FALSE
