SPECIFICATION Spec
CONSTANTS
    Thieves = {t1, t2}
    Capacity = 2
    Half = 4
    Starts = {0, 3}
    MaxPushes = 5
INVARIANT TypeOK
INVARIANT ThiefHoldsTop
INVARIANT ExactlyOnce
PROPERTY Linearizable
CHECK_DEADLOCK FALSE
