SPECIFICATION Spec
CONSTANTS
    l1 = l1
    l2 = l2
    Undef = Undef
    Locals = {l1, l2}
    Data = {0, 1}
    ReservedSlots = 1
    Functions <- MCFunctions
INVARIANT TypeOK
INVARIANT SlotsKeptApart
 
PROPERTY ImplementsFn
