CONSTANTS
    t1 = t1
    t2 = t2
    TID <- MCTid
    None = None
    ArraySize = 3
    SnMod = 14
    WinSizes = {2, 4}
    FirstNumber <- MCFirst
    LastNumber <- MCLast
    UntidyBars = FALSE
SPECIFICATION FairSpec
INVARIANTS
    Inv
    PassedInOrder
PROPERTIES
    GivenUpOnlyWhenDue
    EveryStoredPassed
CHECK_DEADLOCK FALSE
