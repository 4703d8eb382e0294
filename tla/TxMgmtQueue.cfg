CONSTANTS
    CtrlBlk = {b1, b2, b3}
    NoBlk = NoBlk
    Depth = 2
SPECIFICATION FairSpec
INVARIANTS
    Inv
    OnlyPermittedSent
    BusyHasWaker
PROPERTIES
    FirstComeFirstServed
    PermittedPacketsProgress
