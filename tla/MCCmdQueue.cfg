CONSTANTS
    c1 = c1
    c2 = c2
    cfg = cfg
    map = map
    Cmd <- MCCmd
    ConfigCmd = cfg
    MemoryMapCmd = map
    Callback <- MCCallback
    None = None
    Depth = 2
    MAX_NUM_OF_RECOVERY_TRIGGERS = 3
    Timers = {"mbox", "fail"}
SPECIFICATION FairSpec
INVARIANTS
    Inv
    AwakeWhileBusy
PROPERTIES
    ImplementsService
    EveryCommandEnds
CHECK_DEADLOCK FALSE
