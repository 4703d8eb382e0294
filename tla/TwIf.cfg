CONSTANTS
    Requests = {"txn"}
    Events = {"rx"}
    None = None
    MaxHolders = 1
    MaxErrors = 1
SPECIFICATION FairSpec
INVARIANTS
    Inv
    BusNeedsAwake
PROPERTIES
    NoEventOverwritten
    EveryTxnCompletes
    EveryEventHandled
    ChipSleeps
CHECK_DEADLOCK FALSE
