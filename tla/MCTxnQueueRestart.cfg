CONSTANTS
    a = a
    b = b
    h = h
    Txn = {a, b}
    Elp = {awake}
    None = None
    prio <- MCPrio
    Aggregated <- MCAggregated
    MaxRestarts = 1
    MaxFailedStarts = 1
SPECIFICATION Spec
INVARIANTS
    NothingLost
    NoLostWakeup
