CONSTANTS
    a = a
    b = b
    h = h
    Txn = {a, b, h}
    Elp = {sleep, awake}
    None = None
    prio <- MCPrio
    Aggregated <- MCAggregated
    MaxRestarts = 0
    MaxFailedStarts = 0
SPECIFICATION FairSpec
INVARIANTS
    Inv
    InOnePlace
    AggregateSentWhole
PROPERTY EveryTxnCompletes
