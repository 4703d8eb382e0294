CONSTANTS
    NumEntries = 6
    TxDuringReset = FALSE
SPECIFICATION TableSpec
INVARIANT TableInv
PROPERTY ResetFreesExactlySent
