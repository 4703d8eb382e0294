CONSTANTS
    NumTxBlocks = 9
    TxBlocksThresholdPerAc <- MCThresh
    NumTxDescriptors = 2
    BlkMod = 9
    DescMod = 3
    Traffic <- MCTraffic
    FwFreeSizes = {2, 3}
SPECIFICATION FairSpec
INVARIANTS
    IndInv
    FwNeverOvercommitted
    GuaranteedMinimum
PROPERTIES
    ImplementsPool
    BusyQueueReleased
