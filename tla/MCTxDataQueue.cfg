CONSTANTS
    uNumQueues = 2
    aQueueMaxSize <- MCMaxSize
    aTxSendPaceThresh <- MCThresh
    priorityOrderedAc <- MCOrder
    bStopNetStackTx = TRUE
    NumTxDescriptors = 1
    SMP = FALSE
SPECIFICATION FairSpec
INVARIANTS
    IndInv
    NothingForgotten
PROPERTY EveryQueueOffered
