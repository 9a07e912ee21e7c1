SPECIFICATION FairSpec
CONSTANTS
    MaxBatch = 3
    Coinbase <- OneCoinbase
    Size <- MCSize
    Undecodable <- NoBatch
    Banana = FALSE
    MaxBatchesForL1 = 1
    MaxTxSizeForL1 = 0
    MaxPendingTx = 2
    ForkUpgradeBatchNumber = 0
    MaxTx = 3
    MaxFaults = 0
    MaxForgotten = 0
    MaxRestarts = 0
    MaxReorgs = 1
INVARIANT NoTxFails
PROPERTY AllSequenced
