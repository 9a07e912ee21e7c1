SPECIFICATION Spec
CONSTANTS
    MaxBatch = 4
    Coinbase <- MCCoinbase
    Size <- MCSize
    Undecodable <- FourthBatch
    Banana = TRUE
    MaxBatchesForL1 = 0
    MaxTxSizeForL1 = 3
    MaxPendingTx = 1
    ForkUpgradeBatchNumber = 2
    MaxTx = 3
    MaxFaults = 1
    MaxForgotten = 1
    MaxRestarts = 2
    MaxReorgs = 1
CHECK_DEADLOCK FALSE
INVARIANT L1InOrder
INVARIANT NoBatchLost
