CONSTANTS
    MaxL2Block = 3
    MaxReorgs = 0
    MaxErrors = 2
    MaxLost = 0
    NoRoot = NoRoot
SPECIFICATION FairSpec
INVARIANT ContentMatches
INVARIANT WaitsForPending
PROPERTY LedgerSpec
 
