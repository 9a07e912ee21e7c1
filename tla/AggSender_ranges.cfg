CONSTANTS
    MaxL2Block = 2
    MaxReorgs = 1
    MaxErrors = 1
    MaxLost = 1
    NoRoot = NoRoot
SPECIFICATION Spec
INVARIANT RangesTile
