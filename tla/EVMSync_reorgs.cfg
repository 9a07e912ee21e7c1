CONSTANTS
    InitialBlock = 3
    LastBlock = 5
    MaxForks = 2
    ZeroHash = ZeroHash
    ChunkSize = 1
    BufferSize = 1
    HaltBlocks <- OnNewBranch
    MaxRestarts = 0
SPECIFICATION Spec
INVARIANT NoDuplicateBlock
 
