CONSTANTS
    InitialBlock = 3
    LastBlock = 5
    MaxForks = 1
    ZeroHash = ZeroHash
    ChunkSize = 1
    BufferSize = 2
    HaltBlocks = {}
    MaxRestarts = 1
SPECIFICATION FairSpec
INVARIANT StaleIsTracked
PROPERTY Converges
