CONSTANTS
    InitialBlock = 3
    LastBlock = 5
    MaxForks = 0
    ZeroHash = ZeroHash
    ChunkSize = 1
    BufferSize = 2
    HaltBlocks <- OnFirstBranch
    MaxRestarts = 0
SPECIFICATION Spec
INVARIANT StoppedUntilReorg
