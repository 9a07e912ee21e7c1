CONSTANTS
    StartingEpochBlock = 2
    NumBlockPerEpoch = 3
    Percentages = {0, 50, 99}
    FirstBlock = 1
    LastBlock = 7
    MaxFaults = 1
    MaxWaiting = 2
    NoStatus = NoStatus
    StartConfigs <- MCStartConfigs
    GlobalIndexes = {g1, g2}
    Invalid = {g2}
    MaxClaims = 2
    MaxSponsorFaults = 1
    MaxRetryAttemptsAfterError <- NoLimit
    Committees <- MCCommittees
    Hashes <- MCHashes
    NSubs = 2
    Low = 3
    High = 4
    Finalized = 3
    MaxNetReorgs = 1
    ProofKinds = {"batch", "final"}
    MaxJobs = 3
    MaxBadAnswers = 1
    TreeHeight = 3
    LeafHashes <- MCLeafHashes
    Batches <- MCBatches
    ByteBase = 32
    SizeUInt32 = 2
    C0 = 20
    ShortRlp = 3
    RSLength = 1
    NFields = 2
    Defaults <- MCDefaults
    Specifics <- MCSpecifics
    Environment = {"E"}
    Text = "text"
    MaxVars = 16
    NCalls = 4
    GlobalIndices = {1, 2}
    BatchLists <- MCBatchLists
    InitCounts = {0, 1}
    MaxNewLeaves = 1
    MaxL1Changes = 1
    TimeMargin = 1
    TimestampRange = 1
    MaxTime = 3
SPECIFICATION NodeSpec
INVARIANT EpochsInOrder
 
 
INVARIANT SignaturesAccepted
 
INVARIANT RootOfLeaves
 
 
 
INVARIANT IndexesCovered
 
 
PROPERTY QueuedIsConcluded
PROPERTY PostReturns
PROPERTY ListForEachSubscriber
PROPERTY EverySubscriberIsTold
PROPERTY CycleIsFound
CHECK_DEADLOCK FALSE
