SPECIFICATION FairSpec
CONSTANTS
    Provers = {p1, p2}
    L1Sequences <- TwoSequences
    Backends = {"l1"}
    MaxFailures = 1
    MaxBusy = 0
    MaxExpired = 0
    MaxRollbacks = 0
    MaxReorgs = 0
    MaxRestarts = 0
    None = None
INVARIANT NoDoubleWork
INVARIANT ProofsValid
PROPERTY AllVerified
