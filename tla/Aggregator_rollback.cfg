SPECIFICATION Spec
CONSTANTS
    Provers = {p1, p2}
    L1Sequences <- OneSequence
    Backends = {"l1", "agglayer"}
    MaxFailures = 1
    MaxBusy = 1
    MaxExpired = 0
    MaxRollbacks = 1
    MaxReorgs = 1
    MaxRestarts = 1
    None = None
INVARIANT BaseHash
CHECK_DEADLOCK FALSE
SYMMETRY Symmetry
