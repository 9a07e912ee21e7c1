SPECIFICATION FairSpec
CONSTANTS
  LastL1 = 2
  LastL2 = 1
  MaxL2 = 6
  MaxForks = 1
  BufferSize = 1
  MaxRestarts = 1
INVARIANT ImportsGrow
 
PROPERTY LastGERArrives
