SPECIFICATION Spec
CONSTANTS
  Height = 2
  RollupIDs <- TwoRollups
  Finalized = 1
  LastBlock = 3
  MaxForks = 1
  MaxRolledBack = 1
  MaxFaults = 1
CHECK_DEADLOCK FALSE
 
INVARIANT ExitRootsAgree
 
