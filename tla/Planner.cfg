SPECIFICATION FairSpec
CONSTANTS
  MaxBundles = 2
  MaxBlocks = 2
  None = none
PROPERTIES
  EveryBundleTried
  ClaimsGoOn
CHECK_DEADLOCK FALSE
