SPECIFICATION FairSpec
CONSTANTS
  Kids = {a, b}
  Root = root
  None = none
  MaxChildren = 2
  MaxSpawnsPerTurn = 1
  MaxTurns = 2
  KidsMaySpawn = TRUE
  Faulty = TRUE
  MaxActs = 1
INVARIANTS
  TypeOK
  FinishedBlindOrQuiescent
  HeardBeforeAcked
PROPERTIES
  DriveEnds
CHECK_DEADLOCK FALSE
