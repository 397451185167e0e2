SPECIFICATION FairSpec
CONSTANTS
  MaxCommands = 5
  MaxDaemons = 4
  None = none
  Overlap = FALSE
INVARIANTS
  OneDaemon
  StopFindsIt
PROPERTIES
  StopWorks
CHECK_DEADLOCK FALSE
