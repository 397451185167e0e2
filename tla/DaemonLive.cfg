SPECIFICATION FairSpec
CONSTANTS
  root = root
  child = child
  other = other
  None = None
  Tasks = {root, child, other}
  Runs = {r1, r2, r3}
  Child <- MCChild
  MaxConcurrent = 1
  Faulty = FALSE
  MaxInvocations = 0
  MaxCancels = 0
  MaxReopens = 1
  MaxStops = 0
INVARIANTS
  RunningIsExact
  OneRunPerTask
  ClaimsFitSlots
PROPERTIES
  OpenIsTaken
  DrivesEnd
