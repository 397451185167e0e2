SPECIFICATION Spec
CONSTANTS
  root = root
  child = child
  other = other
  None = None
  Tasks = {root}
  Runs = {r1, r2}
  Child <- MCChild
  MaxConcurrent = 1
  Faulty = FALSE
  MaxInvocations = 0
  MaxCancels = 0
  MaxReopens = 0
  MaxStops = 0
PROPERTIES
  PendingIsNotDone
