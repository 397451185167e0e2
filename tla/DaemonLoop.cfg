SPECIFICATION Spec
CONSTANTS
  root = root
  child = child
  other = other
  None = None
  Tasks = {root, child}
  Runs = {r1, r2}
  Child <- MCChild
  MaxConcurrent = 1
  Faulty = TRUE
  MaxInvocations = 1
  MaxCancels = 1
  MaxReopens = 0
  MaxStops = 1
SYMMETRY MCSymmetry
INVARIANTS
  TypeOK
  PermitsConserved
  NoSilentStranding
