SPECIFICATION Spec
CONSTANTS
  top = top
  deep = deep
  Base = base
  None = none
  Turns = {r1, r2}
  Tasks <- MCTasks
  Budgets = {0, 1}
  FirstBudget <- MCFirstBudget
  Clis = {"codex"}
  Isolated = FALSE
  Faulty = FALSE
SYMMETRY MCSymmetry
INVARIANTS
  ActsForOwnTask
CHECK_DEADLOCK FALSE
