SPECIFICATION Spec
CONSTANTS
  top = top
  deep = deep
  Base = base
  None = none
  Turns = {r1, r2, r3}
  Tasks <- MCTasks
  Budgets = {0, 1}
  FirstBudget <- MCFirstBudget
  Clis = {"claude", "codex", "gemini", "bub"}
  Isolated = TRUE
  Faulty = TRUE
SYMMETRY MCSymmetry
INVARIANTS
  WorktreeIsOwn
  IsolatedActsForOwnTask
  NoLeftovers
CHECK_DEADLOCK FALSE
