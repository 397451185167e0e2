------------------------------ MODULE MCTaskEnv ------------------------------
(* Instances of TaskEnv for TLC.                                           *)
EXTENDS TaskEnv, TLC

CONSTANTS top, deep

\* A task at the top of its tree, and one at max_depth, which may not spawn.
MCTasks == {top, deep}
MCFirstBudget == (top :> 1) @@ (deep :> 0)

MCSymmetry == Permutations(Turns)
=============================================================================
