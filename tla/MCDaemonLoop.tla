---------------------------- MODULE MCDaemonLoop ----------------------------
(* Small instances of DaemonLoop: a root task whose brain may spawn a      *)
(* child, and tasks nobody is the parent of.                               *)
EXTENDS DaemonLoop, TLC

CONSTANTS root, child, other

\* root may spawn child; other is a task of its own.
MCChild == [t \in Tasks |-> IF t = root /\ child \in Tasks THEN child ELSE None]

\* Run names are interchangeable.
MCSymmetry == Permutations(Runs)
=============================================================================
