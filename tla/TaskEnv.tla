------------------------------- MODULE TaskEnv -------------------------------
(***************************************************************************)
(* Where a brain turn runs and what its bridge is told: the working        *)
(* directory (daemon/execenv.py, gateway/worktree.py), the MCP settings    *)
(* file the backend writes into it (backend/_delegate.py), and the spawn   *)
(* budget in the daemon's own environment (daemon/loop.py).                *)
(*                                                                         *)
(* A turn is a first turn, which the harness prepares, or one of a drive's *)
(* later turns, which runs in the base directory as it is.  A worktree and *)
(* its branch are named after the task.  Between the writing of the        *)
(* settings and their reading lies the start of the agent's CLI.  All      *)
(* turns here run one kind of CLI, because two kinds share no settings     *)
(* file.  git, the file system and the CLI are external.                   *)
(***************************************************************************)
EXTENDS Naturals, FiniteSets

CONSTANTS
  Turns,          \* brain turns of one daemon
  Tasks,
  Base,           \* the daemon's working directory
  None,
  Budgets,        \* spawn budgets: FirstBudget of a task, or what is left of it
  FirstBudget,    \* OrchConfig.spawn_budget(0, depth) of a task
  Isolated,       \* KREWCLI_WORKTREE_ISOLATION
  Clis,           \* the kinds of CLI the turns may run
  Faulty          \* may git and writes fail, and the daemon stop

ASSUME EnvAssumption ==
  /\ Base \notin Tasks
  /\ None \notin Tasks \cup Turns \cup {Base}
  /\ Budgets \subseteq Nat
  /\ FirstBudget \in [Tasks -> Budgets]
  /\ Isolated \in BOOLEAN
  /\ Clis \subseteq {"claude", "codex", "gemini", "bub"}
  /\ Faulty \in BOOLEAN

VARIABLES
  pc,         \* where each turn is
  task,       \* whose turn it is
  first,      \* is it a first turn
  due,        \* the spawn budget it is due
  dir,        \* its working directory; a task stands for its worktree
  bridge,     \* what its bridge was started with
  cli,        \* the kind of CLI
  environ,    \* os.environ["KREWCLI_ORCH_SPAWN_BUDGET"]
  settings,   \* the MCP settings file in each directory
  context,    \* .agent_context/task.json in each directory
  worktrees,  \* git: the worktrees,
  branches,   \* and their branches
  broken      \* history: tasks a failure may have left a worktree or branch of

turnVars == <<pc, task, first, due, dir, bridge>>
fileVars == <<settings, context>>
gitVars  == <<worktrees, branches, broken>>
vars == <<turnVars, cli, environ, fileVars, gitVars>>

Dirs == Tasks \cup {Base}

\* What the settings tell a bridge (KREWHUB_TASK_ID and the spawn budget).
Orders == [task : Tasks, budget : Budgets]

NoOrders == [task |-> None, budget |-> 0]

Init ==
  /\ pc = [r \in Turns |-> "idle"]
  /\ task = [r \in Turns |-> None]
  /\ first = [r \in Turns |-> TRUE]
  /\ due = [r \in Turns |-> 0]
  /\ dir = [r \in Turns |-> Base]
  /\ bridge = [r \in Turns |-> NoOrders]
  /\ cli \in Clis
  /\ environ = 0
  /\ settings = [d \in Dirs |-> NoOrders]
  /\ context = [d \in Dirs |-> None]
  /\ worktrees = {}
  /\ branches = {}
  /\ broken = {}

-----------------------------------------------------------------------------
(* A turn begins.                                                          *)

Moves(r, place) == pc' = [pc EXCEPT ![r] = place]

\* The metadata is written; if that fails, what was there stays or is cut off,
\* and the turn goes on.
Describes(t, d) ==
  \/ context' = [context EXCEPT ![d] = t]
  \/ Faulty /\ context' \in {context, [context EXCEPT ![d] = None]}

\* _harness_turn exports the budget long before the backend looks at it.
FirstTurnBegins(r, t) ==
  /\ pc[r] = "idle"
  /\ task' = [task EXCEPT ![r] = t]
  /\ due' = [due EXCEPT ![r] = FirstBudget[t]]
  /\ environ' = FirstBudget[t]
  /\ IF Isolated
       THEN Moves(r, "baseline") /\ UNCHANGED context
       ELSE Moves(r, "ready") /\ Describes(t, Base)
  /\ UNCHANGED <<first, dir, bridge, cli, settings, gitVars>>

\* OrchDrive._run_turn, when the first turn is over: the budget that is left
\* goes into the CLI's environment, not into the daemon's.
DriveTurnBegins(r, t, left) ==
  /\ pc[r] = "idle"
  /\ \E q \in Turns : task[q] = t /\ pc[q] = "over"
  /\ left <= FirstBudget[t]
  /\ task' = [task EXCEPT ![r] = t]
  /\ first' = [first EXCEPT ![r] = FALSE]
  /\ due' = [due EXCEPT ![r] = left]
  /\ Moves(r, "ready")
  /\ UNCHANGED <<dir, bridge, cli, environ, fileVars, gitVars>>

-----------------------------------------------------------------------------
(* ExecutionEnvironment.setup                                              *)

SetupFrame == UNCHANGED <<task, first, due, bridge, cli, environ, settings>>

\* The effective working directory is settled, and described.
WorksIn(r, d) ==
  /\ dir' = [dir EXCEPT ![r] = d]
  /\ Describes(task[r], d)
  /\ Moves(r, "ready")

BaselineRead(r) ==
  /\ pc[r] = "baseline"
  /\ Moves(r, "adding")
  /\ UNCHANGED <<dir, context, gitVars>> /\ SetupFrame

\* No repository, or git rev-parse fails: no worktree.
NoBaseline(r) ==
  /\ Faulty
  /\ pc[r] = "baseline"
  /\ WorksIn(r, Base)
  /\ UNCHANGED gitVars /\ SetupFrame

\* Mutant: an existing worktree or branch is taken over (git worktree add -B).
MutGitRefuses(t) == FALSE

\* git worktree add -b takes no branch and no directory that is there already.
GitRefuses(t) == t \in worktrees \cup branches

WorktreeAdded(r) ==
  /\ pc[r] = "adding"
  /\ ~GitRefuses(task[r])
  /\ worktrees' = worktrees \cup {task[r]}
  /\ branches' = branches \cup {task[r]}
  /\ WorksIn(r, task[r])
  /\ UNCHANGED broken /\ SetupFrame

\* A twin's worktree, or what a crash has left: the turn uses the base directory.
WorktreeRefused(r) ==
  /\ pc[r] = "adding"
  /\ GitRefuses(task[r])
  /\ WorksIn(r, Base)
  /\ UNCHANGED gitVars /\ SetupFrame

\* git is killed on its timeout, or stopped with the daemon; it makes the branch
\* before the worktree.
HalfAdded(t) ==
  /\ ~GitRefuses(t)
  /\ branches' = branches \cup {t}
  /\ worktrees' \in {worktrees, worktrees \cup {t}}
  /\ broken' = broken \cup {t}

WorktreeFails(r) ==
  /\ Faulty
  /\ pc[r] = "adding"
  /\ HalfAdded(task[r]) \/ UNCHANGED gitVars
  /\ WorksIn(r, Base)
  /\ SetupFrame

-----------------------------------------------------------------------------
(* The backend's runner and the agent's CLI.                               *)

RunnerFrame == UNCHANGED <<task, first, due, dir, cli, environ, context, gitVars>>

\* Mutant: the settings of all turns are in the daemon's directory.
MutSettingsDir(r) == Base

SettingsDir(r) == dir[r]

\* One file per directory; _bridge_env takes the budget from the daemon's
\* environment.
Writes(r) ==
  /\ pc[r] = "ready"
  /\ settings' = [settings EXCEPT ![SettingsDir(r)] = [task |-> task[r], budget |-> environ]]
  /\ Moves(r, "starting")
  /\ UNCHANGED bridge /\ RunnerFrame

\* The file is named on the command line.
WritesClaudeConfig(r) == cli = "claude" /\ Writes(r)

\* The directory goes into the CLI's environment.
WritesCodexHome(r) == cli = "codex" /\ Writes(r)

\* The CLI finds the file in its working directory.
WritesGeminiSettings(r) == cli = "gemini" /\ Writes(r)

WritesSettings(r) == WritesClaudeConfig(r) \/ WritesCodexHome(r) \/ WritesGeminiSettings(r)

\* The write fails: the brain goes without its bridge; gemini, which is not told
\* of a file, finds what an earlier turn has left.
SettingsFail(r) ==
  /\ Faulty
  /\ cli # "bub"
  /\ pc[r] = "ready"
  /\ Moves(r, IF cli = "gemini" THEN "starting" ELSE "working")
  /\ UNCHANGED <<bridge, settings>> /\ RunnerFrame

HasNoBridge(r) ==
  /\ cli = "bub"
  /\ pc[r] = "ready"
  /\ Moves(r, "working")
  /\ UNCHANGED <<bridge, settings>> /\ RunnerFrame

\* The CLI is up, reads the settings and starts its bridge.
CliStarts(r) ==
  /\ pc[r] = "starting"
  /\ bridge' = [bridge EXCEPT ![r] = settings[SettingsDir(r)]]
  /\ Moves(r, "working")
  /\ UNCHANGED settings /\ RunnerFrame

-----------------------------------------------------------------------------
(* ExecutionEnvironment.teardown                                           *)

TeardownFrame == UNCHANGED <<task, first, due, dir, bridge, cli, environ>>

Finished == {"idle", "over"}

TurnEnds(r) ==
  /\ pc[r] \in {"ready", "starting", "working"}
  /\ Moves(r, IF dir[r] = Base THEN "over" ELSE "removing")
  /\ UNCHANGED <<fileVars, gitVars>> /\ TeardownFrame

Vanishes(t) ==
  /\ worktrees' = worktrees \ {t}
  /\ settings' = [settings EXCEPT ![t] = NoOrders]
  /\ context' = [context EXCEPT ![t] = None]

\* git worktree remove --force: with it goes what was not committed.
WorktreeRemoved(r) ==
  /\ pc[r] = "removing"
  /\ Vanishes(task[r])
  /\ Moves(r, "unbranching")
  /\ UNCHANGED <<branches, broken>> /\ TeardownFrame

\* git refuses, which is logged, or its timeout is raised and ends the teardown.
RemoveFails(r) ==
  /\ Faulty
  /\ pc[r] = "removing"
  /\ Moves(r, "unbranching") \/ Moves(r, "over")
  /\ broken' = broken \cup {task[r]}
  /\ UNCHANGED <<fileVars, worktrees, branches>> /\ TeardownFrame

\* Mutant: the branch stays.
MutBranchDeleted(r) ==
  /\ pc[r] = "unbranching"
  /\ Moves(r, "over")
  /\ UNCHANGED <<fileVars, gitVars>> /\ TeardownFrame

\* git branch -D refuses a branch that is checked out in a worktree.
BranchDeleted(r) ==
  /\ pc[r] = "unbranching"
  /\ branches' = IF task[r] \in worktrees THEN branches ELSE branches \ {task[r]}
  /\ Moves(r, "over")
  /\ UNCHANGED <<fileVars, worktrees, broken>> /\ TeardownFrame

\* The daemon stops or the harness is left by an exception: no teardown.
Abandons(r) ==
  /\ Faulty
  /\ pc[r] \notin Finished
  /\ Moves(r, "over")
  /\ \/ pc[r] = "adding" /\ HalfAdded(task[r])
     \/ /\ broken' = IF dir[r] = Base THEN broken ELSE broken \cup {task[r]}
        /\ UNCHANGED <<worktrees, branches>>
  /\ UNCHANGED fileVars /\ TeardownFrame

-----------------------------------------------------------------------------
SetsUp(r) ==
  \/ BaselineRead(r) \/ NoBaseline(r)
  \/ WorktreeAdded(r) \/ WorktreeRefused(r) \/ WorktreeFails(r)

Runner(r) == WritesSettings(r) \/ SettingsFail(r) \/ HasNoBridge(r) \/ CliStarts(r)

TearsDown(r) == WorktreeRemoved(r) \/ RemoveFails(r) \/ BranchDeleted(r)

Next ==
  \E r \in Turns :
    \/ \E t \in Tasks : FirstTurnBegins(r, t) \/ \E left \in Budgets : DriveTurnBegins(r, t, left)
    \/ SetsUp(r) \/ Runner(r) \/ TurnEnds(r) \/ TearsDown(r) \/ Abandons(r)

Spec == Init /\ [][Next]_vars

-----------------------------------------------------------------------------
(* Properties.                                                             *)

\* The types of the variables.
TypeOK ==
  /\ pc \in [Turns -> {"idle", "baseline", "adding", "ready", "starting", "working",
                       "removing", "unbranching", "over"}]
  /\ task \in [Turns -> Tasks \cup {None}]
  /\ first \in [Turns -> BOOLEAN]
  /\ due \in [Turns -> Budgets \cup {0}]
  /\ dir \in [Turns -> Dirs]
  /\ \A r \in Turns : pc[r] \in {"removing", "unbranching"} => dir[r] = task[r]
  /\ bridge \in [Turns -> Orders \cup {NoOrders}]
  /\ cli \in Clis
  /\ environ \in Budgets \cup {0}
  /\ settings \in [Dirs -> Orders \cup {NoOrders}]
  /\ context \in [Dirs -> Tasks \cup {None}]
  /\ worktrees \subseteq Tasks
  /\ branches \subseteq Tasks
  /\ broken \subseteq Tasks

AtWork == {r \in Turns : pc[r] \in {"ready", "starting", "working"}}

InWorktree == {r \in AtWork : dir[r] # Base}

(* A turn that got a worktree has it to itself and keeps it to its end,    *)
(* and finds its own task's metadata in it or none, whatever twins of the  *)
(* run, earlier failures and crashes have left behind                      *)
(* (execenv.py:107-143, 230-234).                                          *)
WorktreeIsOwn ==
  \A r \in InWorktree :
    /\ dir[r] \in worktrees \cap branches
    /\ context[dir[r]] \in {task[r], None}
    /\ \A q \in InWorktree : dir[q] = dir[r] => q = r

(* The bridge of a turn in a worktree acts for the turn's own task,        *)
(* although other turns write their settings between this turn's writing   *)
(* and its CLI's reading (_delegate.py:347-370).                           *)
IsolatedActsForOwnTask ==
  \A r \in InWorktree : bridge[r] # NoOrders => bridge[r].task = task[r]

(* A worktree or branch that no failure has left behind belongs to a turn  *)
(* that is under way; so the next turn of a task can have one again        *)
(* (worktree.py:146-177).                                                  *)
NoLeftovers ==
  \A t \in (worktrees \cup branches) \ broken :
    \E r \in Turns : task[r] = t /\ dir[r] = t /\ pc[r] \notin Finished

(* What the repository says and the code does not do.                      *)

(* _delegate.py:385-390: a "per-task" home whose "Per-task isolation keeps *)
(* stale KREWHUB_* env from prior runs out of this codex session".         *)
ActsForOwnTask == \A r \in AtWork : bridge[r] # NoOrders => bridge[r].task = task[r]

(* orch_drive.py:262-263: the budget in the turn's environment "caps       *)
(* spawns this turn".                                                      *)
BudgetIsDue == \A r \in AtWork : bridge[r] # NoOrders => bridge[r].budget <= due[r]
=============================================================================
