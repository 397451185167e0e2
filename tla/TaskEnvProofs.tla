----------------------------- MODULE TaskEnvProofs -----------------------------
(* Theorems about TaskEnv and their proofs.                                *)
EXTENDS TaskEnv, TLAPS

-----------------------------------------------------------------------------
(* Types, and where a turn may be.                                         *)

Unsettled == {"idle", "baseline", "adding"}

(* A turn that has begun has a task, and works in the base directory or in *)
(* its task's worktree; the first to begin has exported its budget.        *)
DirsFit ==
  \A r \in Turns :
    /\ pc[r] # "idle" => task[r] \in Tasks /\ environ \in Budgets
    /\ dir[r] \in {Base, task[r]}
    /\ pc[r] \in Unsettled => dir[r] = Base

\* What is described in a worktree is its task.
Described == \A t \in Tasks : context[t] \in {t, None}

Fits == TypeOK /\ DirsFit /\ Described

LEMMA BeginFits ==
  ASSUME Fits, NEW r \in Turns, NEW t \in Tasks,
         FirstTurnBegins(r, t) \/ \E left \in Budgets : DriveTurnBegins(r, t, left)
  PROVE  Fits'
<1> USE EnvAssumption DEF EnvAssumption, Fits, TypeOK, DirsFit, Described, Unsettled, fileVars,
        gitVars, Moves, Dirs, Describes
<1>1. CASE FirstTurnBegins(r, t)
  <2>1. FirstBudget[t] \in Budgets
    OBVIOUS
  <2>2. pc' = [pc EXCEPT ![r] = "baseline"] \/ pc' = [pc EXCEPT ![r] = "ready"]
    BY <1>1 DEF FirstTurnBegins
  <2>3. context' \in [Dirs -> Tasks \cup {None}]
    BY <1>1 DEF FirstTurnBegins
  <2> QED BY <1>1, <2>1, <2>2, <2>3 DEF FirstTurnBegins
<1>2. ASSUME NEW left \in Budgets, DriveTurnBegins(r, t, left) PROVE Fits'
  BY <1>2 DEF DriveTurnBegins
<1> QED BY <1>1, <1>2

LEMMA SetupFits ==
  ASSUME Fits, NEW r \in Turns, SetsUp(r)
  PROVE  Fits'
<1>t. pc[r] \in Unsettled /\ task[r] \in Tasks /\ dir[r] = Base
  BY DEF Fits, DirsFit, Unsettled, SetsUp, BaselineRead, NoBaseline, WorktreeAdded,
         WorktreeRefused, WorktreeFails
<1> USE <1>t, EnvAssumption DEF EnvAssumption, Fits, TypeOK, DirsFit, Described, Unsettled,
        SetupFrame, gitVars, Moves, Dirs, WorksIn, Describes
<1>1. CASE BaselineRead(r)
  BY <1>1 DEF BaselineRead
<1>2. CASE NoBaseline(r) \/ WorktreeRefused(r)
  BY <1>2 DEF NoBaseline, WorktreeRefused
<1>3. CASE WorktreeAdded(r)
  BY <1>3 DEF WorktreeAdded
<1>4. CASE WorktreeFails(r)
  BY <1>4 DEF WorktreeFails, HalfAdded
<1> QED BY <1>1, <1>2, <1>3, <1>4 DEF SetsUp

LEMMA RunnerFits ==
  ASSUME Fits, NEW r \in Turns, Runner(r)
  PROVE  Fits'
<1> USE DEF Fits, TypeOK, DirsFit, Described, Unsettled, RunnerFrame, gitVars, Moves, Dirs, SettingsDir
<1>1. CASE Writes(r)
  <2>1. [task |-> task[r], budget |-> environ] \in Orders
    BY <1>1 DEF Writes, Orders
  <2> QED BY <1>1, <2>1 DEF Writes
<1>2. CASE SettingsFail(r) \/ HasNoBridge(r)
  BY <1>2 DEF SettingsFail, HasNoBridge
<1>3. CASE CliStarts(r)
  BY <1>3 DEF CliStarts
<1> QED BY <1>1, <1>2, <1>3
        DEF Runner, WritesSettings, WritesClaudeConfig, WritesCodexHome, WritesGeminiSettings

LEMMA EndFits ==
  ASSUME Fits, NEW r \in Turns, TurnEnds(r) \/ TearsDown(r) \/ Abandons(r)
  PROVE  Fits'
<1>t. task[r] \in Tasks
  BY DEF Fits, DirsFit, TurnEnds, TearsDown, Abandons, WorktreeRemoved, RemoveFails,
         BranchDeleted, Finished
<1> USE <1>t DEF Fits, TypeOK, DirsFit, Described, Unsettled, TeardownFrame, fileVars, gitVars, Moves, Dirs
<1>1. CASE TurnEnds(r)
  BY <1>1 DEF TurnEnds
<1>2. CASE WorktreeRemoved(r)
  BY <1>2 DEF WorktreeRemoved, Vanishes
<1>3. CASE RemoveFails(r) \/ BranchDeleted(r)
  BY <1>3 DEF RemoveFails, BranchDeleted
<1>4. CASE Abandons(r)
  BY <1>4 DEF Abandons, HalfAdded, Finished
<1> QED BY <1>1, <1>2, <1>3, <1>4 DEF TearsDown

LEMMA StepFits == Fits /\ [Next]_vars => Fits'
<1> SUFFICES ASSUME Fits, [Next]_vars PROVE Fits'
  OBVIOUS
<1>1. CASE UNCHANGED vars
  BY <1>1 DEF Fits, TypeOK, DirsFit, Described, vars, turnVars, fileVars, gitVars
<1> QED BY <1>1, BeginFits, SetupFits, RunnerFits, EndFits DEF Next

LEMMA FitsHolds == Spec => []Fits
<1>1. Init => Fits
  BY EnvAssumption DEF EnvAssumption, Init, Fits, TypeOK, DirsFit, Described, Unsettled, Dirs
<1> QED BY <1>1, StepFits, PTL DEF Spec

(* A bridge is started with the orders of some task or with none, and a    *)
(* turn that is torn down with git works in its own worktree, for any      *)
(* turns, tasks and budgets.                                               *)
THEOREM TypesHold == Spec => []TypeOK
BY FitsHolds, PTL DEF Fits

-----------------------------------------------------------------------------
(* Who has a worktree.                                                     *)

Holds(r) == dir[r] # Base /\ pc[r] # "over"

\* What a turn holds is there, until its own teardown takes it away.
HeldIsThere ==
  \A r \in Turns :
    Holds(r) =>
      /\ dir[r] \in branches
      /\ pc[r] # "unbranching" => dir[r] \in worktrees
      /\ pc[r] = "unbranching" => dir[r] \notin worktrees \/ dir[r] \in broken

HeldByOne == \A r, q \in Turns : Holds(r) /\ Holds(q) /\ dir[r] = dir[q] => r = q

ThereIsHeld ==
  \A t \in (worktrees \cup branches) \ broken : \E r \in Turns : Holds(r) /\ dir[r] = t

Ownership == HeldIsThere /\ HeldByOne /\ ThereIsHeld

LEMMA HolderFacts ==
  ASSUME Fits, NEW r \in Turns, Holds(r)
  PROVE  dir[r] = task[r] /\ task[r] \in Tasks /\ pc[r] \notin Unsettled \cup Finished
BY DEF Fits, TypeOK, DirsFit, Dirs, Holds, Unsettled, Finished

\* A turn that works in the base directory disturbs nobody's worktree.
LEMMA Undisturbed ==
  ASSUME Fits, Ownership, NEW r \in Turns, dir[r] = Base, dir' = dir,
         pc' = [pc EXCEPT ![r] = pc'[r]],
         task' = [task EXCEPT ![r] = task'[r]],
         UNCHANGED gitVars \/ \E t \in Tasks : HalfAdded(t)
  PROVE  Ownership'
<1>1. \A q \in Turns : Holds(q)' <=> Holds(q)
  BY DEF Holds, Fits, TypeOK
<1>2. \A q \in Turns : Holds(q) => /\ q # r /\ dir[q] \in Tasks
                                   /\ pc'[q] = pc[q] /\ task'[q] = task[q]
  BY HolderFacts DEF Holds, Fits, TypeOK
<1>3. HeldByOne'
  BY <1>1 DEF Ownership, HeldByOne
<1>4. CASE UNCHANGED gitVars
  BY <1>1, <1>2, <1>3, <1>4 DEF Ownership, HeldIsThere, ThereIsHeld, gitVars
<1>5. ASSUME NEW t \in Tasks, HalfAdded(t) PROVE Ownership'
  <2>1. \A q \in Turns : Holds(q) => dir[q] # t
    BY <1>5 DEF HalfAdded, GitRefuses, Ownership, HeldIsThere
  <2>2. HeldIsThere'
    BY <1>1, <1>2, <1>5, <2>1 DEF HalfAdded, Ownership, HeldIsThere
  <2>3. ThereIsHeld'
    BY <1>1, <1>5 DEF HalfAdded, Ownership, ThereIsHeld
  <2> QED BY <1>3, <2>2, <2>3 DEF Ownership
<1> QED BY <1>4, <1>5

\* A turn in a worktree goes on to another stage before the branch is deleted.
LEMMA Proceeds ==
  ASSUME Fits, Ownership, NEW r \in Turns, Holds(r), pc[r] # "unbranching",
         NEW place, place \notin {"over", "unbranching"}, Moves(r, place),
         UNCHANGED <<dir, task, gitVars>>
  PROVE  Ownership'
<1>1. \A q \in Turns : (Holds(q)' <=> Holds(q)) /\ (q # r => pc'[q] = pc[q])
  BY DEF Holds, Fits, TypeOK, Moves
<1>2. pc'[r] = place
  BY DEF Fits, TypeOK, Moves
<1> QED BY <1>1, <1>2 DEF Ownership, HeldIsThere, HeldByOne, ThereIsHeld, gitVars

LEMMA BeginOwnership ==
  ASSUME Fits, Ownership, NEW r \in Turns, NEW t \in Tasks,
         FirstTurnBegins(r, t) \/ \E left \in Budgets : DriveTurnBegins(r, t, left)
  PROVE  Ownership'
<1>1. /\ pc' = [pc EXCEPT ![r] = pc'[r]] /\ task' = [task EXCEPT ![r] = task'[r]]
      /\ dir[r] = Base /\ UNCHANGED <<dir, gitVars>>
  BY EnvAssumption
     DEF EnvAssumption, FirstTurnBegins, DriveTurnBegins, Fits, TypeOK, DirsFit,
         Unsettled, Moves, fileVars, Dirs
<1> QED BY <1>1, Undisturbed

LEMMA SetupOwnership ==
  ASSUME Fits, Ownership, NEW r \in Turns, SetsUp(r)
  PROVE  Ownership'
<1>t. /\ pc[r] \in Unsettled \ {"idle"} /\ task[r] \in Tasks
      /\ dir[r] = Base /\ Base \notin Tasks
  BY EnvAssumption
     DEF EnvAssumption, Fits, DirsFit, Unsettled, SetsUp, BaselineRead, NoBaseline,
         WorktreeAdded, WorktreeRefused, WorktreeFails
<1>1. CASE BaselineRead(r) \/ NoBaseline(r) \/ WorktreeRefused(r) \/ WorktreeFails(r)
  <2>1. /\ pc' = [pc EXCEPT ![r] = pc'[r]] /\ task' = [task EXCEPT ![r] = task'[r]]
        /\ dir' = dir
    BY <1>t, <1>1
       DEF BaselineRead, NoBaseline, WorktreeRefused, WorktreeFails, SetupFrame,
           WorksIn, Moves, Fits, TypeOK, Dirs
  <2>2. UNCHANGED gitVars \/ HalfAdded(task[r])
    BY <1>1 DEF BaselineRead, NoBaseline, WorktreeRefused, WorktreeFails, gitVars
  <2> QED BY <1>t, <2>1, <2>2, Undisturbed
<1>2. CASE WorktreeAdded(r)
  <2>1. /\ dir' = [dir EXCEPT ![r] = task[r]] /\ pc' = [pc EXCEPT ![r] = "ready"]
        /\ task' = task
        /\ worktrees' = worktrees \cup {task[r]} /\ branches' = branches \cup {task[r]}
        /\ broken' = broken /\ task[r] \notin branches
    BY <1>2 DEF WorktreeAdded, WorksIn, SetupFrame, Moves, GitRefuses
  <2>2. /\ Holds(r)' /\ dir'[r] = task[r] /\ pc'[r] = "ready" /\ task'[r] = task[r]
    BY <1>t, <2>1 DEF Holds, Fits, TypeOK, Dirs
  <2>3. \A q \in Turns \ {r} : /\ Holds(q)' <=> Holds(q)
                               /\ dir'[q] = dir[q] /\ pc'[q] = pc[q] /\ task'[q] = task[q]
    BY <2>1 DEF Holds, Fits, TypeOK
  <2>4. \A q \in Turns \ {r} : Holds(q) => dir[q] # task[r] /\ dir[q] \in Tasks
    BY <2>1, HolderFacts DEF Ownership, HeldIsThere, Fits, TypeOK, Dirs
  <2>5. HeldIsThere'
    BY <2>1, <2>2, <2>3, <2>4 DEF Ownership, HeldIsThere
  <2>6. HeldByOne'
    BY <2>2, <2>3, <2>4 DEF Ownership, HeldByOne
  <2>7. ThereIsHeld'
    <3>1. ~Holds(r)
      BY <1>t DEF Holds
    <3> QED BY <2>1, <2>2, <2>3, <3>1 DEF Ownership, ThereIsHeld
  <2> QED BY <2>5, <2>6, <2>7 DEF Ownership
<1> QED BY <1>1, <1>2 DEF SetsUp

LEMMA RunnerOwnership ==
  ASSUME Fits, Ownership, NEW r \in Turns, Runner(r)
  PROVE  Ownership'
<1>1. /\ pc[r] \in {"ready", "starting"}
      /\ Moves(r, "starting") \/ Moves(r, "working")
      /\ UNCHANGED <<dir, task, gitVars>>
  BY DEF Runner, WritesSettings, WritesClaudeConfig, WritesCodexHome,
         WritesGeminiSettings, Writes, SettingsFail, HasNoBridge, CliStarts, RunnerFrame
<1>2. CASE dir[r] = Base
  BY <1>1, <1>2, Undisturbed DEF Moves, Fits, TypeOK
<1>3. CASE dir[r] # Base
  <2>1. Holds(r) /\ pc[r] # "unbranching"
    BY <1>1, <1>3 DEF Holds
  <2> QED BY <1>1, <2>1, Proceeds
<1> QED BY <1>2, <1>3

LEMMA EndOwnership ==
  ASSUME Fits, Ownership, NEW r \in Turns, TurnEnds(r) \/ Abandons(r)
  PROVE  Ownership'
<1>t. UNCHANGED <<dir, task>> /\ task[r] \in Tasks
  BY DEF TurnEnds, Abandons, TeardownFrame, fileVars, Fits, DirsFit, Finished
<1>1. CASE dir[r] = Base
  <2>1. pc' = [pc EXCEPT ![r] = pc'[r]] /\ task' = [task EXCEPT ![r] = task'[r]]
    BY <1>t DEF TurnEnds, Abandons, Moves, Fits, TypeOK
  <2>2. UNCHANGED gitVars \/ HalfAdded(task[r])
    BY <1>1 DEF TurnEnds, Abandons, gitVars
  <2> QED BY <1>t, <1>1, <2>1, <2>2, Undisturbed
<1>2. CASE dir[r] # Base /\ TurnEnds(r)
  <2>1. Holds(r) /\ pc[r] # "unbranching" /\ Moves(r, "removing") /\ UNCHANGED gitVars
    BY <1>2 DEF TurnEnds, Holds
  <2> QED BY <1>t, <2>1, Proceeds
<1>3. CASE dir[r] # Base /\ Abandons(r)
  <2>1. Holds(r) /\ dir[r] = task[r] /\ pc[r] # "adding"
    BY <1>3, HolderFacts DEF Abandons, Holds, Finished, Unsettled
  <2>2. /\ pc' = [pc EXCEPT ![r] = "over"] /\ broken' = broken \cup {task[r]}
        /\ UNCHANGED <<worktrees, branches>>
    BY <1>3, <2>1 DEF Abandons, Moves
  <2>3. ~Holds(r)' /\ \A q \in Turns \ {r} : (Holds(q)' <=> Holds(q)) /\ pc'[q] = pc[q]
    BY <1>t, <2>2 DEF Holds, Fits, TypeOK
  <2> QED BY <1>t, <2>1, <2>2, <2>3 DEF Ownership, HeldIsThere, HeldByOne, ThereIsHeld
<1> QED BY <1>1, <1>2, <1>3

LEMMA TeardownOwnership ==
  ASSUME Fits, Ownership, NEW r \in Turns, TearsDown(r)
  PROVE  Ownership'
<1>t. /\ pc[r] \in {"removing", "unbranching"} /\ Holds(r) /\ dir[r] = task[r]
      /\ task[r] \in Tasks /\ UNCHANGED <<dir, task>>
      /\ \A q \in Turns \ {r} : Holds(q) => dir[q] # task[r] /\ dir[q] \in Tasks
  <2>1. pc[r] \in {"removing", "unbranching"} /\ UNCHANGED <<dir, task>>
    BY DEF TearsDown, WorktreeRemoved, RemoveFails, BranchDeleted, TeardownFrame
  <2>2. dir[r] = task[r] /\ task[r] \in Tasks
    BY <2>1 DEF Fits, TypeOK, DirsFit
  <2>3. Holds(r)
    BY <2>1, <2>2, EnvAssumption DEF Holds, EnvAssumption
  <2> QED BY <2>1, <2>2, <2>3, HolderFacts DEF Ownership, HeldByOne
<1>o. \A q \in Turns \ {r} : (Holds(q)' <=> Holds(q)) /\ pc'[q] = pc[q]
  BY <1>t DEF TearsDown, WorktreeRemoved, RemoveFails, BranchDeleted, Moves, Holds,
              Fits, TypeOK
<1>h. HeldByOne'
  BY <1>t, <1>o DEF Ownership, HeldByOne
<1>1. CASE WorktreeRemoved(r)
  <2>1. /\ pc'[r] = "unbranching" /\ worktrees' = worktrees \ {task[r]}
        /\ UNCHANGED <<branches, broken>>
    BY <1>1 DEF WorktreeRemoved, Vanishes, Moves, Fits, TypeOK, Dirs
  <2>2. Holds(r)'
    BY <1>t, <2>1 DEF Holds
  <2>3. HeldIsThere'
    BY <1>t, <1>o, <2>1, <2>2 DEF Ownership, HeldIsThere
  <2>4. ThereIsHeld'
    BY <1>t, <1>o, <2>1, <2>2 DEF Ownership, ThereIsHeld
  <2> QED BY <1>h, <2>3, <2>4 DEF Ownership
<1>2. CASE RemoveFails(r)
  <2>1. /\ pc'[r] \in {"unbranching", "over"} /\ broken' = broken \cup {task[r]}
        /\ UNCHANGED <<worktrees, branches>>
    BY <1>2 DEF RemoveFails, Moves, Fits, TypeOK, fileVars
  <2>2. HeldIsThere'
    <3>1. dir'[r] \in branches' /\ dir'[r] \in broken'
      BY <1>t, <2>1 DEF Ownership, HeldIsThere
    <3>2. pc'[r] # "unbranching" => ~Holds(r)'
      BY <2>1 DEF Holds
    <3> QED BY <1>t, <1>o, <2>1, <3>1, <3>2 DEF Ownership, HeldIsThere
  <2>3. ThereIsHeld'
    BY <1>t, <1>o, <2>1 DEF Ownership, ThereIsHeld
  <2> QED BY <1>h, <2>2, <2>3 DEF Ownership
<1>3. CASE BranchDeleted(r)
  <2>1. /\ pc'[r] = "over" /\ UNCHANGED <<worktrees, broken>>
        /\ task[r] \notin worktrees \/ task[r] \in broken
        /\ branches' \in {branches, branches \ {task[r]}}
        /\ task[r] \in worktrees \/ task[r] \notin branches'
    BY <1>t, <1>3 DEF BranchDeleted, Moves, Fits, TypeOK, fileVars, Ownership, HeldIsThere
  <2>2. ~Holds(r)'
    BY <2>1 DEF Holds
  <2> QED BY <1>t, <1>o, <1>h, <2>1, <2>2 DEF Ownership, HeldIsThere, ThereIsHeld
<1> QED BY <1>1, <1>2, <1>3 DEF TearsDown

LEMMA StepOwnership == Fits /\ Ownership /\ [Next]_vars => Ownership'
<1> SUFFICES ASSUME Fits, Ownership, [Next]_vars PROVE Ownership'
  OBVIOUS
<1>1. CASE UNCHANGED vars
  BY <1>1 DEF Ownership, HeldIsThere, HeldByOne, ThereIsHeld, Holds, vars, turnVars,
              fileVars, gitVars
<1> QED BY <1>1, BeginOwnership, SetupOwnership, RunnerOwnership, EndOwnership,
           TeardownOwnership DEF Next

LEMMA OwnershipHolds == Spec => []Ownership
<1>1. Init => Ownership
  BY DEF Init, Ownership, HeldIsThere, HeldByOne, ThereIsHeld, Holds
<1> QED BY <1>1, StepOwnership, FitsHolds, PTL DEF Spec

(* A turn has its worktree to itself, with its own task's metadata or none *)
(* in it, for any turns and tasks (execenv.py:107-143, 230-234).           *)
THEOREM WorktreesAreOwn == Spec => []WorktreeIsOwn
<1>1. Fits /\ Ownership => WorktreeIsOwn
  <2> SUFFICES ASSUME Fits, Ownership PROVE WorktreeIsOwn
    OBVIOUS
  <2>1. \A r \in InWorktree : Holds(r) /\ r \in Turns /\ pc[r] # "unbranching"
    BY DEF Holds, InWorktree, AtWork
  <2>2. \A r \in InWorktree : context[dir[r]] \in {task[r], None}
    BY <2>1, HolderFacts DEF Fits, Described
  <2> QED BY <2>1, <2>2 DEF Ownership, HeldIsThere, HeldByOne, WorktreeIsOwn
<1> QED BY <1>1, FitsHolds, OwnershipHolds, PTL

(* Only failures leave a worktree or a branch behind, for any turns and    *)
(* tasks (worktree.py:146-177).                                            *)
THEOREM NothingLeftOver == Spec => []NoLeftovers
<1>1. Fits /\ Ownership => NoLeftovers
  BY HolderFacts DEF Ownership, ThereIsHeld, NoLeftovers
<1> QED BY <1>1, FitsHolds, OwnershipHolds, PTL

-----------------------------------------------------------------------------
(* Whom a bridge acts for.                                                 *)

(* A worktree's settings are its task's, a bridge was not there before the *)
(* CLI was up, and that of a turn in a worktree was started from there.    *)
OrdersFit ==
  /\ \A t \in Tasks : settings[t] # NoOrders => settings[t].task = t
  /\ \A r \in Turns :
       /\ pc[r] \in Unsettled \cup {"ready", "starting"} => bridge[r] = NoOrders
       /\ dir[r] # Base /\ bridge[r] # NoOrders => bridge[r].task = task[r]

LEMMA StepOrders == Fits /\ OrdersFit /\ [Next]_vars => OrdersFit'
<1> SUFFICES ASSUME Fits, OrdersFit, [Next]_vars PROVE OrdersFit'
  OBVIOUS
<1> USE DEF OrdersFit, Fits, TypeOK, DirsFit, Unsettled, Moves
<1>1. ASSUME NEW r \in Turns, NEW t \in Tasks,
             FirstTurnBegins(r, t) \/ \E left \in Budgets : DriveTurnBegins(r, t, left)
      PROVE  OrdersFit'
  BY <1>1 DEF FirstTurnBegins, DriveTurnBegins, fileVars
<1>2. ASSUME NEW r \in Turns, SetsUp(r) PROVE OrdersFit'
  BY <1>2 DEF SetsUp, BaselineRead, NoBaseline, WorktreeAdded, WorktreeRefused,
              WorktreeFails, WorksIn, SetupFrame
<1>3. ASSUME NEW r \in Turns, Writes(r) PROVE OrdersFit'
  <2>1. dir[r] \in Tasks => dir[r] = task[r]
    BY EnvAssumption DEF EnvAssumption
  <2> QED BY <1>3, <2>1 DEF Writes, RunnerFrame, SettingsDir
<1>4. ASSUME NEW r \in Turns, SettingsFail(r) \/ HasNoBridge(r) PROVE OrdersFit'
  BY <1>4 DEF SettingsFail, HasNoBridge, RunnerFrame
<1>5. ASSUME NEW r \in Turns, CliStarts(r) PROVE OrdersFit'
  <2>1. dir[r] # Base => dir[r] = task[r] /\ task[r] \in Tasks
    BY DEF Dirs
  <2> QED BY <1>5, <2>1 DEF CliStarts, RunnerFrame, SettingsDir
<1>6. ASSUME NEW r \in Turns, TurnEnds(r) \/ Abandons(r) PROVE OrdersFit'
  BY <1>6 DEF TurnEnds, Abandons, TeardownFrame, fileVars
<1>7. ASSUME NEW r \in Turns, TearsDown(r) PROVE OrdersFit'
  BY <1>7 DEF TearsDown, WorktreeRemoved, RemoveFails, BranchDeleted, Vanishes,
              TeardownFrame, fileVars, Dirs
<1>8. CASE UNCHANGED vars
  BY <1>8 DEF vars, turnVars, fileVars
<1> QED BY <1>1, <1>2, <1>3, <1>4, <1>5, <1>6, <1>7, <1>8
        DEF Next, Runner, WritesSettings, WritesClaudeConfig, WritesCodexHome,
            WritesGeminiSettings

(* The bridge of a turn in a worktree acts for the turn's own task, for    *)
(* any turns and tasks (_delegate.py:347-370).                             *)
THEOREM BridgesActForOwnTask == Spec => []IsolatedActsForOwnTask
<1>1. Init => OrdersFit
  BY DEF Init, OrdersFit, Dirs
<1>2. OrdersFit => IsolatedActsForOwnTask
  BY DEF OrdersFit, IsolatedActsForOwnTask, InWorktree, AtWork
<1> QED BY <1>1, <1>2, StepOrders, FitsHolds, PTL DEF Spec
=============================================================================
