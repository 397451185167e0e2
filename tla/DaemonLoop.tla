----------------------------- MODULE DaemonLoop -----------------------------
(***************************************************************************)
(* daemon/loop.py: how the daemon takes tasks and what it does with each.  *)
(*                                                                         *)
(* A task reaches the daemon on two paths that share _running_tasks, the   *)
(* execution semaphore and krewhub, but nothing else:                      *)
(*   - the poll loop lists open tasks, claims one and starts a job;        *)
(*   - krewwatch delivers an A2A invocation and calls _handle_invocation.  *)
(* A run (one call of _execute_task) makes one brain turn through the      *)
(* Harness and is then routed: no outgoing links, a leaf, it finalizes the *)
(* task; outgoing links, an orchestrator, it drives the children.          *)
(*                                                                         *)
(* asyncio interleaves only at an await, so an action is the code between  *)
(* two awaits that matter here.  krewhub is external: hub[t] is the task's *)
(* status there, and a call may be refused or its answer lost when Faulty. *)
(* That another daemon claims a task is left out: to this one it is as if  *)
(* a person had cancelled the task, which then is not open any more.       *)
(***************************************************************************)
EXTENDS Integers, FiniteSets

CONSTANTS
  Tasks,            \* the tasks of the cookbook
  Runs,             \* names for concurrent runs; bounds how many there are
  None,             \* no task
  Child,            \* the task a task's brain may spawn, or None
  MaxConcurrent,    \* --max-concurrent
  Faulty,           \* may calls to krewhub and the brain fail
  MaxInvocations,   \* bound: A2A invocations krewhub delivers
  MaxCancels,       \* bound: tasks a person cancels
  MaxReopens,       \* bound: human follow-ups that reopen a task
  MaxStops          \* bound: shutdowns and crashes of the daemon

ASSUME LoopAssumption ==
  /\ None \notin Tasks
  /\ IsFiniteSet(Runs)
  /\ Child \in [Tasks -> Tasks \cup {None}]
  /\ MaxConcurrent \in Nat \ {0}
  /\ Faulty \in BOOLEAN
  /\ MaxInvocations \in Nat
  /\ MaxCancels \in Nat
  /\ MaxReopens \in Nat
  /\ MaxStops \in Nat

VARIABLES
  hub,             \* status of each task on krewhub
  mine,            \* tasks whose claimed_by_agent_id is this daemon's agent
  links,           \* tasks with an active outgoing drives link
  alive,           \* the daemon process is up
  running,         \* DaemonLoop._running_tasks
  orchestrations,  \* DaemonLoop._orchestrations
  permits,         \* value of DaemonLoop._semaphore
  cooling,         \* tasks in their claim-failure cooldown
  pollPc,          \* where the poll loop is
  pollList,        \* tasks of the listing it still has to look at
  pollTask,        \* the task it is claiming
  pc,              \* where each run is
  task,            \* the task of each run
  result,          \* how its harness turn ended
  reported,        \* history: the last terminal status it sent to krewhub
  viaA2A,          \* the runs started by an invocation
  excused,         \* history: tasks a known failure left without a status
  budget           \* what is left of the bounds

pollVars == <<pollPc, pollList, pollTask>>
runVars  == <<pc, task, result, reported, viaA2A>>
bookVars == <<running, orchestrations, permits, cooling>>
hubVars  == <<hub, mine, links>>
vars == <<hubVars, bookVars, pollVars, runVars, alive, excused, budget>>

Status   == {"absent", "open", "claimed", "working", "done", "blocked",
             "cancelled"}
Terminal == {"done", "blocked", "cancelled"}
Outcomes == {"success", "failed", "cancelled", "pending"}
Stages   == {"idle", "prompt", "sem", "setup", "brain", "report", "route",
             "finalize", "orch", "leave", "fail", "exit"}

Init ==
  /\ hub = [t \in Tasks |-> IF \E p \in Tasks : Child[p] = t
                              THEN "absent" ELSE "open"]
  /\ mine = {}
  /\ links = {}
  /\ alive = TRUE
  /\ running = {}
  /\ orchestrations = {}
  /\ permits = MaxConcurrent
  /\ cooling = {}
  /\ pollPc = "sleep"
  /\ pollList = {}
  /\ pollTask = None
  /\ pc = [r \in Runs |-> "idle"]
  /\ task = [r \in Runs |-> None]
  /\ result = [r \in Runs |-> "none"]
  /\ reported = [r \in Runs |-> "none"]
  /\ viaA2A = {}
  /\ excused = {}
  /\ budget = [invocations |-> MaxInvocations, cancels |-> MaxCancels,
               reopens |-> MaxReopens, stops |-> MaxStops]

Active(r) == pc[r] # "idle"

-----------------------------------------------------------------------------
(* The poll loop: _poll_claimable_tasks.                                   *)

\* Mutant: orchestrations are charged a worker slot.
MutLoadCountsOrchestrations == Cardinality(running)

\* _worker_load: the tasks that occupy a worker slot.
WorkerLoad == Cardinality(running \ orchestrations)

\* Mutant: `<=` for `<`.
MutHasSlotOneMore == WorkerLoad <= MaxConcurrent

HasSlot == WorkerLoad < MaxConcurrent

PollBegins ==
  /\ pollPc = "sleep"
  /\ HasSlot
  /\ pollPc' = "list"
  /\ UNCHANGED <<pollList, pollTask, hubVars, bookVars, runVars, alive,
                 excused, budget>>

PollListed ==
  /\ pollPc = "list"
  /\ pollPc' = "scan"
  /\ pollList' = {t \in Tasks : hub[t] = "open"}
  /\ UNCHANGED <<pollTask, hubVars, bookVars, runVars, alive, excused, budget>>

PollListFails ==
  /\ Faulty
  /\ pollPc = "list"
  /\ pollPc' = "sleep"
  /\ UNCHANGED <<pollList, pollTask, hubVars, bookVars, runVars, alive,
                 excused, budget>>

\* Mutant: the scan forgets to look at _running_tasks.
MutEligibleIgnoresRunning(t) == t \notin cooling

Eligible(t) == t \notin running /\ t \notin cooling

PollSkips(t) ==
  /\ pollPc = "scan"
  /\ t \in pollList
  /\ HasSlot
  /\ ~Eligible(t)
  /\ pollList' = pollList \ {t}
  /\ UNCHANGED <<pollPc, pollTask, hubVars, bookVars, runVars, alive, excused,
                 budget>>

PollClaims(t) ==
  /\ pollPc = "scan"
  /\ t \in pollList
  /\ HasSlot
  /\ Eligible(t)
  /\ pollPc' = "claim"
  /\ pollTask' = t
  /\ pollList' = pollList \ {t}
  /\ UNCHANGED <<hubVars, bookVars, runVars, alive, excused, budget>>

PollEnds ==
  /\ pollPc = "scan"
  /\ pollList = {} \/ ~HasSlot
  /\ pollPc' = "sleep"
  /\ pollList' = {}
  /\ UNCHANGED <<pollTask, hubVars, bookVars, runVars, alive, excused, budget>>

\* The hub accepts the claim; the job starts: _running_tasks.add, create_task.
ClaimAccepted(r) ==
  /\ pollPc = "claim"
  /\ hub[pollTask] = "open"
  /\ ~Active(r)
  /\ hub' = [hub EXCEPT ![pollTask] = "claimed"]
  /\ mine' = mine \cup {pollTask}
  /\ cooling' = cooling \ {pollTask}
  /\ running' = running \cup {pollTask}
  /\ pc' = [pc EXCEPT ![r] = "sem"]
  /\ task' = [task EXCEPT ![r] = pollTask]
  /\ excused' = excused \ {pollTask}
  /\ pollPc' = "scan"
  /\ pollTask' = None
  /\ UNCHANGED <<links, orchestrations, permits, pollList, result, reported,
                 viaA2A, alive, budget>>

\* The hub refuses (the task is no longer open) or is not reached.
ClaimRefused ==
  /\ pollPc = "claim"
  /\ hub[pollTask] # "open" \/ Faulty
  /\ cooling' = cooling \cup {pollTask}
  /\ pollPc' = "scan"
  /\ pollTask' = None
  /\ UNCHANGED <<hubVars, running, orchestrations, permits, pollList, runVars,
                 alive, excused, budget>>

\* The hub accepts but the answer is lost: to the daemon it is a failure.
ClaimAnswerLost ==
  /\ Faulty
  /\ pollPc = "claim"
  /\ hub[pollTask] = "open"
  /\ hub' = [hub EXCEPT ![pollTask] = "claimed"]
  /\ mine' = mine \cup {pollTask}
  /\ cooling' = cooling \cup {pollTask}
  /\ excused' = excused \cup {pollTask}
  /\ pollPc' = "scan"
  /\ pollTask' = None
  /\ UNCHANGED <<links, running, orchestrations, permits, pollList, runVars,
                 alive, budget>>

\* A cooldown is compared with the time at which the scan began.
CooldownEnds(t) ==
  /\ t \in cooling
  /\ pollPc \in {"sleep", "list"}
  /\ cooling' = cooling \ {t}
  /\ UNCHANGED <<hubVars, running, orchestrations, permits, pollVars, runVars,
                 alive, excused, budget>>

-----------------------------------------------------------------------------
(* A2A invocations: _handle_invocation up to _execute_task.  It never      *)
(* claims and never looks whether the task already runs.  krewwatch runs   *)
(* at most max_concurrent_invocations = max_concurrent of them at a time.  *)

InvocationArrives(r, t) ==
  /\ alive
  /\ budget.invocations > 0
  /\ ~Active(r)
  /\ hub[t] # "absent"
  /\ Cardinality(viaA2A) < MaxConcurrent
  /\ pc' = [pc EXCEPT ![r] = "prompt"]
  /\ task' = [task EXCEPT ![r] = t]
  /\ viaA2A' = viaA2A \cup {r}
  /\ budget' = [budget EXCEPT !.invocations = @ - 1]
  /\ UNCHANGED <<hubVars, bookVars, pollVars, result, reported, alive, excused>>

\* get_task and the prompt are behind us: _running_tasks.add, unconditionally.
InvocationStarts(r) ==
  /\ pc[r] = "prompt"
  /\ pc' = [pc EXCEPT ![r] = "sem"]
  /\ running' = running \cup {task[r]}
  /\ excused' = excused \ {task[r]}
  /\ UNCHANGED <<hubVars, orchestrations, permits, cooling, pollVars, task,
                 result, reported, viaA2A, alive, budget>>

-----------------------------------------------------------------------------
(* One run: _execute_task, with Harness.execute(finalize=False) inside.    *)

\* Mutant: the turn does not wait for a slot.
MutTurnBeginsUnguarded(r) ==
  /\ pc[r] = "sem"
  /\ permits' = permits - 1
  /\ pc' = [pc EXCEPT ![r] = "setup"]
  /\ UNCHANGED <<hubVars, running, orchestrations, cooling, pollVars, task,
                 result, reported, viaA2A, alive, excused, budget>>

\* `async with self._semaphore`
TurnBegins(r) ==
  /\ pc[r] = "sem"
  /\ permits > 0
  /\ permits' = permits - 1
  /\ pc' = [pc EXCEPT ![r] = "setup"]
  /\ UNCHANGED <<hubVars, running, orchestrations, cooling, pollVars, task,
                 result, reported, viaA2A, alive, excused, budget>>

\* An update_task_status call: a refused or lost one is logged and swallowed.
HubWrites(t, status) ==
  \/ hub' = [hub EXCEPT ![t] = status]
  \/ Faulty /\ hub' = hub

\* The last word of a run about its task.  If it does not get through, nobody
\* says it again.
RunReports(r, status) ==
  /\ HubWrites(task[r], status)
  /\ reported' = [reported EXCEPT ![r] = status]
  /\ excused' = IF hub'[task[r]] = status THEN excused
                ELSE excused \cup {task[r]}

\* validate_pre_execution refuses the environment: the harness returns
\* success=False and sets no status at all.
PreCheckFails(r) ==
  /\ Faulty
  /\ pc[r] = "setup"
  /\ pc' = [pc EXCEPT ![r] = "route"]
  /\ result' = [result EXCEPT ![r] = "failed"]
  /\ permits' = permits + 1
  /\ excused' = excused \cup {task[r]}
  /\ UNCHANGED <<hubVars, running, orchestrations, cooling, pollVars, task,
                 reported, viaA2A, alive, budget>>

WorkBegins(r) ==
  /\ pc[r] = "setup"
  /\ HubWrites(task[r], "working")
  /\ pc' = [pc EXCEPT ![r] = "brain"]
  /\ UNCHANGED <<mine, links, bookVars, pollVars, task, result, reported,
                 viaA2A, alive, excused, budget>>

\* The brain calls spawn_subtask: krewhub creates the child and its link.
BrainSpawns(r) ==
  /\ pc[r] = "brain"
  /\ Child[task[r]] # None
  /\ hub[Child[task[r]]] = "absent"
  /\ hub' = [hub EXCEPT ![Child[task[r]]] = "open"]
  /\ links' = links \cup {task[r]}
  /\ UNCHANGED <<mine, bookVars, pollVars, runVars, alive, excused, budget>>

\* The brain's turn ends: it succeeded, failed or timed out, left a delegate
\* call pending on the operator, or check_cancelled saw the task cancelled.
BrainEnds(r, outcome) ==
  /\ pc[r] = "brain"
  /\ outcome = "cancelled" => hub[task[r]] = "cancelled"
  /\ pc' = [pc EXCEPT ![r] = "report"]
  /\ result' = [result EXCEPT ![r] = outcome]
  /\ UNCHANGED <<hubVars, bookVars, pollVars, task, reported, viaA2A, alive,
                 excused, budget>>

\* Mutant: the slot is not given back when backend.execute raises.
MutBackendRaisesKeepsPermit(r) ==
  /\ Faulty
  /\ pc[r] = "brain"
  /\ pc' = [pc EXCEPT ![r] = "fail"]
  /\ result' = [result EXCEPT ![r] = "failed"]
  /\ UNCHANGED <<hubVars, bookVars, pollVars, task, reported, viaA2A, alive,
                 excused, budget>>

\* backend.execute raises out of the harness; the caller will report it.
BackendRaises(r) ==
  /\ Faulty
  /\ pc[r] = "brain"
  /\ pc' = [pc EXCEPT ![r] = "fail"]
  /\ result' = [result EXCEPT ![r] = "failed"]
  /\ permits' = permits + 1
  /\ UNCHANGED <<hubVars, running, orchestrations, cooling, pollVars, task,
                 reported, viaA2A, alive, excused, budget>>

\* Mutant: a failed turn is left to the caller, who does not report it either.
MutTurnEndsReportsPendingOnly(r) ==
  /\ pc[r] = "report"
  /\ IF result[r] = "pending"
       THEN RunReports(r, "blocked")
       ELSE UNCHANGED <<hub, reported, excused>>
  /\ pc' = [pc EXCEPT ![r] = "route"]
  /\ permits' = permits + 1
  /\ UNCHANGED <<mine, links, running, orchestrations, cooling, pollVars, task,
                 result, viaA2A, alive, budget>>

\* The harness sets the status (finalize=False leaves a success `working`, a
\* cancelled task has its status), tears down and returns its slot.
TurnEnds(r) ==
  /\ pc[r] = "report"
  /\ IF result[r] \in {"pending", "failed"}
       THEN RunReports(r, "blocked")
       ELSE UNCHANGED <<hub, reported, excused>>
  /\ pc' = [pc EXCEPT ![r] = "route"]
  /\ permits' = permits + 1
  /\ UNCHANGED <<mine, links, running, orchestrations, cooling, pollVars, task,
                 result, viaA2A, alive, budget>>

\* HarnessResult.success and not .cancelled: a pending turn counts as one.
TurnSucceeded(r) == result[r] \in {"success", "pending"}

\* No outgoing links, or they could not be read.
RoutesAsLeaf(r) ==
  /\ pc[r] = "route"
  /\ task[r] \notin links \/ Faulty
  /\ pc' = [pc EXCEPT ![r] = IF TurnSucceeded(r) THEN "finalize" ELSE "exit"]
  /\ UNCHANGED <<hubVars, bookVars, pollVars, task, result, reported, viaA2A,
                 alive, excused, budget>>

RoutesAsOrchestrator(r) ==
  /\ pc[r] = "route"
  /\ task[r] \in links
  /\ pc' = [pc EXCEPT ![r] = "orch"]
  /\ orchestrations' = orchestrations \cup {task[r]}
  /\ UNCHANGED <<hubVars, running, permits, cooling, pollVars, task, result,
                 reported, viaA2A, alive, excused, budget>>

LeafFinalizes(r) ==
  /\ pc[r] = "finalize"
  /\ RunReports(r, "done")
  /\ pc' = [pc EXCEPT ![r] = "exit"]
  /\ UNCHANGED <<mine, links, bookVars, pollVars, task, result, viaA2A, alive,
                 budget>>

\* OrchDrive.run (OrchDrive.tla) ends in one of four ways.  When it returns,
\* the task leaves _orchestrations and _running_tasks without an await between.
DriveReturns(r) ==
  /\ pc[r] = "orch"
  /\ pc' = [pc EXCEPT ![r] = "leave"]
  /\ UNCHANGED <<mine, links, bookVars, pollVars, task, result, viaA2A, alive,
                 budget>>

\* It saw no pending child (a failed look sees none) and marks the root done.
DriveFinishes(r) ==
  /\ DriveReturns(r)
  /\ hub[Child[task[r]]] \in Terminal \/ Faulty
  /\ RunReports(r, "done")

\* The root is terminal already.
DriveRetires(r) ==
  /\ DriveReturns(r)
  /\ hub[task[r]] \in {"done", "cancelled"}
  /\ UNCHANGED <<hub, reported, excused>>

\* It reached max_turns and leaves the root as it is.
DriveGivesUp(r) ==
  /\ Faulty
  /\ DriveReturns(r)
  /\ excused' = excused \cup {task[r]}
  /\ UNCHANGED <<hub, reported>>

\* A call it does not guard raises; the caller will report it.
DriveRaises(r) ==
  /\ Faulty
  /\ pc[r] = "orch"
  /\ pc' = [pc EXCEPT ![r] = "fail"]
  /\ orchestrations' = orchestrations \ {task[r]}
  /\ UNCHANGED <<hubVars, running, permits, cooling, pollVars, task, result,
                 reported, viaA2A, alive, excused, budget>>

\* The caller's `except Exception`.
RunFails(r) ==
  /\ pc[r] = "fail"
  /\ RunReports(r, "blocked")
  /\ pc' = [pc EXCEPT ![r] = "exit"]
  /\ UNCHANGED <<mine, links, bookVars, pollVars, task, result, viaA2A, alive,
                 budget>>

\* Mutant: the job of a failed run is not removed from _running_tasks.
MutRunExitsKeepsFailed(r) ==
  /\ pc[r] \in {"exit", "leave"}
  /\ running' = IF result[r] = "failed" THEN running ELSE running \ {task[r]}
  /\ orchestrations' = IF pc[r] = "leave" THEN orchestrations \ {task[r]}
                       ELSE orchestrations
  /\ pc' = [pc EXCEPT ![r] = "idle"]
  /\ task' = [task EXCEPT ![r] = None]
  /\ result' = [result EXCEPT ![r] = "none"]
  /\ reported' = [reported EXCEPT ![r] = "none"]
  /\ viaA2A' = viaA2A \ {r}
  /\ UNCHANGED <<hubVars, permits, cooling, pollVars, alive, excused, budget>>

\* The caller's `finally`: the task leaves _running_tasks, whoever else runs it.
RunExits(r) ==
  /\ pc[r] \in {"exit", "leave"}
  /\ running' = running \ {task[r]}
  /\ orchestrations' = IF pc[r] = "leave" THEN orchestrations \ {task[r]}
                       ELSE orchestrations
  /\ pc' = [pc EXCEPT ![r] = "idle"]
  /\ task' = [task EXCEPT ![r] = None]
  /\ result' = [result EXCEPT ![r] = "none"]
  /\ reported' = [reported EXCEPT ![r] = "none"]
  /\ viaA2A' = viaA2A \ {r}
  /\ UNCHANGED <<hubVars, permits, cooling, pollVars, alive, excused, budget>>

-----------------------------------------------------------------------------
(* Shutdown, crash and restart.                                            *)

InFlight == {task[r] : r \in {q \in Runs : Active(q)}}

\* SIGTERM cancels the jobs: a CancelledError passes every `except Exception`,
\* so no status is written and a shutdown leaves what a crash leaves.
Stops ==
  /\ alive
  /\ budget.stops > 0
  /\ alive' = FALSE
  /\ budget' = [budget EXCEPT !.stops = @ - 1]
  /\ excused' = excused \cup InFlight
  /\ running' = {}
  /\ orchestrations' = {}
  /\ permits' = MaxConcurrent
  /\ cooling' = {}
  /\ pollPc' = "down"
  /\ pollList' = {}
  /\ pollTask' = None
  /\ pc' = [r \in Runs |-> "idle"]
  /\ task' = [r \in Runs |-> None]
  /\ result' = [r \in Runs |-> "none"]
  /\ reported' = [r \in Runs |-> "none"]
  /\ viaA2A' = {}
  /\ UNCHANGED hubVars

\* What get_working_tasks can return: the current task krewhub has for the
\* agent, at most one, if it is `working` and claimed by the agent.  (No
\* heartbeat of the daemon ever names one, so krewhub may well know none.)
Recoverable == {t \in mine : hub[t] = "working"}

\* recover_orphans runs before anything else of the new daemon.
Restarts ==
  /\ ~alive
  /\ alive' = TRUE
  /\ pollPc' = "sleep"
  /\ \/ (Faulty \/ Recoverable = {}) /\ UNCHANGED hub
     \/ \E t \in Recoverable : hub' = [hub EXCEPT ![t] = "blocked"]
  /\ UNCHANGED <<mine, links, bookVars, pollList, pollTask, runVars, excused,
                 budget>>

-----------------------------------------------------------------------------
(* People.                                                                 *)

TaskCancelled(t) ==
  /\ hub[t] \in {"open", "claimed", "working", "blocked"}
  /\ budget.cancels > 0
  /\ hub' = [hub EXCEPT ![t] = "cancelled"]
  /\ budget' = [budget EXCEPT !.cancels = @ - 1]
  /\ UNCHANGED <<mine, links, bookVars, pollVars, runVars, alive, excused>>

\* A follow-up (or the operator's answer) reopens a task that had ended.
TaskReopened(t) ==
  /\ hub[t] \in {"done", "blocked"}
  /\ budget.reopens > 0
  /\ hub' = [hub EXCEPT ![t] = "open"]
  /\ mine' = mine \ {t}
  /\ budget' = [budget EXCEPT !.reopens = @ - 1]
  /\ UNCHANGED <<links, bookVars, pollVars, runVars, alive, excused>>

-----------------------------------------------------------------------------
Poll ==
  \/ PollBegins \/ PollListed \/ PollListFails \/ PollEnds
  \/ ClaimRefused \/ ClaimAnswerLost
  \/ \E t \in Tasks : PollSkips(t) \/ PollClaims(t) \/ CooldownEnds(t)
  \/ \E r \in Runs : ClaimAccepted(r)

Drive(r) ==
  DriveFinishes(r) \/ DriveRetires(r) \/ DriveGivesUp(r) \/ DriveRaises(r)

Turn(r) ==
  \/ InvocationStarts(r)
  \/ TurnBegins(r) \/ PreCheckFails(r) \/ WorkBegins(r) \/ BackendRaises(r)
  \/ \E o \in Outcomes : BrainEnds(r, o)
  \/ TurnEnds(r)

Route(r) ==
  \/ RoutesAsLeaf(r) \/ RoutesAsOrchestrator(r) \/ LeafFinalizes(r)
  \/ RunFails(r) \/ RunExits(r)

Run(r) == Turn(r) \/ BrainSpawns(r) \/ Route(r) \/ Drive(r)

Environment ==
  \/ \E r \in Runs, t \in Tasks : InvocationArrives(r, t)
  \/ \E t \in Tasks : TaskCancelled(t) \/ TaskReopened(t)
  \/ Stops \/ Restarts

Next == Poll \/ (\E r \in Runs : Run(r)) \/ Environment

Spec == Init /\ [][Next]_vars

(* The event loop runs every coroutine that is ready; a turn of the        *)
(* harness ends within _EXECUTION_TIMEOUT_SECONDS, a drive looks at its    *)
(* subtree every poll_interval, and asyncio.Semaphore wakes its waiters in *)
(* order, hence the strong fairness of TurnBegins.  Two brains have no     *)
(* deadline and are assumed to end: a drive's (OrchDrive!DriveEnds says    *)
(* what becomes of it otherwise) and the planner's between two polls       *)
(* (Planner!ClaimsGoOn).  Nothing obliges people or krewhub.               *)
Fairness ==
  /\ WF_vars(PollBegins) /\ WF_vars(PollListed) /\ WF_vars(PollEnds)
  /\ WF_vars(ClaimRefused \/ \E r \in Runs : ClaimAccepted(r))
  /\ \A t \in Tasks : WF_vars(PollSkips(t)) /\ WF_vars(PollClaims(t))
  /\ \A t \in Tasks : SF_vars(CooldownEnds(t))
  /\ \A r \in Runs : /\ SF_vars(TurnBegins(r))
                     /\ WF_vars(Turn(r))
                     /\ WF_vars(Route(r))
                     /\ WF_vars(DriveFinishes(r) \/ DriveRetires(r))

FairSpec == Spec /\ Fairness

-----------------------------------------------------------------------------
(* Properties.                                                             *)

TypeOK ==
  /\ hub \in [Tasks -> Status]
  /\ mine \subseteq Tasks
  /\ links \subseteq Tasks
  /\ alive \in BOOLEAN
  /\ running \subseteq Tasks
  /\ orchestrations \subseteq Tasks
  /\ permits \in 0..MaxConcurrent
  /\ cooling \subseteq Tasks
  /\ pollPc \in {"sleep", "list", "scan", "claim", "down"}
  /\ pollList \subseteq Tasks
  /\ pollTask \in Tasks \cup {None}
  /\ pc \in [Runs -> Stages]
  /\ task \in [Runs -> Tasks \cup {None}]
  /\ result \in [Runs -> Outcomes \cup {"none"}]
  /\ reported \in [Runs -> Terminal \cup {"none"}]
  /\ viaA2A \subseteq Runs
  /\ excused \subseteq Tasks
  /\ budget \in [invocations : 0..MaxInvocations, cancels : 0..MaxCancels,
                 reopens : 0..MaxReopens, stops : 0..MaxStops]

InTurn(r) == pc[r] \in {"setup", "brain", "report"}

(* Every slot of the semaphore is either free or held by one run that is   *)
(* in its harness turn, so at most MaxConcurrent brains work at once and   *)
(* no way out of a turn (pre-check, exception, cancellation, normal end)   *)
(* leaks or invents a slot (loop.py:592-597).                              *)
PermitsConserved ==
  permits + Cardinality({r \in Runs : InTurn(r)}) = MaxConcurrent

(* Without A2A invocations, _running_tasks is exactly the set of tasks     *)
(* being run: nothing is claimed twice and nothing is barred for ever      *)
(* (loop.py:423, 458, 522).                                                *)
RunningIsExact == running = InFlight

(* Without A2A invocations, two runs never work on the same task, even     *)
(* when a person reopens it while its run is still winding down.           *)
OneRunPerTask ==
  \A r, q \in Runs : r # q /\ Active(r) /\ Active(q) => task[r] # task[q]

(* A task that is claimed or working is being run, unless one of the known *)
(* failures left it there: a lost claim answer, a status update that did   *)
(* not get through, a failed pre-check, max_turns, or a stop of the        *)
(* daemon.  Every other way through a run, however the runs interleave and *)
(* whatever people do meanwhile, gives the task a terminal status.         *)
NoSilentStranding ==
  \A t \in Tasks :
    hub[t] \in {"claimed", "working"} => t \in InFlight \cup excused

(* When krewhub answers and only the poll loop starts runs, no more tasks  *)
(* are on hand than there are slots, orchestrations apart: a claimed task  *)
(* never waits for the semaphore.                                          *)
ClaimsFitSlots == WorkerLoad <= MaxConcurrent

(* An open task does not stay open on a daemon that is up, even when its   *)
(* parent is being driven and there is a single slot (loop.py:124-129).    *)
OpenIsTaken == \A t \in Tasks : (hub[t] = "open") ~> (hub[t] # "open")

(* A drive ends: the children it waits for are claimed and finished by the *)
(* same daemon.  With the slots charged to orchestrations it would wait on *)
(* a child that waits for its slot.                                        *)
DrivesEnd == \A r \in Runs : (pc[r] = "orch") ~> (pc[r] # "orch")

(* What the repository says and the code does not do; each is refuted by a *)
(* run of its own.                                                         *)

(* loop.py:395: _worker_load is the "Count of tasks occupying a worker     *)
(* slot (orchestrations excluded)".                                        *)
LoadCountsBusyTasks ==
  \A r \in Runs : InTurn(r) => task[r] \in running \ orchestrations

(* tests/test_pending_delegate_lifecycle.py:8-9: a task whose brain left a *)
(* delegate call pending is set to "`blocked` [...] instead of `done`".    *)
PendingIsNotDone ==
  [][\A r \in Runs :
       result[r] = "pending" /\ pc[r] = "finalize" => reported'[r] # "done"]_vars
=============================================================================
