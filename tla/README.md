# A verification project for krewcli

krewcli is the daemon that runs AI coding agents for krewhub: it claims tasks,
runs a backend ("brain") on each, streams what the brain says onto the task's
tape, and drives the children of tasks that were decomposed. This directory
holds TLA+ models of it, the TLC runs that check them on small instances and
the TLAPS proofs that hold for every instance. `PROJECT.json` maps every
definition to the lines it models and lists runs, mutants, findings, hazards
and theorems.

## 1. Inventory

| Part | State it keeps | Operations | Talks to |
|---|---|---|---|
| Daemon loop, `daemon/loop.py` | `_running_tasks`, `_orchestrations`, the semaphore, claim cooldowns, jobs, `_planning_bundle` | poll and claim, handle an A2A invocation, execute a task (turn, then route by links), plan empty bundles, register, shut down | krewhub client, krewwatch (calls back), harness, orchestration drive, planner |
| Harness, `daemon/harness.py` | none between runs; one run's stream, result, pending delegate calls | set up, pre-check, pin, work, stream, post-check, flush, final status, tear down | backend, session, execution environment, client |
| Session, `daemon/session.py` | bounded queue, flusher task, dropped count, closed flag | append, flush loop, flush | krewhub's event endpoint |
| Orchestration drive, `daemon/orch_*.py` | turn count, last report seq, acknowledged signature, wake event | round: reconcile, collect reports, turn, acknowledge, finish | client, backend |
| Recovery, `daemon/recovery.py` | none | block the tasks a crash left working | client |
| Backends, `backend/` | a subprocess, a message queue, a result future per turn; a settings file in the working directory | execute, iterate, result, close | harness, bridge (as an MCP server of the brain) |
| MCP bridge, `mcp_servers/` | spawn counter, escalation budget, both per process | spawn a subtask, delegate, request access | krewhub, the brain |
| Planner, `daemon/planner.py` | none | generate a bundle's graph and attach it | backend, client; called inside the poll loop |
| Execution environment, `daemon/execenv.py`, `gateway/worktree.py` | a worktree and its branch, a directory's metadata | set up, tear down | git |
| Supervisor, `daemon/supervisor.py`, `cli/daemon.py` | pid file, status file | start, stop, status | the daemon process |
| Heartbeats, `presence/heartbeat.py` | current task | beat, stop | client |
| Authentication, `auth/`, `cli/login.py`, `cli/up.py`, `cli/logout.py` | keyring or record file, raw token file; the client's token | log in, load, clear, reload on 401 | krewauth, client |
| Commands, `cli/` | none | one client call each | client |

How they interact. The daemon is one asyncio process: coroutines interleave only
at awaits. A task reaches it by the poll loop (list, claim, start a job) or by an
A2A invocation (krewwatch calls `_handle_invocation`). Both call `_execute_task`:
a brain turn through the harness under the semaphore, then a look at the task's
outgoing links. Without links the task is a leaf and is finalized; with links it
is an orchestrator and is driven, outside the semaphore, until its subtree is
quiescent. A turn's backend writes a settings file, starts the agent's CLI, and
the CLI starts a bridge with what the file says. All lasting state is krewhub's,
which other daemons and people change at the same time.

What is hard: two paths to the same task; state read before an await and used
after it; calls that fail, or succeed with a lost answer, and are only logged;
shutdown in the middle of a run; a parent that waits for a child the same daemon
must run; back-pressure on a bounded queue; reports that come late or not at
all; files and an environment that processes share. `PROJECT.json` "hazards"
lists each at its line.

What makes each part correct:
- loop: one run per task; slots neither leak nor are exceeded; every task taken
  gets a terminal status; nothing open waits for ever;
- session: order kept, nothing lost unaccounted, empty when flushed, flush returns;
- drive: the root is done only when its subtree is; the brain is told of every
  child; it ends, unless a brain hangs;
- harness: each outcome sets its status; it ends within its timeout;
- bridge: budgets hold; a question is put once unless the brain wants it twice; every
  call is answered;
- environment: a turn's directory and bridge are its own; nothing is left over;
- planner: every empty bundle gets its turn, and claims go on;
- supervisor: one daemon at most, and stop finds it;
- authentication: what a login stores is read, and heals a running daemon.

## 2. Modules

| Module | Models | Checked by |
|---|---|---|
| `EventLog` | what an event log promises, no queue or batch in it | refined by `Session` |
| `Session` | `daemon/session.py` | `Session.cfg` |
| `DaemonLoop` | `daemon/loop.py` with the harness' turn, recovery, krewhub and people around it | `DaemonLoop.cfg`, `DaemonLive.cfg`, `DaemonPending.cfg` |
| `BrainTurn` | one brain turn: the backend's runner, its queue and its result, and who uses them: `Harness.execute`, `run_backend_turn`, or a one-shot invocation | `BrainTurn.cfg` |
| `OrchDrive` | one `OrchDrive` over a changing subtree | `OrchDrive.cfg` |
| `Bridge` | `mcp_servers/`: the bridges of a task's turns | `Bridge.cfg` |
| `TaskEnv` | `daemon/execenv.py`, `gateway/worktree.py`, the settings of `backend/_delegate.py`, the budget in the environment | `TaskEnv.cfg`, `TaskMixup.cfg` |
| `Planner` | `daemon/planner.py`, `DaemonLoop._plan_empty_bundles` | `Planner.cfg` |
| `Supervisor` | `daemon/supervisor.py`, `cli/daemon.py`, the bootstrap of `cli/login.py` | `Supervisor.cfg` |
| `TokenAuth` | `auth/token_store.py`, login and logout, `_RefreshingBearerAuth` | `TokenAuth.cfg` |
| `MCDaemonLoop`, `MCTaskEnv` | instances for TLC: model values, symmetry | |
| `*Proofs` | theorems about the module they are named after | tlapm |

How they fit together. `DaemonLoop` reduces a turn and a drive to how they can
end; `BrainTurn` and `OrchDrive` are the detail. `Session` is the detail of the
event log in `BrainTurn`. `Bridge` is what a brain's tool calls do in one turn;
`OrchDrive` keeps only the spawns. `TaskEnv` says where turns run and what their
bridges are told, and justifies that `OrchDrive` lets a drive's bridge have a
budget that is not the turn's. `Planner` is the other stage of the poll loop.

**Session.** Events are numbers in the order of the `append` calls. The producer
may drop (droppable type, full queue), wait (critical type) and then succeed,
time out or be cancelled by the harness' execution timeout; the flusher takes a
batch and its POST lands or is lost (`_post_batch` swallows the error and never
retries). `flush` is two actions, its join and what follows it without an await
that matters. `Abandon` is the process going away. Bodies, pin, usage and the
cancel poll are left out.

**DaemonLoop.** Runs are slots of a constant set; `pc[r]` is the await a run is at.
The poll loop is a process of its own (`pollPc`). `hub[t]` is the status on krewhub,
written by runs, by recovery, and by people who cancel and reopen. A task that
another daemon claims is no action of its own: to this daemon it is a task that
stops being open, like a cancelled one, and a claim of it is refused. `Faulty` turns
on refused and lost calls, failed pre-checks, raising backends, and a drive that
gives up or raises. `reported` and `excused` are history: the last terminal status a
run sent, and the tasks one of the named failures left without a status.
Dependencies between tasks only make the listing shorter and are left out.

**BrainTurn.** `runner` is where the runner task of `backend/claude.py` is, `pc`
where its user is; the two share `mq`, the bounded queue whose last message is the
`None` sentinel (`"end"`), and `future`, the result. `mode` is the user: the harness
sets up, streams, polls for a cancellation at a session start, takes the result
within the execution timeout, scans, flushes, reports and tears down; a drive's turn
streams, closes and flushes; a one-shot invocation awaits the result and never reads
the queue. Messages are the four kinds the harness tells apart. `handle` is whether
the backend hands its runner to `BackendSession`, as only claude and echo do; only
then can `aclose` cancel it. A runner that ends after its future was cancelled dies
on `InvalidStateError` before it puts the sentinel. A brain may close its output and
stay (`proc = "mute"`, `runner = "waiting"`): the wait for its exit has no deadline
and is outside the `try` that kills the process group (`claude.py:223`, `199-204`),
so a cancel there ends the runner and leaves the process alone (`ProcAfterCancel`),
and nothing obliges the process to exit (`BrainExits` has no fairness). `Faulty`
adds lost status writes, a runner that dies on a line it cannot read, and a daemon
that stops in mid-turn. Of the event log (`EventLog`, `Session`) only the number of
events on their way (`onTheWay`) and `logOpen` are kept. How codex and bub put their
messages differs and is left out.

**OrchDrive.** One root and the tasks that may ever be in its subtree. Between any
two calls of the drive the children start, end, spawn (if their depth allows it),
and have their reports projected onto the root's tape in krewhub's own time; people
adopt, cancel and reopen, `MaxActs` times in all. `brains` are the children of which
a brain or its bridge may be running, also after the child was cancelled or has
timed out: `spawn_subtask` asks for no status, so such a brain spawns on, and so
does the bridge of a turn of the drive that is over; `late` is history, what was
spawned that way. The subtree read is its two calls: tasks, then links. The subtree
itself is the least set closed under links, so no recursion is needed. `shown` is
history: the children that were in the prompt of a turn, whether it ended well or
failed. Under `Faulty` reads fail (an empty view), the tape may answer with any
window, the root's read may raise. The budget `_run_turn` computes goes into the
CLI's environment, but `_bridge_env` writes the daemon's own into the bridge's
settings: a turn's bridge has what is in `os.environ` then, one of `BridgeBudgets`.

**Bridge.** A turn is a process: its counters start at 0, its pipe is empty. The
brain writes calls ahead; the bridge handles one at a time. `delegate` is its POST
(krewhub finds the idempotency key or creates), the check of the deadline, and the
poll with its page; `expired` is the deadline passing at any time. The key is made
of the question and the tape it is asked from: a bridge of a first turn has no tape
id, that of a drive's turn has the task (`kind`). The brain may name a tape or a key
of its own instead (`names`); one name of each stands for all. An answer drops the
call's cursor and deadline. `request_access` spends its budget, emits, and waits for
the operator or its window. `Faulty` adds failing calls, with and without effect,
and a line longer than a `StreamReader` takes, which ends the process.

**TaskEnv.** `pc[r]` is where a turn is between its beginning and the end of its
teardown. A first turn exports its budget, reads the baseline and asks git for a
worktree; a drive's later turn has none of that and runs in the base directory. The
metadata of a directory may fail to be written, which stops nothing (`Describes`).
`environ` is the budget in the daemon's environment, `settings[d]` the file in a
directory, `bridge[r]` what the turn's bridge was started with. gemini is not told
of its file, so it finds what an earlier turn has left when its own could not be
written; bub has no bridge. git may be killed half-way, removal may fail, and a turn
may be abandoned anywhere; `broken` is history, the tasks one of these may have left
something of.

**Planner.** The loop's stages are `pc`; `hub` is what krewhub knows of each
bundle. A brain's output is a sequence of fenced blocks or one text, each a graph,
a graph behind a `__future__` import, one the sandbox forbids, or prose;
`CleanCode` and `IsValidGraphCode` are what the code makes of it. A brain may take
for ever, and its runner may die and leave neither result nor sentinel: then the
one background loop waits for ever (`"stuck"`).

**Supervisor.** Commands and processes are numbered; `pidFile` and `statusFile`
are the two files. A start reads, judges, seeds, spawns, names and waits, each a
step; the child seeds and names itself again in its own time, and may die at any
of its own, with its `finally` (which removes the files, whoever's they are) or
without. Process ids are not used again, and a file is written in one step.

**TokenAuth.** Tokens are numbers in the order krewauth issues them. A login
writes the record (keyring, or `token.json` where the keyring fails) and then the
raw file, and may stop in between. `held` is the one token all requests of the
daemon's client share.

## 3. Runs

| Run | Shows | Bounds, and why they suffice |
|---|---|---|
| `session` | order, accounting, what flush guarantees, termination, refinement of `EventLog` | queue 3, batch 2, 7 events: the queue fills, a batch is smaller than the queue, and events arrive behind both |
| `daemon_loop` | types, slots, no silent stranding | a parent and its child, 2 runs, 1 slot, one invocation, one cancellation, one stop, faults on: twin runs on one task, and every failure path |
| `daemon_live` | exact bookkeeping; one run per task; claims fit the slots; open tasks are taken; drives end | 3 tasks, 3 runs, one task reopened, no faults, no invocations; 1 slot, so a parent charged to it would block its child, and a parent that leaves its drive and is reopened meets its own earlier run |
| `brain_turn` | types; a reported success was heard whole; a pending delegate call blocks the task; the tape is complete before the status; a seen cancellation stays; a closed turn leaves no runner, and no process but a mute one; turns return, those without a deadline unless their brain hangs | all three users, with and without a handle, a queue of one message and 3 messages: the runner is ahead of the user, blocks on the full queue, and has its sentinel wait; faults on |
| `orch_drive` | types; a drive that saw its subtree leaves nothing at work that its view did not show, but what brains spawned after their time; nothing is acknowledged that no prompt told of; drives end unless a brain or a child hangs | 2 children that may spawn (a chain or a fan-out), 2 turns, one act of people, faults on: a child can end during a turn, report late, be cancelled or reopened after it was acknowledged, and its brain, or that of the turn, can spawn when it is over |
| `bridge` | spawns are accounted for; escalations are bounded for each turn; a question is put once from a tape unless a key is named; an answer that was read is given; every call is answered | 2 turns, 3 calls, one question, two events before the done event, budgets of 1: a question asked again in the same and in the next bridge, from the same and from another tape, with and without a key; a page with several events; each budget met. One question is enough, for two never share a generated key |
| `task_env` | a worktree has one turn and nobody else's metadata, its bridge acts for that turn's task; only failures leave something | 3 turns on 2 tasks: twins, a turn of another task, a drive's turn beside them; every CLI; faults on |
| `supervisor` | one daemon; the pid file names it; stop works | 5 commands one after the other, 4 processes: a start that gives up waiting, a stop, a start again, while the first child may still be about to write |
| `planner` | a bundle that waits for its graph is tried again and again, unless one before it is tried over and over in vain, or a brain never ends; with that exception the loop gets back to its claims | 2 bundles in the order listed, 2 blocks in an output: one ahead of the other, unreadable, without a prompt, or failing again and again |
| `token_auth` | what a login stores is read; a login heals | 2 logins after the one before, 2 overlapping requests, all three kinds of keyring |

Runs that refute what the repository says of itself (each quotes its line in
`PROJECT.json`):

| Run | What the code does |
|---|---|
| `daemon_pending` | a task blocked on a pending delegate call is then finalized as done |
| `task_mixup` | two turns in one directory overwrite each other's settings, and a bridge acts for the other turn's task; this is so without isolation, and for the later turns of drives, which run beside the semaphore, also with it |

More disagreements have no run; the models follow the code in each, and the
properties are stated so that they hold of it. The first eight are formulas of the
modules, which TLC refutes with the constants given:
- `DaemonLoop!LoadCountsBusyTasks` (`loop.py:395`): an invocation for a running task
  makes a second run, and the first to end takes the task out of `_running_tasks`
  (`DaemonPending.cfg` with `MaxInvocations = 1`);
- `BrainTurn!OneShotAnswers` (`loop.py:350`): nobody reads the queue of a task-less or
  delegate invocation; a brain that says more than fits blocks in its put and never
  answers, holding a semaphore slot (`FairSpec`, mode `oneshot`, `QueueCap = 1`,
  `MaxMessages = 2`, no faults);
- `BrainTurn!ChildAlwaysCancelled` (`orch_drive.py:40`): a backend that does not hand
  over its runner leaves its process running after `aclose`; one that does still
  leaves a process that has closed its output when the turn is interrupted
  (`claude.py:223`), or one whose runner died (mode `orch`);
- `OrchDrive!FinishedQuiescent` (`orch_drive.py:5-7`): a brain that outlived its task or
  its turn spawns after the last look at the subtree, a failed read looks like an
  empty one, and a person may adopt or reopen a child (`OrchDrive.cfg`, refuted also
  without faults and acts);
- `Bridge!EscalationsWithinTask` (`_delegate.py:213-215`, `hitl_tool.py:45`,
  `bridge.py:13-15`): the budget "per task per provider" is the process', and every turn
  of a task has a new process (`Bridge.cfg`);
- `OrchDrive!SpawnsWithinCap` (`orch_config.py:29`): every turn gets the budget of a
  task without children (3 children, `MaxChildren = 2`, `MaxSpawnsPerTurn = 1`,
  3 turns, no faults, no acts);
- `TaskEnv!BudgetIsDue` (`orch_drive.py:262`): the budget in the environment is that
  of whichever first turn began last (also with isolation, no faults);
- `TokenAuth!GivesUpOnlyOnFresh` (`krewhub_client.py:24`): of two requests that
  overlap a rotation, the first takes the new token, so the second finds the store
  and `held` equal and gives its 401 up without a retry, never having been sent
  with the new token;
- `OneDaemon` with `Overlap = TRUE`: two starts at once both find no pid file;
- a failed read counts as an empty subtree and finishes the root
  (`orch_subtree.py:169`; `orch_drive.py:145` says "when the subtree is quiescent"):
  `FinishedBlindOrQuiescent` names it;
- a child that blocks between the two reads of a round ends the drive unheard
  (`orch_drive.py:152`; `orch_drive.py:148` says "the brain had its turn to react");
- a failed sandbox pre-check returns before any status is written
  (`harness.py:132`; `harness.py:83` says failures set theirs): `PreCheckFails`
  excuses the task;
- `get_working_tasks` asks the presence for an agent's one current task, so
  recovery blocks one working task per agent (`krewhub_client.py:656`,
  `recovery.py:28`): `Restarts` picks one;
- a turn that failed is acknowledged like one that ran (`orch_drive.py:203, 210`):
  `TurnEnds`, and `shown` in `HeardBeforeAcked`;
- a child's first turn has a budget of its own, so grandchildren take the subtree
  over `max_children` (`orch_config.py:29`): `KidSpawns`.

Deadlock is checked where the system runs for ever (`session`, which may stutter when
abandoned, the daemon loop, requests); a drive, a turn, a bridge, and a
user's commands end, and the planner's loop stops when a runner dies under it.

**Fairness.** Only what the code ensures: the event loop runs ready coroutines; a
POST ends within the client's 30 s, a put within its 1 s, a turn of the harness
within the execution timeout, and a read of the brain's output within the line
timeout, so a silent brain's runner goes on; a cooldown expires; deadlines and
windows pass; a command's waits have timeouts; `asyncio.Semaphore` wakes waiters in
order, hence strong fairness for `TurnBegins`. The turns of a drive, of a one-shot
invocation and of the planner have no deadline: `orch_drive` gives theirs no fairness,
`brain_turn` none to a process that has closed its output, `planner` none to a brain,
and `DriveEnds`, `TurnReturns`, `EveryBundleTried` and `ClaimsGoOn` name the cases in
which one hangs. Nothing obliges the harness to append or to flush, people to act,
krewhub to project a report or to send an invocation, a Hand or an operator to
answer, a child of a drive to end, a daemon to react to a signal.

Three assumptions are the environment's, not the code's: in `daemon_live`, that the
brains of drives and of the planner end, since that model reduces a drive to how it
ends; in `planner`, that krewhub lets itself be read again and again (strong fairness
of the two reads; no brain has to succeed and no graph to be taken); in `token_auth`,
that requests keep being sent, as the heartbeats do. Liveness of the daemon loop is
checked without faults, since a call that fails for ever excuses anything; the other
runs keep theirs, since every one of them leaves a timeout, a ceiling or a next
round, or the property names the exception.

## 4. Proofs

Each `*Proofs` module proves theorems `Spec => []P` (or an action property, and for
`Session` the refinement of `EventLog`) about the specification without its bounds: for every value of the constants that the named
assumption of the module allows. Every one goes by an invariant that is inductive,
one lemma per group of actions.

| Theorem | Says | Argument |
|---|---|---|
| `SessionProofs` `TypesHold`, `NothingUnaccounted` | queue and batches keep to their limits; every event is in one place or in one count of losses | `Conservation` is inductive under the types; what is needed of sequences is in `BatchFacts` and `Landed` |
| `TapeIsInOrder` | what krewhub gets is in the order of the appends, without repeats | `Ordered`: tape, batch and queue together increase, and stay below what waits for room; a batch that is lost leaves a gap, and a gap keeps the order (`GapKeepsOrder`) |
| `FlushIsFinal` | a flush that returned leaves nothing in the process | `Quiet`: nobody appends while flush waits, and without a flusher there was never an event |
| `JoinGetsThrough` | a flush that joins can always go on, and each of its steps leaves less to do | while it joins nobody appends (`Quiet`) and the flusher is not stopped (`FlusherStays`), so all that happens is a batch taken or a POST ended, and twice the queue plus the batch in flight decreases: `FlushTerminates` without its fairness |
| `SessionImplementsEventLog` | every step of a session is a step or a stutter of `EventLog` | the refinement mapping of `Session.tla`: pending is batch, queue and the event being put, in this order. One lemma `Abstract*` per action of the log says what of a session's step makes it that action; `*Implements` shows it of each step. `EventLog!Spec` states no fairness, so the theorem is the whole of it |
| `DaemonLoopProofs` `TypesHold`, `PermitsHold` | slots stay within `0..MaxConcurrent`, each free or held by one run | neither is inductive without the other: giving a slot back stays in range because the run holds one (`SlotHeld`) |
| `NothingStrandsSilently` | no task stays claimed or working unless it is run or a failure is to blame | `Owed`: whatever is in progress on krewhub has a run, a claim or an excuse at every stage of both paths |
| `RunningExact`, `NoTwins` (with `MaxInvocations = 0`) | `_running_tasks` is exact and no task is run twice | `Single`: one run per task, and the poll loop's choice is no run's; false with invocations, see section 3 |
| `ClaimsFit` (with `MaxInvocations = 0` and `Faulty = FALSE`) | a claim is granted only while a slot is free | `Fits`: the slot that was free when the claim was sent is free when krewhub answers, since only an answered claim adds to the load. With faults TLC refutes it: a drive that raises is a load again before its job is over |
| `ClaimedAreNotHeldUp` (likewise) | every run that comes to the semaphore goes through at once, so a driven root never keeps its child from its turn | `WantedIsLoaded`: the runs that want or hold a slot map one to one (`OneRunPerTask`) to loaded tasks, none of which is being driven (`Driven`), and `ClaimsFit` bounds those. This is the promise behind `ClaimsFitSlots`; no run states it |
| `BrainTurnProofs` `TypesHold` | the queue keeps to its capacity | `PutsMessages`: what the runner puts is a message |
| `TapeIsFirst` | the final status is sent once the log is closed and empty | `TapeClosed` says it for each stage from the flush on |
| `CancellationStays` | after a cancellation was seen no step writes another status | `SeenAtWork` |
| `TurnLeavesNoChild` | a closed turn of a drive leaves no runner, and no process that was not told to stop but one that closed its output and was left by a cancelled runner, if the backend hands over its runner | `ProcFollows`: where the process and the future are follows from where the runner is, mute only while it waits; `ChildClosed`: once the turn has closed, the runner is not active |
| `SuccessIsHeardToTheEnd`, `PendingAlwaysBlocks` | a reported success was heard whole; a pending call blocks the task | `HeardAll`, with `Account`: what was emitted, and the sentinel, is what was heard, is queued, in hand or being put, and nothing comes behind the sentinel; so who reads the sentinel has heard everything (`Whole`), although the future is set before it |
| `WaitsAreAnswered` | a message is waited for only while a runner will put one, a result only when it is set | `Served`: the sentinel is behind the last message, and the future is set before the sentinel is put; excepted are a runner that died, one that waits for its process to exit and, for the result, a harness that saw a cancellation and has left the queue unread: `TurnReturns` needs its deadline there |
| `OrchDriveProofs` `TypesHold` | turns stay within `max_turns`, budgets are never negative | `RoundBelowCeiling` |
| `NothingAckedUnheard` | whatever is acknowledged was in the prompt of a turn, also with faults | `Heard`: in a turn, every terminal child of the view is in its prompt or was acknowledged with that status |
| `FinishedLeavesNobodyAtWork` | a drive that saw its subtree when it finished leaves nobody at work, however deep the subtree, but what a brain that outlived its task or turn has spawned unseen (`Overlooked`) | `ViewHolds`: whom the view shows as ended has ended, and the view has all children of those but the late ones (`ViewClosed`), because tasks are read before links; so the view and the late ones contain the subtree, the least set closed under the links (`SubtreeLeast`) |
| `BridgeProofs` `TypesHold` | what is polled is an invocation there is | `CallFits`: a call that delegates has a question, and one that polls has an invocation |
| `SpawnsAreAccounted`, `EscalationsAreBounded` | the two budgets: that of spawns for a turn, that of escalations for as many turns as there were | `Paid`: a call that is about to emit has been counted already, and the earlier turns have used up to `MaxGrants` each (`Earlier`) |
| `QuestionsAreAskedOnce` | a question is put once from each tape, whatever keys and tapes the brain names for others | `Keyed`: keys are unique, and that of an invocation for which the brain named none is its tape and its question |
| `NoAnswerIsOverlooked` | no deadline hides an answer that was read | a new call has seen nothing yet (`Attentive`) |
| `TaskEnvProofs` `TypesHold` | what a teardown works on is the turn's own worktree | `DirsFit`: a turn is in the base directory or in its task's worktree |
| `WorktreesAreOwn`, `NothingLeftOver` | a worktree has one turn, and its metadata are that turn's or missing; only failures leave something | `Ownership`: what a turn holds is there (`HeldIsThere`), has one holder (`HeldByOne`), and what is there is held or broken (`ThereIsHeld`); git refusing an existing branch is what keeps a twin out while the first turn tears down. `Described`: only a task's own turns write into its worktree, so a failed write leaves what is right or nothing |
| `BridgesActForOwnTask` | a bridge in a worktree acts for its turn's task | `OrdersFit`: a worktree's settings are its task's, and a bridge was not there before its CLI |
| `SupervisorProofs` `TypesHold` | a command signals only a process it has read or spawned | the types are inductive |
| `OneDaemonAtMost`, `StopAlwaysFindsIt` (with `Overlap = FALSE`) | one daemon, and the pid file names it between commands | `AllKnown`: a live daemon is named by the pid file, or by the one start that spawned it and has not yet written it; no start is about to spawn then |
| `TokenAuthProofs` `TypesHold` | what is held or stored was issued | the types are inductive |
| `LoginsAreReadBack` | what a login stored is what is read | `ReadBack`: between the two writes the new record already hides the old raw file; `HostKept`: the keyring goes with the host |

Every safety property of a passing run is a theorem, except that hypotheses which a run meets
by its constants (`MaxInvocations = 0`, `Faulty = FALSE`, `Overlap = FALSE`) are
stated by the theorem that needs them. `TypeOK` of `Bridge`, `TaskEnv`, `Supervisor`
and `TokenAuth` is proved and no run keeps it; that of `Planner` TLC found to hold,
and nothing keeps it.

Only model-checked: liveness under fairness, which is out of this prover's reach, as
ENABLED is (`FlushTerminates`, `OpenIsTaken`, `DrivesEnd`, `DriveEnds`,
`TurnReturns`, `EveryCallAnswered`, `StopWorks`, `EveryBundleTried`, `ClaimsGoOn`,
`HealsAfterLogin`). The subtree of a drive is defined as a least closed set and not
by recursion, so that nothing above needs an induction over data.

## 5. Not modelled, and the plan

- **Prompts, redaction, diagrams, configuration**: text in, text out, no state. Of
  the sandbox validator only its verdict matters, in `Planner` and in the pre-check.
- **Daemon loop**: another daemon that takes a task between the listing and the claim;
  to this one it is a cancelled task.
- **Heartbeats**: post and swallow errors; `stop` cancels and posts once more.
- **Most commands**: one client call each, and its error is printed.
- **krewhub, krewwatch, krewauth, git and the agents' CLIs**: external, modelled
  where the code's own behaviour depends on them.
- **Backends**: claude's runner is modelled. codex and bub differ in when they put
  which message, gemini in its settings; echo keeps no process.
- **Execution environment**: `collect_diff` has no caller in the daemon.
- **Supervisor**: `start --foreground` and `up` by hand, which check no pid file, and
  the operating system giving a pid out again.
- **Bridge**: two tasks' first turns have the same delegate key, since neither has a
  tape id; one task is modelled, so they do not meet.

Next, in this order:
1. the safety facts behind the other liveness properties, as `JoinGetsThrough`,
   `WaitsAreAnswered` and `ClaimedAreNotHeldUp` are for theirs: that a stop's wait and
   a bridge's poll get nearer to their end with each step;
2. how the components' guarantees meet: a harness over `EventLog`, a drive over the
   statuses that `DaemonLoop` allows;
3. the pure algorithms: a task's depth, the backoff of claims, the signature a drive
   acknowledges;
4. the runners of codex and bub, as variants of `BrainTurn`'s.
