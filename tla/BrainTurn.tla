------------------------------ MODULE BrainTurn ------------------------------
(***************************************************************************)
(* One brain turn: the runner task that drives the agent's CLI process,    *)
(* the bounded message queue and the result future between the two, and    *)
(* the coroutine that uses them.  There are three such users:              *)
(*   "harness"  Harness.execute, a task's first turn (daemon/harness.py)   *)
(*   "orch"     run_backend_turn, a drive's later turns (orch_drive.py)    *)
(*   "oneshot"  task-less and delegate invocations, which await the result *)
(*              and never read the messages (loop.py, delegate_handler.py) *)
(* The runner is that of backend/claude.py; gemini's is the same, codex's  *)
(* and bub's differ in when they put.  Only claude's and echo's hand their *)
(* task to BackendSession and, cancelled, kill their process (`handle`).   *)
(*                                                                         *)
(* Of the user's event log (EventLog.tla, implemented by Session.tla) only *)
(* how many events are on their way to the tape matters here.              *)
(***************************************************************************)
EXTENDS Naturals, Sequences

CONSTANTS
  Modes,         \* the users a run looks at
  QueueCap,      \* maxsize of the message queue (512; 64 for echo)
  MaxMessages,   \* bound: messages one brain emits
  Faulty         \* may calls fail, runners die and the daemon stop

ASSUME TurnAssumption ==
  /\ Modes \subseteq {"harness", "orch", "oneshot"}
  /\ QueueCap \in Nat \ {0}
  /\ MaxMessages \in Nat
  /\ Faulty \in BOOLEAN

VARIABLES
  mode,       \* who uses the backend
  handle,     \* does BackendSession know the runner task
  finalize,   \* the harness' argument of that name
  runner,     \* where the runner task is
  proc,       \* the CLI process; "mute" when its output is at its end, "told"
              \* when its group was sent a SIGTERM
  out,        \* the message the runner is about to put
  mq,         \* the message queue; "end" is the None sentinel
  future,     \* the result future
  said,       \* history: the messages the brain emitted, by kind
  emitted,    \* history: how many
  pc,         \* where the user is
  msg,        \* the message the user is handling
  heard,      \* how many messages the user has handled
  noted,      \* what it found in them: "pending" delegates, "secret"s
  cancelled,  \* check_cancelled said so
  result,     \* the BackendResult, as far as success goes
  hub,        \* krewhub: the task's status
  sent,       \* the last status the user tried to set
  onTheWay,   \* the user's event log: how many events it still has to send
  logOpen     \* and whether it is open

runnerVars == <<runner, proc, out, said, emitted>>
hubVars    == <<hub, sent>>
logVars    == <<onTheWay, logOpen>>
fixedVars  == <<mode, handle, finalize>>
foundVars  == <<msg, heard, noted, cancelled, result>>
vars == <<fixedVars, runnerVars, mq, future, pc, foundVars, hubVars, logVars>>

\* What the harness tells apart: messages after which it asks for a
\* cancellation, plain ones, a reply with a secret in it, and the result of a
\* delegate call that is still pending.
Kinds == {"start", "text", "secret", "pending"}

\* A runner that has not ended.
Active == {"spawning", "reading", "putting", "expired", "waiting", "resolving",
           "ending"}

Ended == {"returned", "gone"}

\* A one-shot call is at the result as soon as backend.execute has returned.
StartsAt == [harness |-> "setup", orch |-> "stream", oneshot |-> "result"]

Init ==
  /\ mode \in Modes
  /\ handle \in BOOLEAN
  /\ finalize \in IF mode = "harness" THEN BOOLEAN ELSE {FALSE}
  /\ runner = IF mode = "harness" THEN "none" ELSE "spawning"
  /\ pc = StartsAt[mode]
  /\ proc = "none"
  /\ out = "none"
  /\ mq = <<>>
  /\ future = "unset"
  /\ said = {}
  /\ emitted = 0
  /\ msg = "none"
  /\ heard = 0
  /\ noted = {}
  /\ cancelled = FALSE
  /\ result = "none"
  /\ hub = IF mode = "harness" THEN "claimed" ELSE "working"
  /\ sent = "none"
  /\ onTheWay = 0
  /\ logOpen = TRUE

-----------------------------------------------------------------------------
(* The runner: _run_claude and _dispatch.                                  *)

\* Mutant: put() goes ahead with one message too many in the queue.
MutHasRoomOneMore == Len(mq) <= QueueCap

HasRoom == Len(mq) < QueueCap

RunnerFrame == UNCHANGED <<fixedVars, pc, foundVars, hubVars, logVars>>

Spawns ==
  /\ runner = "spawning"
  /\ runner' = "reading"
  /\ proc' = "running"
  /\ UNCHANGED <<out, said, emitted, mq, future>> /\ RunnerFrame

\* set_result on a future the user's timeout has cancelled raises
\* InvalidStateError, and the sentinel is never put.
Settle(outcome, next) ==
  IF future = "cancelled"
    THEN runner' = "died" /\ future' = future
    ELSE runner' = next /\ future' = outcome

\* FileNotFoundError: no such CLI.
SpawnsNothing ==
  /\ runner = "spawning"
  /\ Settle("fail", "ending")
  /\ UNCHANGED <<proc, out, said, emitted, mq>> /\ RunnerFrame

ReadsLine(kind) ==
  /\ runner = "reading"
  /\ emitted < MaxMessages
  /\ runner' = "putting"
  /\ out' = kind
  /\ said' = said \cup {kind}
  /\ emitted' = emitted + 1
  /\ UNCHANGED <<proc, mq, future>> /\ RunnerFrame

Puts ==
  /\ runner = "putting"
  /\ HasRoom
  /\ mq' = Append(mq, out)
  /\ runner' = "reading"
  /\ out' = "none"
  /\ UNCHANGED <<proc, said, emitted, future>> /\ RunnerFrame

\* The stream is at its end; the process may outlive it.
ReadsEof ==
  /\ runner = "reading"
  /\ runner' = "waiting"
  /\ proc' = IF proc = "running" THEN "mute" ELSE proc
  /\ UNCHANGED <<out, said, emitted, mq, future>> /\ RunnerFrame

\* process.wait(), which has no deadline, is over; the code refs are next.
WaitEnds ==
  /\ runner = "waiting"
  /\ proc = "exited"
  /\ runner' = "resolving"
  /\ UNCHANGED <<proc, out, said, emitted, mq, future>> /\ RunnerFrame

Resolves ==
  /\ runner = "resolving"
  /\ \E outcome \in {"ok", "fail"} : Settle(outcome, "ending")
  /\ UNCHANGED <<proc, out, said, emitted, mq>> /\ RunnerFrame

PutsSentinel ==
  /\ runner = "ending"
  /\ HasRoom
  /\ mq' = Append(mq, "end")
  /\ runner' = "done"
  /\ UNCHANGED <<proc, out, said, emitted, future>> /\ RunnerFrame

\* No line for _LINE_TIMEOUT: the process is killed ...
LineTimesOut ==
  /\ runner = "reading"
  /\ runner' = "expired"
  /\ proc' = "exited"
  /\ UNCHANGED <<out, said, emitted, mq, future>> /\ RunnerFrame

\* ... a session_end is put and the result set.
ReportsTimeout ==
  /\ runner = "expired"
  /\ HasRoom
  /\ mq' = Append(mq, "text")
  /\ emitted' = emitted + 1
  /\ Settle("fail", "ending")
  /\ UNCHANGED <<proc, out, said>> /\ RunnerFrame

\* A line over the stream limit, or one that does not decode: neither the
\* future is set nor the sentinel put, and the process is left running.
RunnerDies ==
  /\ Faulty
  /\ runner \in {"spawning", "reading"}
  /\ runner' = "died"
  /\ UNCHANGED <<proc, out, said, emitted, mq, future>> /\ RunnerFrame

\* The brain is done, or obeys the signal; what it wrote can still be read.
BrainExits ==
  /\ proc \in {"running", "mute", "told"}
  /\ proc' = "exited"
  /\ UNCHANGED <<runner, out, said, emitted, mq, future>> /\ RunnerFrame

Runner ==
  \/ Spawns \/ SpawnsNothing
  \/ \E kind \in Kinds : ReadsLine(kind)
  \/ Puts \/ ReadsEof \/ WaitEnds \/ Resolves \/ PutsSentinel
  \/ LineTimesOut \/ ReportsTimeout

-----------------------------------------------------------------------------
(* The user: up to the result.                                             *)

UserFrame == UNCHANGED <<fixedVars, said, emitted, out>>

\* session.append: accepted, or refused because the session's queue is full.
Appends ==
  /\ logOpen
  /\ onTheWay' \in {onTheWay, onTheWay + 1}
  /\ UNCHANGED logOpen

\* An update_task_status call; one that fails is logged and swallowed.
HubWrites(status) ==
  /\ sent' = status
  /\ hub' = status \/ (Faulty /\ hub' = hub)

\* execenv.setup, the sandbox.attached event of an e2b task, the pre-check.
SetsUp ==
  /\ pc = "setup"
  /\ Appends \/ UNCHANGED logVars
  /\ \/ pc' = "pin" /\ result' = result
     \/ pc' = "teardown" /\ result' = "fail"
  /\ UNCHANGED <<runner, proc, mq, future, msg, heard, noted, cancelled, hubVars>>
  /\ UserFrame

\* session.pin, status working, backend.execute.
Starts ==
  /\ pc = "pin"
  /\ HubWrites("working")
  /\ runner' = "spawning"
  /\ pc' = "stream"
  /\ UNCHANGED <<proc, mq, future, foundVars, logVars>> /\ UserFrame

TakesMessage ==
  /\ pc = "stream"
  /\ mq # <<>> /\ Head(mq) # "end"
  /\ msg' = Head(mq)
  /\ mq' = Tail(mq)
  /\ Appends
  /\ pc' = "append"
  /\ UNCHANGED <<runner, proc, future, heard, noted, cancelled, result, hubVars>>
  /\ UserFrame

\* A reply is kept for the secret scan, a tool result parsed for a pending
\* delegate call.
Finds(kind) == {kind} \cap {"pending", "secret"}

\* Back from append_from_backend; only the harness looks into the message.
LooksAtMessage ==
  /\ pc = "append"
  /\ heard' = heard + 1
  /\ noted' = IF mode = "harness" THEN noted \cup Finds(msg) ELSE noted
  /\ pc' = IF mode = "harness" /\ msg = "start" THEN "check" ELSE "stream"
  /\ msg' = "none"
  /\ UNCHANGED <<runner, proc, mq, future, cancelled, result, hubVars, logVars>>
  /\ UserFrame

\* check_cancelled; an error counts as no.
ChecksCancelled ==
  /\ pc = "check"
  /\ \/ cancelled' = (hub = "cancelled")
     \/ Faulty /\ cancelled' = FALSE
  /\ pc' = IF cancelled' THEN "result" ELSE "stream"
  /\ UNCHANGED <<runner, proc, mq, future, msg, heard, noted, result, hubVars,
                 logVars>> /\ UserFrame

StreamEnds ==
  /\ pc = "stream"
  /\ mq # <<>> /\ Head(mq) = "end"
  /\ mq' = Tail(mq)
  /\ pc' = "result"
  /\ UNCHANGED <<runner, proc, future, foundVars, hubVars, logVars>> /\ UserFrame

\* Mutant: the result is taken as soon as it is there, the stream read or not.
MutGetsResultEarly ==
  /\ pc \in {"stream", "result"}
  /\ future \in {"ok", "fail"}
  /\ result' = future
  /\ pc' = IF mode = "harness" THEN "settle" ELSE "closing"
  /\ UNCHANGED <<runner, proc, mq, future, msg, heard, noted, cancelled, hubVars,
                 logVars>> /\ UserFrame

GetsResult ==
  /\ pc = "result"
  /\ future \in {"ok", "fail"}
  /\ result' = future
  /\ pc' = IF mode = "harness" THEN "settle" ELSE "closing"
  /\ UNCHANGED <<runner, proc, mq, future, msg, heard, noted, cancelled, hubVars,
                 logVars>> /\ UserFrame

\* Cancelling a coroutine that awaits a future cancels the future.
FutureAfterCancel ==
  IF pc = "result" /\ future = "unset" THEN "cancelled" ELSE future

\* Mutant: the result is awaited outside of asyncio.timeout.
MutTimesOutStreamOnly ==
  /\ mode = "harness"
  /\ pc \in {"stream", "append", "check"}
  /\ result' = "fail"
  /\ future' = FutureAfterCancel
  /\ pc' = "settle"
  /\ UNCHANGED <<runner, proc, mq, msg, heard, noted, cancelled, hubVars, logVars>>
  /\ UserFrame

\* _EXECUTION_TIMEOUT_SECONDS are over.
TimesOut ==
  /\ mode = "harness"
  /\ pc \in {"stream", "append", "check", "result"}
  /\ result' = "fail"
  /\ future' = FutureAfterCancel
  /\ pc' = "settle"
  /\ UNCHANGED <<runner, proc, mq, msg, heard, noted, cancelled, hubVars, logVars>>
  /\ UserFrame

-----------------------------------------------------------------------------
(* The user: from the result on.                                           *)

\* The completion milestone and the post-check, which finds every secret in
\* what was streamed and may find fault with the files.
Settles ==
  /\ pc = "settle"
  /\ IF result = "ok" /\ ~cancelled
       THEN /\ Appends
            /\ result' \in IF "secret" \in noted THEN {"fail"} ELSE {"ok", "fail"}
       ELSE UNCHANGED <<logVars, result>>
  /\ pc' = "flush"
  /\ UNCHANGED <<runner, proc, mq, future, msg, heard, noted, cancelled, hubVars>>
  /\ UserFrame

\* A runner that is cancelled while it reads or puts tells its process to stop;
\* one that waits for the exit of a mute process leaves it alone.
ProcAfterCancel == IF proc = "running" THEN "told" ELSE proc

CancelRunner ==
  IF handle /\ runner \in Active
    THEN runner' = "cancelled" /\ proc' = ProcAfterCancel
    ELSE UNCHANGED <<runner, proc>>

\* BackendSession.aclose
Closes ==
  /\ pc = "closing"
  /\ CancelRunner
  /\ pc' = IF mode = "orch" THEN "flush" ELSE "returned"
  /\ UNCHANGED <<mq, future, foundVars, hubVars, logVars>> /\ UserFrame

AfterFlush == IF mode = "harness" THEN "report" ELSE "returned"

\* Mutant: the session is not flushed.
MutFlushesNothing ==
  /\ pc = "flush"
  /\ pc' = AfterFlush
  /\ UNCHANGED <<runner, proc, mq, future, foundVars, hubVars, logVars>> /\ UserFrame

Flushes ==
  /\ pc = "flush"
  /\ onTheWay = 0
  /\ logOpen' = FALSE
  /\ pc' = AfterFlush
  /\ UNCHANGED <<runner, proc, mq, future, foundVars, hubVars, onTheWay>> /\ UserFrame

\* Mutant: the final status does not ask for a cancellation.
MutVerdictOverrides ==
  CASE "pending" \in noted -> "blocked"
    [] "pending" \notin noted /\ result = "ok" -> IF finalize THEN "done" ELSE "none"
    [] OTHER -> "blocked"

\* Mutant: a success is looked at before the pending delegate calls.
MutVerdictSuccessFirst ==
  CASE cancelled -> "none"
    [] ~cancelled /\ result = "ok" -> IF finalize THEN "done" ELSE "none"
    [] OTHER -> "blocked"

\* The final status; "none" when it is somebody else's to set.
Verdict ==
  CASE cancelled -> "none"
    [] ~cancelled /\ "pending" \in noted -> "blocked"
    [] ~cancelled /\ "pending" \notin noted /\ result = "ok" ->
         IF finalize THEN "done" ELSE "none"
    [] OTHER -> "blocked"

Reports ==
  /\ pc = "report"
  /\ IF Verdict = "none" THEN UNCHANGED hubVars ELSE HubWrites(Verdict)
  /\ pc' = "teardown"
  /\ UNCHANGED <<runner, proc, mq, future, foundVars, logVars>> /\ UserFrame

TearsDown ==
  /\ pc = "teardown"
  /\ pc' = "returned"
  /\ UNCHANGED <<runner, proc, mq, future, foundVars, hubVars, logVars>> /\ UserFrame

-----------------------------------------------------------------------------
(* The daemon stops in mid-turn.                                           *)

\* Mutant: run_backend_turn closes the backend on a normal return only.
MutInterruptedSkipsClose ==
  /\ Faulty
  /\ pc \in {"stream", "append", "result"}
  /\ mode = "orch"
  /\ future' = FutureAfterCancel
  /\ pc' = "flush"
  /\ UNCHANGED <<runner, proc, mq, foundVars, hubVars, logVars>> /\ UserFrame

\* The `finally` of run_backend_turn.
Interrupted ==
  /\ Faulty
  /\ pc \in {"stream", "append", "result"}
  /\ mode = "orch"
  /\ future' = FutureAfterCancel
  /\ pc' = "closing"
  /\ UNCHANGED <<runner, proc, mq, foundVars, hubVars, logVars>> /\ UserFrame

\* Harness.execute and the one-shot handlers have no such `finally`.
Abandons ==
  /\ Faulty
  /\ mode # "orch"
  /\ pc \notin Ended
  /\ future' = FutureAfterCancel
  /\ pc' = "gone"
  /\ onTheWay' = 0
  /\ logOpen' = FALSE
  /\ UNCHANGED <<runner, proc, mq, foundVars, hubVars>> /\ UserFrame

\* asyncio.run cancels what is left when the daemon is gone.
LoopCloses ==
  /\ pc = "gone"
  /\ runner \in Active
  /\ runner' = "cancelled"
  /\ proc' = IF handle THEN ProcAfterCancel ELSE proc
  /\ UNCHANGED <<mq, future, pc, foundVars, hubVars, logVars>> /\ UserFrame

PersonCancels ==
  /\ mode = "harness"
  /\ hub \in {"claimed", "working", "blocked"}
  /\ hub' = "cancelled"
  /\ UNCHANGED <<fixedVars, runnerVars, mq, future, pc, foundVars, sent, logVars>>

\* The session publishes, loses or gives up on some events.
LogMoves ==
  /\ onTheWay > 0
  /\ onTheWay' \in 0..(onTheWay - 1)
  /\ UNCHANGED <<fixedVars, runnerVars, mq, future, pc, foundVars, hubVars, logOpen>>

-----------------------------------------------------------------------------
User ==
  \/ SetsUp \/ Starts
  \/ TakesMessage \/ LooksAtMessage \/ ChecksCancelled \/ StreamEnds \/ GetsResult
  \/ Settles \/ Closes \/ Flushes \/ Reports \/ TearsDown

Stopping == Interrupted \/ Abandons \/ LoopCloses

Next ==
  \/ Runner \/ RunnerDies \/ BrainExits \/ User \/ TimesOut \/ Stopping
  \/ PersonCancels \/ LogMoves

Spec == Init /\ [][Next]_vars

(* The event loop runs the user and the runner whenever they are ready;    *)
(* the line timeout ends every read and the execution timeout every turn   *)
(* of the harness; the flusher is Session.tla's.  Neither people, failures *)
(* nor brains are obliged to anything: one whose output is at its end need *)
(* never exit.  (One that talks without end is beyond MaxMessages.)        *)
Fairness ==
  /\ WF_vars(Runner)
  /\ WF_vars(User)
  /\ WF_vars(TimesOut)
  /\ WF_vars(LogMoves)

FairSpec == Spec /\ Fairness

-----------------------------------------------------------------------------
(* Properties.                                                             *)

TypeOK ==
  /\ mode \in Modes
  /\ handle \in BOOLEAN
  /\ finalize \in BOOLEAN
  /\ runner \in Active \cup {"none", "done", "died", "cancelled"}
  /\ proc \in {"none", "running", "mute", "told", "exited"}
  /\ out \in Kinds \cup {"none"}
  /\ mq \in Seq(Kinds \cup {"end"})
  /\ Len(mq) <= QueueCap
  /\ future \in {"unset", "ok", "fail", "cancelled"}
  /\ said \subseteq Kinds
  /\ emitted \in Nat
  /\ pc \in {"setup", "pin", "stream", "append", "check", "result", "settle",
             "closing", "flush", "report", "teardown"} \cup Ended
  /\ msg \in Kinds \cup {"none"}
  /\ heard \in Nat
  /\ noted \subseteq {"pending", "secret"}
  /\ cancelled \in BOOLEAN
  /\ result \in {"none", "ok", "fail"}
  /\ hub \in {"claimed", "working", "blocked", "done", "cancelled"}
  /\ sent \in {"none", "working", "blocked", "done"}
  /\ onTheWay \in Nat
  /\ logOpen \in BOOLEAN

(* A turn that is reported a success was heard to its end: the process has *)
(* exited by itself, every message it sent was handled before the result   *)
(* was looked at, and none had a secret in it.  The future is set before   *)
(* the sentinel is put, with messages still in the queue, and timeouts and *)
(* cancellations cut the stream short anywhere (harness.py:159-248).       *)
SuccessIsWhole ==
  mode = "harness" /\ pc = "returned" /\ result = "ok" /\ ~cancelled
    => /\ proc = "exited"
       /\ heard = emitted
       /\ "secret" \notin said

(* A brain that left a delegate call pending has its task blocked, however *)
(* the turn ends: with success, failure or a timeout before the message    *)
(* was even read.  The exception is a cancellation that was seen           *)
(* (harness.py:257-292).                                                   *)
PendingBlocks ==
  mode = "harness" /\ pc = "returned" /\ "pending" \in said /\ ~cancelled
    => sent = "blocked"

(* The final status comes after the tape: whoever reads "done" or          *)
(* "blocked" finds every event there that will ever be there               *)
(* (harness.py:250-253).                                                   *)
TapeBeforeStatus == sent \in {"blocked", "done"} => ~logOpen /\ onTheWay = 0

(* A harness that has seen the cancellation never sets a status again,     *)
(* whatever the rest of the turn brings (harness.py:254-256).              *)
CancelStays == [][cancelled => hub' \in {hub, "cancelled"}]_vars

(* A drive's turn leaves no runner behind, and no process that was not told *)
(* to stop, even when it is interrupted, if the backend has handed over    *)
(* its runner (orch_drive.py:54-58, protocol.py:80-93).  The exception: a  *)
(* process that has closed its output is left to itself if the turn is     *)
(* interrupted while its runner waits for the exit (claude.py:199-204,     *)
(* 223).                                                                   *)
NoChildLeft ==
  mode = "orch" /\ handle /\ pc \in {"flush", "returned"} /\ runner # "died"
    => /\ runner \notin Active
       /\ proc # "running"
       /\ proc = "mute" => runner = "cancelled"

NeverExits == <>[](runner = "waiting")

(* Every turn of the harness returns, although the brain may be silent,    *)
(* outlive its output, its runner be dead, or stuck on a full queue after  *)
(* a cancellation.  A drive's turn, which has no deadline, returns unless  *)
(* its runner dies or waits for ever for a process that does not exit; a   *)
(* one-shot call, which reads no messages, if moreover they leave room in  *)
(* the queue.                                                              *)
TurnReturns ==
  /\ mode = "harness" => <>(pc \in Ended)
  /\ mode = "orch" => <>(pc \in Ended \/ runner = "died") \/ NeverExits
  /\ mode = "oneshot" =>
       <>(pc \in Ended \/ runner = "died" \/ emitted >= QueueCap) \/ NeverExits

(* What the repository says and the code does not do.                      *)

(* loop.py:348-351: a task-less invocation "is now answered instead of     *)
(* skipped".                                                               *)
OneShotAnswers == mode = "oneshot" ~> pc \in Ended

(* orch_drive.py:40-42: run_backend_turn "Always cancels the backend       *)
(* runner + child process on exit".                                        *)
ChildAlwaysCancelled ==
  mode = "orch" /\ pc = "returned" => proc \notin {"running", "mute"}
=============================================================================
