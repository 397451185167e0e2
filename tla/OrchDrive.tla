------------------------------ MODULE OrchDrive ------------------------------
(***************************************************************************)
(* daemon/orch_drive.py: one OrchDrive, driving the subtree of Root.       *)
(*                                                                         *)
(* The drive polls: read the subtree (two calls, tasks then links), read   *)
(* the reports on the root's tape, give the brain a turn if a child has    *)
(* news, read the subtree again, and mark the root done when no child is   *)
(* pending.  Children run elsewhere and go on between any two of those     *)
(* calls; each await that matters is a step.  The wake event of the SSE    *)
(* watcher only shortens the wait between two rounds and is left out.      *)
(*                                                                         *)
(* krewhub, the children and people are external.                          *)
(***************************************************************************)
EXTENDS Integers, FiniteSets, Sequences

CONSTANTS
  Kids,               \* the tasks that may ever be in the subtree
  Root,               \* the orchestrating task
  None,               \* no parent
  MaxChildren,        \* OrchConfig.max_children
  MaxSpawnsPerTurn,   \* OrchConfig.max_spawns_per_turn
  MaxTurns,           \* OrchConfig.max_turns
  KidsMaySpawn,       \* is a child's depth below OrchConfig.max_depth
  Faulty,             \* may calls to krewhub and brain turns fail
  MaxActs             \* bound: how often people adopt, cancel or reopen

ASSUME DriveAssumption ==
  /\ IsFiniteSet(Kids)
  /\ Root \notin Kids
  /\ None \notin Kids \cup {Root}
  /\ MaxChildren \in Nat \ {0}
  /\ MaxSpawnsPerTurn \in Nat \ {0}
  /\ MaxTurns \in Nat \ {0}
  /\ KidsMaySpawn \in BOOLEAN
  /\ Faulty \in BOOLEAN
  /\ MaxActs \in Nat

VARIABLES
  status,      \* krewhub: status of each child ("open" includes claimed)
  rootStatus,  \* krewhub: status of the root
  par,         \* krewhub: who drives a child, by an active link
  tape,        \* krewhub: the subagent reports on the root's tape; seq = index
  outbox,      \* krewhub: direct children whose report is not on the tape yet
  brains,      \* the children of which a brain, or its bridge, may be running
  late,        \* history: what was spawned by brains that outlived their turns,
               \* and by what those spawned
  pc,          \* where the drive is
  phase,       \* the round's half: _tick or _maybe_finish
  view,        \* the SubtreeView being built or used
  reports,     \* new_reports: the children the coming turn hears of
  upTo,        \* the seq of the last report among them
  lastSeq,     \* OrchDrive._last_report_seq
  acked,       \* OrchDrive._acked_terminal_sig
  turns,       \* OrchDrive._turn_count
  spawnLeft,   \* what the turn's brain may still spawn, or did not when it ended
  shown,       \* history: the children that were in the prompt of a turn
  outcome,     \* how the drive ended
  acts         \* what people have done, counted for the bound

hubVars   == <<status, rootStatus, par, tape, outbox>>
kidVars   == <<brains, late>>
roundVars == <<pc, phase, view>>
turnVars  == <<reports, upTo, spawnLeft>>
ackVars   == <<lastSeq, acked, turns, shown>>
driveVars == <<roundVars, turnVars, ackVars, outcome>>
vars == <<hubVars, kidVars, driveVars, acts>>

Least(a, b) == IF a < b THEN a ELSE b

\* TERMINAL_STATUSES.
Terminal == {"done", "blocked", "cancelled"}
Status   == Terminal \cup {"absent", "open", "working"}
Seen     == Terminal \cup {"open", "working", "unknown"}

\* OrchConfig.spawn_budget, for a root below max_depth.
SpawnBudget(current) ==
  Least(MaxSpawnsPerTurn,
        IF current < MaxChildren THEN MaxChildren - current ELSE 0)

\* What a turn's bridge may spawn.  The drive puts SpawnBudget of its subtree
\* in the environment of the backend's CLI, but _bridge_env writes the bridge's
\* own environment, and takes the number from the daemon's os.environ: what the
\* daemon's latest first turn was given, for a task with no children yet, or at
\* max_depth.
BridgeBudgets == {0, SpawnBudget(0)}

NoView == [k \in Kids |-> "none"]

\* The first brain turn (Harness) has spawned children; that is why we drive.
Init ==
  /\ \E S \in SUBSET Kids :
       /\ Cardinality(S) \in 1..SpawnBudget(0)
       /\ status = [k \in Kids |-> IF k \in S THEN "open" ELSE "absent"]
       /\ par = [k \in Kids |-> IF k \in S THEN Root ELSE None]
  /\ rootStatus = "working"
  /\ tape = <<>>
  /\ outbox = {}
  /\ brains = {}
  /\ late = {}
  /\ pc = "check"
  /\ phase = "tick"
  /\ view = NoView
  /\ reports = {}
  /\ upTo = 0
  /\ lastSeq = 0
  /\ acked = NoView
  /\ turns = 0
  /\ spawnLeft = 0
  /\ shown = {}
  /\ outcome = "none"
  /\ acts = [adoptions |-> 0, cancels |-> 0, reopens |-> 0]

-----------------------------------------------------------------------------
(* SubtreeView.                                                            *)

\* Everything the links lead to from the root.
Subtree ==
  LET Closed(S) == \A k \in Kids : par[k] \in S \cup {Root} => k \in S
  IN  {k \in Kids : \A S \in SUBSET Kids : Closed(S) => k \in S}

InView   == {k \in Kids : view[k] # "none"}
TerminalInView == {k \in Kids : view[k] \in Terminal}

\* Mutant: `direct_children()` is asked instead of all of the subtree.
MutPendingDirectOnly ==
  {k \in InView : view[k] \notin Terminal /\ par[k] = Root}

\* Mutant: a blocked child counts as pending.
MutPendingBlockedToo == {k \in InView : view[k] \notin {"done", "cancelled"}}

\* pending(): a child whose task was not among the tasks read is "unknown",
\* and that is not terminal.
Pending == {k \in InView : view[k] \notin Terminal}

\* terminal_signature()
Signature == [k \in Kids |-> IF view[k] \in Terminal THEN view[k] ELSE "none"]

-----------------------------------------------------------------------------
(* The round: run.                                                         *)

DriveEnded(how) ==
  /\ pc' = "ended"
  /\ outcome' = how
  /\ UNCHANGED <<phase, view, turnVars, ackVars>>

Retires ==
  /\ pc = "check"
  /\ rootStatus \in {"cancelled", "done"}
  /\ DriveEnded("retired")
  /\ UNCHANGED <<hubVars, kidVars, acts>>

\* The root is not terminal, or could not be read.
RootGoesOn == rootStatus \notin {"cancelled", "done"} \/ Faulty

HitsCeiling ==
  /\ pc = "check"
  /\ RootGoesOn
  /\ turns >= MaxTurns
  /\ DriveEnded("max_turns")
  /\ UNCHANGED <<hubVars, kidVars, acts>>

RoundBegins ==
  /\ pc = "check"
  /\ RootGoesOn
  /\ turns < MaxTurns
  /\ pc' = "tasks"
  /\ phase' = "tick"
  /\ UNCHANGED <<view, turnVars, ackVars, outcome, hubVars, kidVars, acts>>

\* Where a view leads: _tick goes on to the tape, _maybe_finish decides.
AfterView == IF phase = "tick" THEN "events" ELSE "decide"

\* reconcile_subtree: get_bundle
ReadTasks ==
  /\ pc = "tasks"
  /\ view' = status
  /\ pc' = "links"
  /\ UNCHANGED <<phase, turnVars, ackVars, outcome, hubVars, kidVars, acts>>

\* reconcile_subtree: get_bundle_links, then build_subtree
ReadLinks ==
  /\ pc = "links"
  /\ view' = [k \in Kids |-> IF k \notin Subtree THEN "none"
                             ELSE IF view[k] = "absent" THEN "unknown"
                             ELSE view[k]]
  /\ pc' = AfterView
  /\ UNCHANGED <<phase, turnVars, ackVars, outcome, hubVars, kidVars, acts>>

\* Either call fails: the view is an empty subtree.
ReadFails ==
  /\ Faulty
  /\ pc \in {"tasks", "links"}
  /\ view' = NoView
  /\ pc' = AfterView
  /\ UNCHANGED <<phase, turnVars, ackVars, outcome, hubVars, kidVars, acts>>

-----------------------------------------------------------------------------
(* _tick: reports, turn, acknowledgement.                                  *)

\* get_task_events answers with the newest events, or with none on an error.
Window == IF Faulty THEN 1..(Len(tape) + 1) ELSE {1}

\* tape_new, as positions on the tape.
FreshFrom(first) == {i \in first..Len(tape) : i > lastSeq}

\* _collect_new_reports: what the tape brings, and every terminal child whose
\* status is news and that the tape did not bring.
NewReports(fresh) ==
  {tape[i] : i \in fresh} \cup {k \in TerminalInView : acked[k] # view[k]}

Reads(fresh, spawns) ==
  /\ reports' = NewReports(fresh)
  /\ IF reports' = {}
       THEN /\ pc' = "tasks"
            /\ phase' = "finish"
            /\ view' = NoView
            /\ UNCHANGED <<upTo, spawnLeft, turns>>
       ELSE /\ pc' = "turn"
            /\ view' = view
            /\ phase' = phase
            /\ upTo' = IF fresh = {} THEN lastSeq ELSE Len(tape)
            /\ spawnLeft' = spawns
            /\ turns' = turns + 1

\* The tape is read; without news _maybe_finish is next, with news a turn.
ReadEvents ==
  /\ pc = "events"
  /\ \E first \in Window, spawns \in BridgeBudgets : Reads(FreshFrom(first), spawns)
  /\ UNCHANGED <<lastSeq, acked, shown, outcome, hubVars, kidVars, acts>>

\* get_task raises for the root: _tick and run do not catch it.
RootReadRaises ==
  /\ Faulty
  /\ pc = "events"
  /\ \E first \in Window : NewReports(FreshFrom(first)) # {}
  /\ DriveEnded("raised")
  /\ UNCHANGED <<hubVars, kidVars, acts>>

\* Mutant: the bridge does not look at what is left.
MutBrainSpawns(k) ==
  /\ pc = "turn"
  /\ status[k] = "absent"
  /\ status' = [status EXCEPT ![k] = "open"]
  /\ par' = [par EXCEPT ![k] = Root]
  /\ spawnLeft' = spawnLeft - 1
  /\ UNCHANGED <<rootStatus, tape, outbox, kidVars, roundVars, reports, upTo, ackVars,
                 outcome, acts>>

\* The brain calls spawn_subtask; the bridge counts down the turn's budget, and
\* looks at nothing else: it may get to the call when the turn is over.
BrainSpawns(k) ==
  /\ spawnLeft > 0
  /\ status[k] = "absent"
  /\ status' = [status EXCEPT ![k] = "open"]
  /\ par' = [par EXCEPT ![k] = Root]
  /\ spawnLeft' = spawnLeft - 1
  /\ late' = IF pc = "turn" THEN late ELSE late \cup {k}
  /\ UNCHANGED <<rootStatus, tape, outbox, brains, roundVars, reports, upTo, ackVars,
                 outcome, acts>>

\* Mutant: the tick after the turn acknowledges a signature read afresh.
MutAcknowledgeFresh ==
  /\ lastSeq' = upTo
  /\ acked' = [k \in Kids |-> IF k \in Subtree /\ status[k] \in Terminal
                              THEN status[k] ELSE "none"]
  /\ reports' = {}
  /\ upTo' = 0
  /\ spawnLeft' = 0
  /\ view' = NoView
  /\ pc' = "tasks"
  /\ phase' = "finish"

\* After the turn, whether it failed or not.  What was local to the tick is gone.
\* The bridge may be there still: an expired line kills the CLI alone, a call may
\* be under way, and not every backend hands over its runner (BrainTurn.tla).
Acknowledge ==
  /\ lastSeq' = upTo
  /\ acked' = Signature
  /\ reports' = {}
  /\ upTo' = 0
  /\ spawnLeft' \in {0, spawnLeft}
  /\ view' = NoView
  /\ pc' = "tasks"
  /\ phase' = "finish"

\* The stream is over, or execute or the stream raises, which _run_turn logs.
TurnEnds ==
  /\ pc = "turn"
  /\ Acknowledge
  /\ shown' = shown \cup reports
  /\ UNCHANGED <<turns, outcome, hubVars, kidVars, acts>>

-----------------------------------------------------------------------------
(* _maybe_finish.                                                          *)

GoesOn ==
  /\ pc = "decide"
  /\ Pending # {}
  /\ pc' = "check"
  /\ phase' = "tick"
  /\ view' = NoView
  /\ UNCHANGED <<turnVars, ackVars, outcome, hubVars, kidVars, acts>>

\* Nothing is pending; the root is marked done, or the call fails and is
\* logged: either way the drive is over.
Finishes ==
  /\ pc = "decide"
  /\ Pending = {}
  /\ \/ rootStatus' = "done"
     \/ Faulty /\ rootStatus' = rootStatus
  /\ DriveEnded("finished")
  /\ UNCHANGED <<status, par, tape, outbox, kidVars, acts>>

-----------------------------------------------------------------------------
(* The children, krewhub and people.                                       *)

KidStarts(k) ==
  /\ status[k] = "open"
  /\ status' = [status EXCEPT ![k] = "working"]
  /\ brains' = brains \cup {k}
  /\ UNCHANGED <<rootStatus, par, tape, outbox, late, driveVars, acts>>

\* A child that ends reports to its own parent's tape, the root's or another.
\* One that timed out, or was driven, may leave a brain or a bridge behind.
KidEnds(k, s) ==
  /\ status[k] = "working"
  /\ s \in {"done", "blocked"}
  /\ status' = [status EXCEPT ![k] = s]
  /\ outbox' = IF par[k] = Root THEN outbox \cup {k} ELSE outbox
  /\ brains' \in {brains, brains \ {k}}
  /\ UNCHANGED <<rootStatus, par, tape, late, driveVars, acts>>

\* krewhub projects the report onto the tape, in its own time.
ReportProjected(k) ==
  /\ k \in outbox
  /\ outbox' = outbox \ {k}
  /\ tape' = Append(tape, k)
  /\ UNCHANGED <<status, rootStatus, par, kidVars, driveVars, acts>>

\* A child is an orchestrator too: its own first turn has a budget of its own.
\* spawn_subtask does not ask for the status of the task it spawns under, and a
\* child that is cancelled or has timed out leaves its brain running.
KidSpawns(k, g) ==
  /\ KidsMaySpawn
  /\ k \in brains
  /\ status[g] = "absent"
  /\ status' = [status EXCEPT ![g] = "open"]
  /\ par' = [par EXCEPT ![g] = k]
  /\ late' = IF status[k] = "working" /\ k \notin late THEN late ELSE late \cup {g}
  /\ UNCHANGED <<rootStatus, tape, outbox, brains, driveVars, acts>>

PeopleAct == acts.adoptions + acts.cancels + acts.reopens < MaxActs

ChildAdopted(k) ==
  /\ status[k] = "absent"
  /\ PeopleAct
  /\ status' = [status EXCEPT ![k] = "open"]
  /\ par' = [par EXCEPT ![k] = Root]
  /\ acts' = [acts EXCEPT !.adoptions = @ + 1]
  /\ UNCHANGED <<rootStatus, tape, outbox, kidVars, driveVars>>

ChildReopened(k) ==
  /\ status[k] \in {"done", "blocked"}
  /\ PeopleAct
  /\ status' = [status EXCEPT ![k] = "open"]
  /\ acts' = [acts EXCEPT !.reopens = @ + 1]
  /\ UNCHANGED <<rootStatus, par, tape, outbox, kidVars, driveVars>>

ChildCancelled(k) ==
  /\ status[k] \in {"open", "working", "blocked"}
  /\ PeopleAct
  /\ status' = [status EXCEPT ![k] = "cancelled"]
  /\ acts' = [acts EXCEPT !.cancels = @ + 1]
  /\ UNCHANGED <<rootStatus, par, tape, outbox, kidVars, driveVars>>

RootCancelled ==
  /\ rootStatus = "working"
  /\ PeopleAct
  /\ rootStatus' = "cancelled"
  /\ acts' = [acts EXCEPT !.cancels = @ + 1]
  /\ UNCHANGED <<status, par, tape, outbox, kidVars, driveVars>>

-----------------------------------------------------------------------------
Round ==
  \/ Retires \/ HitsCeiling \/ RoundBegins
  \/ ReadTasks \/ ReadLinks \/ ReadEvents
  \/ GoesOn \/ Finishes

Failure == ReadFails \/ RootReadRaises

Child(k) == KidStarts(k) \/ \E s \in Terminal : KidEnds(k, s)

Person(k) == ChildAdopted(k) \/ ChildReopened(k) \/ ChildCancelled(k)

Next ==
  \/ Round \/ TurnEnds \/ Failure
  \/ \E k \in Kids : BrainSpawns(k) \/ Child(k) \/ ReportProjected(k)
  \/ \E k, g \in Kids : KidSpawns(k, g)
  \/ \E k \in Kids : Person(k)
  \/ RootCancelled

Spec == Init /\ [][Next]_vars

(* The event loop runs the drive, and its calls to krewhub have timeouts.  *)
(* Its brain turns have none (orch_drive.py:35-59), and nothing obliges    *)
(* the children to end.                                                    *)
Fairness == WF_vars(Round)

FairSpec == Spec /\ Fairness

-----------------------------------------------------------------------------
(* Properties.                                                             *)

TypeOK ==
  /\ status \in [Kids -> Status]
  /\ rootStatus \in {"working", "done", "cancelled"}
  /\ par \in [Kids -> Kids \cup {Root, None}]
  /\ tape \in Seq(Kids)
  /\ outbox \subseteq Kids
  /\ brains \subseteq Kids
  /\ late \subseteq Kids
  /\ pc \in {"check", "tasks", "links", "events", "turn", "decide", "ended"}
  /\ phase \in {"tick", "finish"}
  /\ view \in [Kids -> Seen \cup {"absent", "none"}]
  /\ reports \subseteq Kids
  /\ upTo \in 0..Len(tape)
  /\ lastSeq \in 0..Len(tape)
  /\ acked \in [Kids -> Terminal \cup {"none"}]
  /\ turns \in 0..MaxTurns
  /\ spawnLeft \in 0..MaxSpawnsPerTurn
  /\ shown \subseteq Kids
  /\ outcome \in {"none", "finished", "retired", "max_turns", "raised"}
  /\ acts \in [adoptions : Nat, cancels : Nat, reopens : Nat]

Quiescent == \A k \in Subtree : status[k] \in Terminal

\* What a brain that outlived its turn has added behind the drive's back.
Overlooked == {k \in late : view[k] = "none"}

(* A drive that saw its subtree when it finished leaves no child or        *)
(* grandchild at work that its view did not show as ended, unless a person *)
(* has adopted or reopened one: all it may have overlooked was spawned by  *)
(* the brain of a task, or of a turn, that was over already.  The two      *)
(* reads of reconcile_subtree are not atomic and children spawn between    *)
(* them; what makes it true is that tasks are read before links            *)
(* (orch_subtree.py:162-163) and that all of the subtree is asked          *)
(* (orch_drive.py:152-154).                                                *)
FinishedBlindOrQuiescent ==
  outcome = "finished" /\ acts.adoptions + acts.reopens = 0 /\ view # NoView
    => \A k \in Subtree \ Overlooked : status[k] \in Terminal

(* Whatever the drive has ticked off as known was in the prompt of a turn, *)
(* of one that ended well or of one that failed: no child is acknowledged  *)
(* that no prompt told of, although children end while the brain is in its *)
(* turn, reports reach the tape late, reads fail, and people cancel,       *)
(* reopen and adopt (orch_drive.py:175-203).                               *)
HeardBeforeAcked == \A k \in Kids : acked[k] # "none" => k \in shown

(* A drive ends, at the latest at max_turns, also when calls and turns     *)
(* keep failing, unless it hangs in a brain turn, which has no deadline,   *)
(* or some child never ends (orch_drive.py:106-132).                       *)
DriveEnds ==
  <>(pc = "ended") \/ <>[](pc = "turn") \/ <>[](~Quiescent)

(* What the repository says and the code does not do: orch_config.py:29    *)
(* says of max_children "Total children an orch task may ever have in its  *)
(* subtree"; every turn gets the budget of a task without children.        *)
SpawnsWithinCap ==
  Cardinality({k \in Kids : par[k] = Root}) <= MaxChildren + acts.adoptions

(* orch_drive.py:5-7: the engine drives "until the subtree is quiescent,   *)
(* then mark the root done".                                               *)
FinishedQuiescent == outcome = "finished" => Quiescent
=============================================================================
