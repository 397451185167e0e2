-------------------------------- MODULE Bridge --------------------------------
(***************************************************************************)
(* The MCP bridge of one task (mcp_servers/bridge.py, hitl_tool.py): a     *)
(* process per brain turn that reads the brain's tool calls from a pipe,   *)
(* one line after the other, and carries each out on krewhub before it     *)
(* reads the next.  Its spawn counter and its escalation budget live and   *)
(* die with the process; krewhub's invocations, elicitations and children  *)
(* outlive it.                                                             *)
(*                                                                         *)
(* A question is what a delegate call is made of, target and input; the    *)
(* brain may name a parent tape or an idempotency key of its own.  The     *)
(* set-up errors of a bridge without its environment are left out: the     *)
(* daemon always gives it one.                                             *)
(***************************************************************************)
EXTENDS Naturals, Sequences, SequencesExt, FiniteSets

CONSTANTS
  Questions,      \* what the brain may delegate
  SpawnBudget,    \* KREWCLI_ORCH_SPAWN_BUDGET
  MaxGrants,      \* max_grants_per_provider
  MaxTurns,       \* bound: turns, each with a bridge of its own
  MaxCalls,       \* bound: tool calls of all turns
  MaxEvents,      \* bound: events of an invocation before it is done
  Faulty          \* may HTTP calls fail, and lines be too long

ASSUME BridgeAssumption ==
  /\ SpawnBudget \in Nat
  /\ MaxGrants \in Nat
  /\ MaxTurns \in Nat \ {0}
  /\ MaxCalls \in Nat
  /\ MaxEvents \in Nat
  /\ Faulty \in BOOLEAN

VARIABLES
  nonblocking,  \* KREWHUB_DELEGATE_NONBLOCKING
  turn,         \* the turn, and with it the process
  kind,         \* "first" turn of a run, or a turn of its "drive"
  up,           \* is the bridge process there
  pipe,         \* the calls it has not read yet
  pc,           \* where handle_message is
  call,         \* the call it is handling
  watched,      \* the invocation it polls
  after,        \* its cursor into that invocation's events
  expired,      \* overall_deadline has passed
  spawned,      \* _spawn_count
  escalated,    \* HitlTool._budget of the one provider
  made,         \* history: how many calls the brain has made
  answer,       \* history: the answer to the last call read
  sawDone,      \* history: the done event was in a page of this call
  invocations,  \* krewhub: the invocations, in the order of their creation
  elicits,      \* krewhub: the elicitations of the task
  born,         \* krewhub: the children of this turn
  unheard       \* history: children whose creation was answered too late or not

brainVars   == <<nonblocking, turn, kind, made>>
pollVars    == <<watched, after, expired, sawDone>>
countVars   == <<spawned, escalated>>
krewhubVars == <<invocations, elicits, born, unheard>>
vars == <<brainVars, up, pipe, pc, call, pollVars, countVars, answer, krewhubVars>>

\* "other" stands for initialize, tools/list and unknown tools or methods,
\* "huge" for a line over the 64 KiB that a StreamReader takes by default.
\* A question stands for the delegate call that puts it.
Tools == Questions \cup {"spawn", "access", "other", "huge"}

\* What else a delegate call names, and the tapes it may then be put from; one
\* tape and one key stand for all.
Names == {"nothing", "tape", "key"}

Tapes == {"none", "task", "own"}

Calls == [id : Nat, what : Tools, names : Names]

NoCall == [id |-> 0, what |-> "none", names |-> "nothing"]

Answers == {"none", "result", "pending", "timeout", "error", "created", "refused",
            "granted", "denied", "unresolved", "listed"}

OwnKey == <<"own key">>

Invocation == [question : Questions, tape : Tapes, named : BOOLEAN,
               key : (Tapes \X Questions) \cup {OwnKey}, events : Nat, done : BOOLEAN]

Init ==
  /\ nonblocking \in BOOLEAN
  /\ turn = 1
  /\ kind = "first"
  /\ up = TRUE
  /\ pipe = <<>>
  /\ pc = "idle"
  /\ call = NoCall
  /\ watched = 0
  /\ after = 0
  /\ expired = FALSE
  /\ spawned = 0
  /\ escalated = 0
  /\ made = 0
  /\ answer = "none"
  /\ sawDone = FALSE
  /\ invocations = <<>>
  /\ elicits = <<>>
  /\ born = 0
  /\ unheard = 0

-----------------------------------------------------------------------------
(* The brain.                                                              *)

\* Tool calls go down the pipe without waiting for earlier ones.
BrainCalls(what, names) ==
  /\ up
  /\ what \in Questions \/ names = "nothing"
  /\ made < MaxCalls
  /\ what = "huge" => Faulty
  /\ made' = made + 1
  /\ pipe' = Append(pipe, [id |-> made + 1, what |-> what, names |-> names])
  /\ UNCHANGED <<nonblocking, turn, kind, up, pc, call, pollVars, countVars, answer,
                 krewhubVars>>

\* The CLI exits and its bridge with it; the next turn has a fresh one.
TurnEnds ==
  /\ turn < MaxTurns
  /\ turn' = turn + 1
  /\ kind' \in {"first", "drive"}
  /\ up' = TRUE
  /\ pipe' = <<>>
  /\ pc' = "idle"
  /\ call' = NoCall
  /\ watched' = 0 /\ after' = 0 /\ expired' = FALSE /\ sawDone' = FALSE
  /\ spawned' = 0 /\ escalated' = 0
  /\ answer' = "none"
  /\ born' = 0 /\ unheard' = 0
  /\ UNCHANGED <<nonblocking, made, invocations, elicits>>

-----------------------------------------------------------------------------
(* serve_stdio and handle_message.                                         *)

BridgeFrame == UNCHANGED <<brainVars, up>>

\* The handler returns, and its cursor and deadline are no more.
Answer(how) ==
  /\ answer' = how
  /\ pc' = "idle"
  /\ call' = NoCall
  /\ watched' = 0 /\ after' = 0 /\ expired' = FALSE
  /\ UNCHANGED <<sawDone, pipe>>

GoesTo(place) ==
  /\ pc' = place
  /\ UNCHANGED <<pipe, call, pollVars, answer>>

ReadsLine ==
  /\ up /\ pc = "idle" /\ pipe # <<>>
  /\ Head(pipe).what # "huge"
  /\ call' = Head(pipe)
  /\ pipe' = Tail(pipe)
  /\ pc' = IF Head(pipe).what \in Questions THEN "delegate" ELSE Head(pipe).what
  /\ answer' = "none"
  /\ sawDone' = FALSE
  /\ UNCHANGED <<watched, after, expired, countVars, krewhubVars>> /\ BridgeFrame

\* readline raises, nobody catches it, the process ends.
LineTooLong ==
  /\ up /\ pc = "idle" /\ pipe # <<>>
  /\ Head(pipe).what = "huge"
  /\ up' = FALSE
  /\ pipe' = <<>>
  /\ UNCHANGED <<brainVars, pc, call, pollVars, countVars, answer, krewhubVars>>

AnswersAtOnce ==
  /\ pc = "other"
  /\ Answer("listed")
  /\ UNCHANGED <<countVars, krewhubVars>> /\ BridgeFrame

-----------------------------------------------------------------------------
(* delegate                                                                *)

\* The environment of a first turn has no KREWHUB_PARENT_TAPE_ID
\* (harness.py:117-121), that of a drive's turn the task.
Tape ==
  CASE call.names = "tape" -> "own"
    [] call.names # "tape" /\ kind = "first" -> "none"
    [] OTHER -> "task"

\* Mutant: the generated key is a fresh one for every call.
MutKeyPerCall == IF call.names = "key" THEN OwnKey ELSE <<Tape, call.what, call.id>>

\* The key the brain names, or that of _generate_idempotency_key.
Key == IF call.names = "key" THEN OwnKey ELSE <<Tape, call.what>>

WithKey == {i \in DOMAIN invocations : invocations[i].key = Key}

\* krewhub creates the invocation or finds the one that has the key.
Creates ==
  invocations' =
    IF WithKey = {}
      THEN Append(invocations, [question |-> call.what, tape |-> Tape,
                                named |-> call.names = "key", key |-> Key,
                                events |-> 0, done |-> FALSE])
      ELSE invocations

PostsInvocation ==
  /\ pc = "delegate"
  /\ Creates
  /\ watched' = IF WithKey = {} THEN Len(invocations) + 1
                ELSE CHOOSE i \in WithKey : TRUE
  /\ pc' = "deadline"
  /\ UNCHANGED <<pipe, call, after, expired, sawDone, answer, countVars, elicits,
                 born, unheard>>
  /\ BridgeFrame

\* Refused, or created with the answer lost.
PostFails ==
  /\ Faulty
  /\ pc = "delegate"
  /\ Creates \/ UNCHANGED invocations
  /\ Answer("error")
  /\ UNCHANGED <<countVars, elicits, born, unheard>> /\ BridgeFrame

\* Mutant: a poll window has no end.
MutChecksDeadline ==
  /\ pc = "deadline"
  /\ IF expired /\ ~nonblocking THEN Answer("timeout") ELSE GoesTo("poll")
  /\ UNCHANGED <<countVars, krewhubVars>> /\ BridgeFrame

ChecksDeadline ==
  /\ pc = "deadline"
  /\ IF expired
       THEN Answer(IF nonblocking THEN "pending" ELSE "timeout")
       ELSE GoesTo("poll")
  /\ UNCHANGED <<countVars, krewhubVars>> /\ BridgeFrame

Published == invocations[watched].events + IF invocations[watched].done THEN 1 ELSE 0

\* The done event, which comes last, is among those up to upto.
DoneIn(upto) == invocations[watched].done /\ upto = Published

\* Mutant: only the first event of a page is looked at.
MutFindsDone(upto) == DoneIn(upto) /\ upto = after + 1

FindsDone(upto) == DoneIn(upto)

\* A page: what is published after the cursor, or the first part of it.
Pages == IF after = Published THEN {after} ELSE (after + 1)..Published

PollsEvents ==
  /\ pc = "poll"
  /\ \E upto \in Pages :
       /\ sawDone' = (sawDone \/ DoneIn(upto))
       /\ IF FindsDone(upto)
            THEN /\ \E how \in {"result", "error"} :
                      (how = "error" => Faulty) /\ answer' = how
                 /\ pc' = "idle" /\ call' = NoCall
                 /\ watched' = 0 /\ after' = 0 /\ expired' = FALSE
            ELSE /\ pc' = "deadline" /\ after' = upto
                 /\ UNCHANGED <<call, answer, watched, expired>>
  /\ UNCHANGED <<pipe, countVars, krewhubVars>> /\ BridgeFrame

\* An error status, or krewhub holds the poll for longer than the client does.
PollFails ==
  /\ Faulty
  /\ pc = "poll"
  /\ Answer("error")
  /\ UNCHANGED <<countVars, krewhubVars>> /\ BridgeFrame

\* The deadline of the call, or the poll window, passes.
Expires ==
  /\ pc \in {"deadline", "poll"}
  /\ ~expired
  /\ expired' = TRUE
  /\ UNCHANGED <<brainVars, up, pipe, pc, call, watched, after, sawDone, countVars,
                 answer, krewhubVars>>

-----------------------------------------------------------------------------
(* spawn_subtask                                                           *)

\* Mutant: one more than the budget.
MutMaySpawn == spawned <= SpawnBudget

MaySpawn == spawned < SpawnBudget

\* The budget is spent, the title or the brief is missing, or krewhub refuses.
SpawnRefused ==
  /\ pc = "spawn"
  /\ Answer("refused")
  /\ UNCHANGED <<countVars, krewhubVars>> /\ BridgeFrame

SpawnPosted ==
  /\ pc = "spawn"
  /\ MaySpawn
  /\ born' = born + 1
  /\ spawned' = spawned + 1
  /\ Answer("created")
  /\ UNCHANGED <<escalated, invocations, elicits, unheard>> /\ BridgeFrame

\* The child is there, the answer is lost: an error, and nothing is counted.
SpawnUnheard ==
  /\ Faulty
  /\ pc = "spawn"
  /\ MaySpawn
  /\ born' = born + 1
  /\ unheard' = unheard + 1
  /\ Answer("error")
  /\ UNCHANGED <<countVars, invocations, elicits>> /\ BridgeFrame

-----------------------------------------------------------------------------
(* hitl.request_access                                                     *)

\* The budget is spent before anything is sent.
Escalates ==
  /\ pc = "access"
  /\ escalated < MaxGrants
  /\ escalated' = escalated + 1
  /\ GoesTo("emit")
  /\ UNCHANGED <<spawned, krewhubVars>> /\ BridgeFrame

BudgetExhausted ==
  /\ pc = "access"
  /\ escalated >= MaxGrants
  /\ Answer("denied")
  /\ UNCHANGED <<countVars, krewhubVars>> /\ BridgeFrame

EmitsElicit ==
  /\ pc = "emit"
  /\ elicits' = Append(elicits, "open")
  /\ GoesTo("resolve")
  /\ UNCHANGED <<countVars, invocations, born, unheard>> /\ BridgeFrame

\* Mutant: a failed emit gives the budget back.
MutEmitFailsRefunds ==
  /\ Faulty
  /\ pc = "emit"
  /\ elicits' = Append(elicits, "open") \/ UNCHANGED elicits
  /\ escalated' = escalated - 1
  /\ Answer("error")
  /\ UNCHANGED <<spawned, invocations, born, unheard>> /\ BridgeFrame

\* emit_elicit raises, whether the elicitation is out or not.
EmitFails ==
  /\ Faulty
  /\ pc = "emit"
  /\ elicits' = Append(elicits, "open") \/ UNCHANGED elicits
  /\ Answer("error")
  /\ UNCHANGED <<countVars, invocations, born, unheard>> /\ BridgeFrame

Resolves ==
  /\ pc = "resolve"
  /\ Last(elicits) # "open"
  /\ Answer(IF Last(elicits) = "accept" THEN "granted" ELSE "denied")
  /\ UNCHANGED <<countVars, krewhubVars>> /\ BridgeFrame

ResolveFails ==
  /\ Faulty
  /\ pc = "resolve"
  /\ Answer("error")
  /\ UNCHANGED <<countVars, krewhubVars>> /\ BridgeFrame

\* default_timeout_s are over.
WindowCloses ==
  /\ pc = "resolve"
  /\ Answer("unresolved")
  /\ UNCHANGED <<countVars, krewhubVars>> /\ BridgeFrame

-----------------------------------------------------------------------------
(* krewhub: the Hands work, the operator answers, also after the window.   *)

HubFrame == UNCHANGED <<brainVars, up, pipe, pc, call, pollVars, countVars, answer,
                        born, unheard>>

HandProgresses ==
  /\ \E i \in DOMAIN invocations :
       /\ ~invocations[i].done
       /\ \/ /\ invocations[i].events < MaxEvents
             /\ invocations' = [invocations EXCEPT ![i].events = @ + 1]
          \/ invocations' = [invocations EXCEPT ![i].done = TRUE]
  /\ UNCHANGED elicits /\ HubFrame

OperatorResolves ==
  /\ \E i \in DOMAIN elicits, action \in {"accept", "reject"} :
       /\ elicits[i] = "open"
       /\ elicits' = [elicits EXCEPT ![i] = action]
  /\ UNCHANGED invocations /\ HubFrame

-----------------------------------------------------------------------------
Delegates ==
  \/ PostsInvocation \/ PostFails \/ ChecksDeadline \/ PollsEvents \/ PollFails

Spawns == SpawnRefused \/ SpawnPosted \/ SpawnUnheard

RequestsAccess ==
  \/ Escalates \/ BudgetExhausted \/ EmitsElicit \/ EmitFails
  \/ Resolves \/ ResolveFails

Serves == ReadsLine \/ LineTooLong \/ AnswersAtOnce \/ Delegates \/ Spawns \/ RequestsAccess

Next ==
  \/ \E what \in Tools, names \in Names : BrainCalls(what, names)
  \/ TurnEnds
  \/ Serves \/ Expires \/ WindowCloses
  \/ HandProgresses \/ OperatorResolves

Spec == Init /\ [][Next]_vars

\* A ready coroutine runs, an HTTP call ends within its timeout, time passes.
\* Nothing obliges a Hand or the operator.
FairSpec == Spec /\ WF_vars(Serves) /\ WF_vars(Expires) /\ WF_vars(WindowCloses)

-----------------------------------------------------------------------------
(* Properties.                                                             *)

\* The types of the variables.
TypeOK ==
  /\ nonblocking \in BOOLEAN /\ up \in BOOLEAN
  /\ expired \in BOOLEAN /\ sawDone \in BOOLEAN
  /\ turn \in 1..MaxTurns
  /\ kind \in {"first", "drive"}
  /\ made \in 0..MaxCalls
  /\ pipe \in Seq(Calls)
  /\ pc \in {"idle", "delegate", "deadline", "poll", "spawn", "access", "emit",
            "resolve", "other"}
  /\ call \in Calls \cup {NoCall}
  /\ answer \in Answers
  /\ invocations \in Seq(Invocation)
  /\ watched \in 0..Len(invocations)
  /\ after \in Nat
  /\ elicits \in Seq({"open", "accept", "reject"})
  /\ spawned \in Nat /\ escalated \in Nat /\ born \in Nat /\ unheard \in Nat

(* Every child of a turn is counted against its budget, or its creation    *)
(* was answered with an error: the cap is exceeded by no more than the     *)
(* answers that were lost (bridge.py:540-587).                             *)
SpawnsAccounted == born = spawned + unheard /\ spawned <= SpawnBudget

(* An operator is asked for access at most MaxGrants times for each turn   *)
(* a task has had, even if elicitations go out whose answer is lost: the   *)
(* budget is spent before the call (hitl_tool.py:47-66).                   *)
EscalationsBounded == Len(elicits) <= MaxGrants * turn

(* The same question is put to a Hand from the same tape once, however     *)
(* often the brain asks it, in however many bridges, and whichever answer  *)
(* was lost on the way, unless the brain names a key of its own            *)
(* (bridge.py:322-333, 354-358, 396-399).  A drive's turns ask from        *)
(* another tape than the first turns.                                      *)
AskedOnce ==
  \A i, j \in DOMAIN invocations :
    /\ invocations[i].question = invocations[j].question
    /\ invocations[i].tape = invocations[j].tape
    /\ ~invocations[i].named /\ ~invocations[j].named
    => i = j

(* A delegate call is never left pending or timed out after its answer was *)
(* on a page the bridge has read (bridge.py:447-493).                      *)
NoAnswerOverlooked ==
  sawDone => pc \notin {"deadline", "poll"} /\ answer \notin {"pending", "timeout"}

Unanswered(i) == call.id = i \/ \E n \in DOMAIN pipe : pipe[n].id = i

(* Every call is answered, although the bridge handles one at a time and   *)
(* Hands and operators may stay silent, unless its process is gone         *)
(* (bridge.py:754-770).                                                    *)
EveryCallAnswered == \A i \in 1..MaxCalls : Unanswered(i) ~> ~Unanswered(i)

(* What the repository says and the code does not do.                      *)

(* _delegate.py:213-215 tells the brain not to call "hitl.request_access   *)
(* more than 3 times per task per provider - the bridge enforces a hard    *)
(* cap", and hitl_tool.py:45 speaks of a "Per-task per-provider budget";   *)
(* the budget is the process', and every turn has a new process.           *)
EscalationsWithinTask == Len(elicits) <= MaxGrants
=============================================================================
