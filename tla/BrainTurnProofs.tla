--------------------------- MODULE BrainTurnProofs ---------------------------
(* Theorems about BrainTurn and their proofs.                              *)
EXTENDS BrainTurn, SequenceTheorems, TLAPS

-----------------------------------------------------------------------------
(* Types.                                                                  *)

Messages == Kinds \cup {"end"}

\* A put that finds room keeps the queue within its capacity.
LEMMA PutFits ==
  ASSUME NEW q \in Seq(Messages), NEW e \in Messages, Len(q) < QueueCap
  PROVE  Append(q, e) \in Seq(Messages) /\ Len(Append(q, e)) <= QueueCap
<1>1. Append(q, e) \in Seq(Messages) /\ Len(Append(q, e)) = Len(q) + 1
  BY AppendProperties
<1>2. Len(q) \in Nat /\ QueueCap \in Nat
  BY TurnAssumption, LenProperties DEF TurnAssumption
<1> QED BY <1>1, <1>2

\* A get takes a message off a queue that is within its capacity.
LEMMA GetFits ==
  ASSUME NEW q \in Seq(Messages), q # <<>>, Len(q) <= QueueCap
  PROVE  /\ Head(q) \in Messages
         /\ Tail(q) \in Seq(Messages)
         /\ Len(Tail(q)) = Len(q) - 1
         /\ Len(Tail(q)) <= QueueCap
<1>1. Head(q) \in Messages /\ Tail(q) \in Seq(Messages) /\ Len(Tail(q)) = Len(q) - 1
  BY HeadTailProperties
<1>2. Len(q) \in Nat /\ QueueCap \in Nat
  BY TurnAssumption, LenProperties DEF TurnAssumption
<1> QED BY <1>1, <1>2

\* TypeOK is not inductive: what is about to be put must be a message.
PutsMessages == runner = "putting" => out \in Kinds

LEMMA StepPuts ==
  ASSUME TypeOK, PutsMessages, [Next]_vars
  PROVE  PutsMessages'
<1> USE DEF PutsMessages, RunnerFrame, UserFrame, fixedVars, runnerVars
<1>1. ASSUME NEW kind \in Kinds, ReadsLine(kind) PROVE PutsMessages'
  BY <1>1 DEF ReadsLine
<1>2. CASE Spawns \/ SpawnsNothing \/ Puts \/ ReadsEof \/ WaitEnds \/ Resolves \/ PutsSentinel
           \/ LineTimesOut \/ ReportsTimeout \/ RunnerDies
  <2>1. runner' # "putting"
    BY <1>2 DEF Spawns, SpawnsNothing, Puts, ReadsEof, WaitEnds, Resolves, PutsSentinel,
                LineTimesOut, ReportsTimeout, RunnerDies, Settle
  <2> QED BY <2>1
<1>3. CASE User \/ TimesOut \/ Stopping
  <2>1. out' = out /\ runner' \in {runner, "spawning", "cancelled"}
    BY <1>3 DEF User, Stopping, SetsUp, Starts, TakesMessage, LooksAtMessage,
       ChecksCancelled, StreamEnds, GetsResult, TimesOut, Settles, Closes,
       CancelRunner, Flushes, Reports, TearsDown, Interrupted, Abandons, LoopCloses
  <2> QED BY <2>1
<1>4. CASE BrainExits \/ PersonCancels \/ LogMoves \/ UNCHANGED vars
  BY <1>4 DEF BrainExits, PersonCancels, LogMoves, vars
<1> QED BY <1>1, <1>2, <1>3, <1>4 DEF Next, Runner

LEMMA StepTypes ==
  ASSUME TypeOK, PutsMessages, [Next]_vars
  PROVE  TypeOK'
<1> USE DEF TypeOK, Kinds, Active, Ended, RunnerFrame, UserFrame, fixedVars,
            runnerVars, hubVars, logVars, foundVars
<1>1. CASE Spawns \/ ReadsEof \/ WaitEnds \/ LineTimesOut \/ RunnerDies
  <2>1. /\ runner' \in {"reading", "waiting", "resolving", "expired", "died"}
        /\ proc' \in {"running", "mute", "exited", proc}
    BY <1>1 DEF Spawns, ReadsEof, WaitEnds, LineTimesOut, RunnerDies
  <2>2. UNCHANGED <<fixedVars, out, said, emitted, mq, future, pc, foundVars, hubVars, logVars>>
    BY <1>1 DEF Spawns, ReadsEof, WaitEnds, LineTimesOut, RunnerDies
  <2> QED BY <2>1, <2>2
<1>2. ASSUME NEW kind \in Kinds, ReadsLine(kind) PROVE TypeOK'
  BY <1>2 DEF ReadsLine
<1>3. CASE Puts
  <2>1. out \in Kinds
    BY <1>3 DEF Puts, PutsMessages
  <2>2. mq' \in Seq(Messages) /\ Len(mq') <= QueueCap
    BY <1>3, <2>1, PutFits DEF Puts, HasRoom, Messages
  <2>3. /\ runner' = "reading" /\ out' = "none"
        /\ UNCHANGED <<fixedVars, proc, said, emitted, future, pc, foundVars, hubVars, logVars>>
    BY <1>3 DEF Puts
  <2> QED BY <2>2, <2>3 DEF Messages
<1>4. CASE PutsSentinel
  <2>1. mq' \in Seq(Messages) /\ Len(mq') <= QueueCap
    BY <1>4, PutFits DEF PutsSentinel, HasRoom, Messages
  <2>2. /\ runner' = "done"
        /\ UNCHANGED <<fixedVars, proc, out, said, emitted, future, pc, foundVars, hubVars, logVars>>
    BY <1>4 DEF PutsSentinel
  <2> QED BY <2>1, <2>2 DEF Messages
<1>5. CASE SpawnsNothing \/ Resolves
  <2>1. /\ runner' \in {"died", "ending"}
        /\ future' \in {"ok", "fail", "cancelled"}
    BY <1>5 DEF SpawnsNothing, Resolves, Settle
  <2>2. UNCHANGED <<fixedVars, proc, out, said, emitted, mq, pc, foundVars, hubVars, logVars>>
    BY <1>5 DEF SpawnsNothing, Resolves
  <2> QED BY <2>1, <2>2
<1>6. CASE ReportsTimeout
  <2>1. runner' \in {"died", "ending"} /\ future' \in {"fail", "cancelled"}
    BY <1>6 DEF ReportsTimeout, Settle
  <2>2. mq' \in Seq(Kinds \cup {"end"}) /\ Len(mq') <= QueueCap /\ emitted' \in Nat
    BY <1>6, TurnAssumption DEF ReportsTimeout, HasRoom, TurnAssumption
  <2>3. UNCHANGED <<fixedVars, proc, out, said, pc, foundVars, hubVars, logVars>>
    BY <1>6 DEF ReportsTimeout
  <2> QED BY <2>1, <2>2, <2>3
<1>7. CASE SetsUp \/ Settles
  <2>1. onTheWay' \in Nat /\ UNCHANGED logOpen
    BY <1>7 DEF SetsUp, Settles, Appends
  <2>2. result' \in {"none", "ok", "fail"} /\ pc' \in {"pin", "teardown", "flush"}
    BY <1>7 DEF SetsUp, Settles
  <2>3. UNCHANGED <<fixedVars, runnerVars, mq, future, msg, heard, noted, cancelled, hubVars>>
    BY <1>7 DEF SetsUp, Settles
  <2> QED BY <2>1, <2>2, <2>3
<1>8. CASE Starts
  <2>1. hub' \in {"working", hub} /\ sent' = "working"
    BY <1>8 DEF Starts, HubWrites
  <2>2. /\ runner' = "spawning" /\ pc' = "stream"
        /\ UNCHANGED <<fixedVars, proc, out, said, emitted, mq, future, foundVars, logVars>>
    BY <1>8 DEF Starts
  <2> QED BY <2>1, <2>2
<1>9. CASE TakesMessage
  <2>1. Head(mq) \in Kinds /\ Tail(mq) \in Seq(Kinds \cup {"end"})
        /\ Len(Tail(mq)) <= QueueCap
    BY <1>9, GetFits DEF TakesMessage, Messages
  <2>2. onTheWay' \in Nat /\ UNCHANGED logOpen
    BY <1>9 DEF TakesMessage, Appends
  <2>3. /\ msg' = Head(mq) /\ mq' = Tail(mq) /\ pc' = "append"
        /\ UNCHANGED <<fixedVars, runnerVars, future, heard, noted, cancelled, result, hubVars>>
    BY <1>9 DEF TakesMessage
  <2> QED BY <2>1, <2>2, <2>3
<1>10. CASE LooksAtMessage
  BY <1>10 DEF LooksAtMessage, Finds
<1>11. CASE ChecksCancelled
  <2>1. cancelled' \in BOOLEAN /\ pc' \in {"result", "stream"}
    BY <1>11 DEF ChecksCancelled
  <2>2. UNCHANGED <<fixedVars, runnerVars, mq, future, msg, heard, noted, result, hubVars, logVars>>
    BY <1>11 DEF ChecksCancelled
  <2> QED BY <2>1, <2>2
<1>12. CASE StreamEnds
  <2>1. Tail(mq) \in Seq(Kinds \cup {"end"}) /\ Len(Tail(mq)) <= QueueCap
    BY <1>12, GetFits DEF StreamEnds, Messages
  <2> QED BY <1>12, <2>1 DEF StreamEnds
<1>13. CASE GetsResult \/ TimesOut
  <2>1. result' \in {"ok", "fail"} /\ pc' \in {"settle", "closing"}
        /\ future' \in {future, "cancelled"}
    BY <1>13 DEF GetsResult, TimesOut, FutureAfterCancel
  <2>2. UNCHANGED <<fixedVars, runnerVars, mq, msg, heard, noted, cancelled, hubVars, logVars>>
    BY <1>13 DEF GetsResult, TimesOut
  <2> QED BY <2>1, <2>2
<1>14. CASE Closes \/ LoopCloses
  <2>1. /\ runner' \in {runner, "cancelled"} /\ proc' \in {proc, "told"}
        /\ pc' \in {"flush", "returned", "gone"}
    BY <1>14 DEF Closes, CancelRunner, ProcAfterCancel, LoopCloses
  <2>2. UNCHANGED <<fixedVars, out, said, emitted, mq, future, foundVars, hubVars, logVars>>
    BY <1>14 DEF Closes, LoopCloses
  <2> QED BY <2>1, <2>2
<1>15. CASE Flushes \/ TearsDown
  <2>1. pc' \in {"report", "returned"} /\ logOpen' \in BOOLEAN
    BY <1>15 DEF Flushes, AfterFlush, TearsDown
  <2>2. UNCHANGED <<fixedVars, runnerVars, mq, future, foundVars, hubVars, onTheWay>>
    BY <1>15 DEF Flushes, TearsDown
  <2> QED BY <2>1, <2>2
<1>16. CASE Reports
  <2>1. hub' \in {hub, "blocked", "done"} /\ sent' \in {sent, "blocked", "done"}
    BY <1>16 DEF Reports, Verdict, HubWrites
  <2>2. /\ pc' = "teardown"
        /\ UNCHANGED <<fixedVars, runnerVars, mq, future, foundVars, logVars>>
    BY <1>16 DEF Reports
  <2> QED BY <2>1, <2>2
<1>17. CASE Interrupted \/ Abandons
  <2>1. future' \in {future, "cancelled"} /\ pc' \in {"closing", "gone"}
    BY <1>17 DEF Interrupted, Abandons, FutureAfterCancel
  <2>2. onTheWay' \in {onTheWay, 0}
    BY <1>17 DEF Interrupted, Abandons
  <2>3. logOpen' \in BOOLEAN
    BY <1>17 DEF Interrupted, Abandons
  <2>4. UNCHANGED <<fixedVars, runnerVars, mq, foundVars, hubVars>>
    BY <1>17 DEF Interrupted, Abandons
  <2> QED BY <2>1, <2>2, <2>3, <2>4
<1>18. CASE PersonCancels
  BY <1>18 DEF PersonCancels
<1>19. CASE LogMoves
  BY <1>19 DEF LogMoves
<1>20. CASE UNCHANGED vars
  BY <1>20 DEF vars
<1>21. CASE BrainExits
  BY <1>21 DEF BrainExits
<1> QED
  BY <1>1, <1>2, <1>3, <1>4, <1>5, <1>6, <1>7, <1>8, <1>9, <1>10, <1>11, <1>12,
     <1>13, <1>14, <1>15, <1>16, <1>17, <1>18, <1>19, <1>20, <1>21
  DEF Next, Runner, User, Stopping

\* Where a turn begins.
LEMMA InitPlace == Init => pc \in {"setup", "stream", "result"}
<1> SUFFICES ASSUME Init PROVE pc \in {"setup", "stream", "result"}
  OBVIOUS
<1>1. mode \in {"harness", "orch", "oneshot"}
  BY TurnAssumption DEF TurnAssumption, Init
<1> QED BY <1>1 DEF Init, StartsAt

\* A turn begins well typed.
LEMMA InitTypes == Init => TypeOK
<1> SUFFICES ASSUME Init PROVE TypeOK
  OBVIOUS
<1>1. mode \in Modes /\ mode \in {"harness", "orch", "oneshot"}
  BY TurnAssumption DEF TurnAssumption, Init
<1>2. pc \in {"setup", "stream", "result"}
  BY InitPlace
<1>3. runner \in {"none", "spawning"} /\ hub \in {"claimed", "working"}
  BY DEF Init
<1>4. handle \in BOOLEAN /\ finalize \in BOOLEAN
  BY DEF Init
<1>5. mq \in Seq(Kinds \cup {"end"}) /\ Len(mq) <= QueueCap
  BY TurnAssumption DEF Init, TurnAssumption
<1> QED BY <1>1, <1>2, <1>3, <1>4, <1>5 DEF Init, TypeOK, Kinds, Active, Ended

(* Every variable keeps to its type: in particular neither the messages    *)
(* nor the sentinel ever overfill the queue between runner and user        *)
(* (claude.py:103), for any capacity.                                      *)
THEOREM TypesHold == Spec => []TypeOK
<1>1. Init => PutsMessages
  BY DEF Init, PutsMessages
<1>2. TypeOK /\ PutsMessages /\ [Next]_vars => TypeOK' /\ PutsMessages'
  BY StepTypes, StepPuts
<1> QED BY InitTypes, <1>1, <1>2, PTL DEF Spec

-----------------------------------------------------------------------------
(* The tape and the status.                                                *)

\* TapeBeforeStatus is not inductive: when the status is about to be sent, the
\* log has been closed already.
TapeClosed ==
  /\ TapeBeforeStatus
  /\ pc = "report" => ~logOpen /\ onTheWay = 0

LEMMA StepTape ==
  ASSUME TypeOK, TapeClosed, [Next]_vars
  PROVE  TapeClosed'
<1> USE DEF TapeClosed, TapeBeforeStatus, TypeOK, RunnerFrame, UserFrame, fixedVars,
            runnerVars, hubVars, logVars, foundVars
<1>1. CASE Runner \/ RunnerDies
  <2>1. UNCHANGED <<pc, sent, logOpen, onTheWay>>
    BY <1>1 DEF Runner, RunnerDies, Spawns, SpawnsNothing, ReadsLine, Puts, ReadsEof,
                WaitEnds, Resolves, PutsSentinel, LineTimesOut, ReportsTimeout
  <2> QED BY <2>1
<1>2. CASE SetsUp \/ TakesMessage \/ Settles
  BY <1>2 DEF SetsUp, TakesMessage, Settles, Appends
<1>3. CASE Starts
  BY <1>3 DEF Starts, HubWrites
<1>4. CASE LooksAtMessage \/ ChecksCancelled \/ StreamEnds \/ GetsResult \/ TimesOut
  BY <1>4 DEF LooksAtMessage, ChecksCancelled, StreamEnds, GetsResult, TimesOut
<1>5. CASE \/ Closes \/ TearsDown \/ Interrupted \/ LoopCloses \/ PersonCancels
           \/ BrainExits
  BY <1>5 DEF Closes, TearsDown, Interrupted, LoopCloses, PersonCancels, BrainExits
<1>6. CASE Flushes \/ Abandons \/ LogMoves
  BY <1>6 DEF Flushes, Abandons, LogMoves
<1>7. CASE Reports
  BY <1>7 DEF Reports
<1>8. CASE UNCHANGED vars
  BY <1>8 DEF vars
<1> QED
  BY <1>1, <1>2, <1>3, <1>4, <1>5, <1>6, <1>7, <1>8 DEF Next, User, Stopping

(* Whoever reads the final status finds the tape complete, however the     *)
(* session's flusher, the runner and the person who cancels interleave     *)
(* (harness.py:250-253).                                                   *)
THEOREM TapeIsFirst == Spec => []TapeBeforeStatus
<1>1. Init => TapeClosed
  BY InitPlace DEF Init, TapeClosed, TapeBeforeStatus
<1>2. TypeOK /\ TapeClosed /\ [Next]_vars => TapeClosed'
  BY StepTape
<1>3. TapeClosed => TapeBeforeStatus
  BY DEF TapeClosed
<1> QED BY TypesHold, <1>1, <1>2, <1>3, PTL DEF Spec

-----------------------------------------------------------------------------
(* Cancellations.                                                          *)

\* What a cancellation was seen in has begun its work.
SeenAtWork == cancelled => pc \notin {"setup", "pin"}

LEMMA StepSeen ==
  ASSUME TypeOK, SeenAtWork, [Next]_vars
  PROVE  SeenAtWork'
<1> USE DEF SeenAtWork, TypeOK, RunnerFrame, UserFrame, fixedVars, runnerVars,
            hubVars, logVars, foundVars
<1>1. CASE \/ Runner \/ RunnerDies \/ BrainExits \/ LoopCloses \/ PersonCancels
           \/ LogMoves
  <2>1. UNCHANGED <<pc, cancelled>>
    BY <1>1 DEF Runner, RunnerDies, Spawns, SpawnsNothing, ReadsLine, Puts, ReadsEof,
       WaitEnds, Resolves, PutsSentinel, LineTimesOut, ReportsTimeout, BrainExits,
          LoopCloses,
       PersonCancels, LogMoves
  <2> QED BY <2>1
<1>2. CASE SetsUp
  BY <1>2 DEF SetsUp
<1>3. CASE Starts \/ TakesMessage \/ LooksAtMessage \/ StreamEnds \/ GetsResult \/ TimesOut
  <2>1. cancelled' = cancelled /\ pc' \notin {"setup", "pin"}
    BY <1>3 DEF Starts, TakesMessage, LooksAtMessage, StreamEnds, GetsResult, TimesOut
  <2> QED BY <2>1
<1>4. CASE ChecksCancelled
  <2>1. pc' \notin {"setup", "pin"}
    BY <1>4 DEF ChecksCancelled
  <2> QED BY <2>1
<1>5. CASE Settles \/ Closes \/ Flushes \/ Reports \/ TearsDown \/ Interrupted \/ Abandons
  <2>1. cancelled' = cancelled /\ pc' \notin {"setup", "pin"}
    BY <1>5 DEF Settles, Closes, Flushes, AfterFlush, Reports, TearsDown, Interrupted,
                Abandons
  <2> QED BY <2>1
<1>6. CASE UNCHANGED vars
  BY <1>6 DEF vars
<1> QED
  BY <1>1, <1>2, <1>3, <1>4, <1>5, <1>6 DEF Next, User, Stopping

LEMMA StepLeavesHub ==
  ASSUME SeenAtWork, [Next]_vars
  PROVE  cancelled => hub' \in {hub, "cancelled"}
<1> SUFFICES ASSUME cancelled PROVE hub' \in {hub, "cancelled"}
  OBVIOUS
<1>1. CASE Runner \/ RunnerDies \/ BrainExits
  BY <1>1 DEF Runner, RunnerDies, BrainExits, RunnerFrame, hubVars, Spawns,
     SpawnsNothing, ReadsLine,
     Puts, ReadsEof, WaitEnds, Resolves, PutsSentinel, LineTimesOut, ReportsTimeout
<1>2. CASE Starts
  BY <1>2 DEF SeenAtWork, Starts
<1>3. CASE Reports
  <2>1. Verdict = "none"
    BY DEF Verdict
  <2> QED BY <1>3, <2>1 DEF Reports, hubVars
<1>4. CASE PersonCancels
  BY <1>4 DEF PersonCancels
<1>5. CASE \/ SetsUp \/ TakesMessage \/ LooksAtMessage \/ ChecksCancelled \/ StreamEnds
           \/ GetsResult \/ TimesOut \/ Settles \/ Closes \/ Flushes \/ TearsDown
           \/ Stopping \/ LogMoves \/ UNCHANGED vars
  <2>1. hub' = hub
    BY <1>5 DEF SetsUp, TakesMessage, LooksAtMessage, ChecksCancelled, StreamEnds,
       GetsResult, TimesOut, Settles, Closes, Flushes, TearsDown, Stopping, Interrupted,
       Abandons, LoopCloses, LogMoves, vars, hubVars
  <2> QED BY <2>1
<1> QED
  BY <1>1, <1>2, <1>3, <1>4, <1>5 DEF Next, User

(* Once the harness has seen that a person cancelled the task, no step of  *)
(* its turn, nor of anybody, sets another status (harness.py:254-256):     *)
(* the cancellation is only looked for while the brain works, after the    *)
(* status working was sent.                                                *)
THEOREM CancellationStays == Spec => CancelStays
<1>1. Init => SeenAtWork
  BY DEF Init, SeenAtWork
<1>2. TypeOK /\ SeenAtWork /\ [Next]_vars => SeenAtWork'
  BY StepSeen
<1>3. SeenAtWork /\ [Next]_vars => [cancelled => hub' \in {hub, "cancelled"}]_vars
  BY StepLeavesHub
<1> QED BY TypesHold, <1>1, <1>2, <1>3, PTL DEF Spec, CancelStays

-----------------------------------------------------------------------------
(* The runner, its process and the future.                                 *)

\* Where the process and the future are follows from where the runner is.
ProcFollows ==
  /\ pc \in {"setup", "pin"} => runner = "none"
  /\ runner = "none" => said = {} /\ emitted = 0
  /\ runner \in {"none", "spawning"} => proc = "none"
  /\ runner \in {"reading", "putting"} => proc \in {"running", "exited"}
  /\ runner = "waiting" => proc \in {"mute", "exited"}
  /\ runner = "resolving" => proc = "exited"
  /\ runner \in {"expired", "ending", "done"} => proc \in {"none", "exited"}
  /\ runner = "cancelled" /\ handle => proc # "running"
  /\ future = "ok" => proc = "exited" /\ runner \in {"ending", "done", "cancelled"}

LEMMA StepProc ==
  ASSUME TypeOK, ProcFollows, [Next]_vars
  PROVE  ProcFollows'
<1> USE DEF ProcFollows, RunnerFrame, UserFrame, fixedVars, runnerVars, foundVars,
            hubVars, logVars
<1>1. CASE Spawns \/ ReadsEof \/ WaitEnds \/ LineTimesOut \/ RunnerDies
  BY <1>1 DEF Spawns, ReadsEof, WaitEnds, LineTimesOut, RunnerDies
<1>2. ASSUME NEW kind \in Kinds, ReadsLine(kind) PROVE ProcFollows'
  BY <1>2 DEF ReadsLine
<1>3. CASE Puts \/ PutsSentinel
  BY <1>3 DEF Puts, PutsSentinel
<1>4. CASE SpawnsNothing
  BY <1>4 DEF SpawnsNothing, Settle
<1>5. CASE Resolves
  BY <1>5 DEF Resolves, Settle
<1>6. CASE ReportsTimeout
  BY <1>6 DEF ReportsTimeout, Settle
<1>7. CASE Closes \/ LoopCloses
  BY <1>7 DEF Closes, LoopCloses, CancelRunner, ProcAfterCancel, Active
<1>8. CASE SetsUp \/ Starts
  BY <1>8 DEF SetsUp, Starts
<1>9. CASE User \/ TimesOut \/ Stopping \/ PersonCancels \/ LogMoves \/ UNCHANGED vars
  <2>1. CASE Closes \/ LoopCloses \/ SetsUp \/ Starts
    BY <1>7, <1>8, <2>1
  <2>2. CASE ~(Closes \/ LoopCloses \/ SetsUp \/ Starts)
    <3>1. /\ UNCHANGED <<handle, runner, proc, said, emitted>>
          /\ future' \in {future, "cancelled"}
          /\ pc' \in {"setup", "pin"} => pc' = pc
      BY <1>9, <2>2 DEF User, TakesMessage, LooksAtMessage, ChecksCancelled, StreamEnds,
         GetsResult, TimesOut, Settles, Flushes, AfterFlush, Reports, TearsDown, Stopping,
         Interrupted, Abandons, PersonCancels, LogMoves, FutureAfterCancel, vars
    <3> QED BY <3>1
  <2> QED BY <2>1, <2>2
<1>10. CASE BrainExits
  BY <1>10 DEF BrainExits
<1> QED BY <1>1, <1>2, <1>3, <1>4, <1>5, <1>6, <1>9, <1>10 DEF Next, Runner

LEMMA ProcAlwaysFollows == Spec => []ProcFollows
<1>1. Init => ProcFollows
  <2> SUFFICES ASSUME Init PROVE ProcFollows
    OBVIOUS
  <2>1. mode \in {"harness", "orch", "oneshot"}
    BY TurnAssumption DEF TurnAssumption, Init
  <2> QED BY <2>1 DEF Init, ProcFollows, StartsAt
<1>2. TypeOK /\ ProcFollows /\ [Next]_vars => ProcFollows'
  BY StepProc
<1> QED BY TypesHold, <1>1, <1>2, PTL DEF Spec

-----------------------------------------------------------------------------
(* A drive's turn leaves no runner and no process behind.                  *)

\* NoChildLeft is not inductive: a drive's turn is in few places only, and once
\* it has closed the backend the runner is no longer active.
ChildClosed ==
  mode = "orch" =>
    /\ pc \in {"stream", "append", "result", "closing", "flush", "returned"}
    /\ handle /\ pc \in {"flush", "returned"} => runner \notin Active

LEMMA StepChild ==
  ASSUME TypeOK, ChildClosed, [Next]_vars
  PROVE  ChildClosed'
<1> SUFFICES ASSUME mode' = "orch" PROVE ChildClosed'
  BY DEF ChildClosed
<1> USE DEF ChildClosed, RunnerFrame, UserFrame, fixedVars, runnerVars, foundVars,
            hubVars, logVars
<1>1. CASE Runner \/ RunnerDies
  <2>1. UNCHANGED <<mode, handle, pc>> /\ runner \in Active
    BY <1>1 DEF Runner, RunnerDies, Spawns, SpawnsNothing, ReadsLine, Puts, ReadsEof,
                WaitEnds, Resolves, PutsSentinel, LineTimesOut, ReportsTimeout, Active
  <2> QED BY <2>1
<1>2. CASE Closes
  <2>1. UNCHANGED <<mode, handle>>
    BY <1>2 DEF Closes
  <2>2. pc' \in {"flush", "returned"}
    BY <1>2 DEF Closes
  <2>3. handle => runner' \notin Active
    BY <1>2 DEF Closes, CancelRunner, Active
  <2> QED BY <2>1, <2>2, <2>3
<1>3. CASE /\ \/ User \/ TimesOut \/ Stopping \/ PersonCancels \/ LogMoves \/ BrainExits
              \/ UNCHANGED vars
           /\ ~Closes
  <2>1. mode' = mode /\ handle' = handle
    BY <1>3 DEF User, SetsUp, Starts, TakesMessage, LooksAtMessage, ChecksCancelled,
       StreamEnds, GetsResult, TimesOut, Settles, Flushes, Reports, TearsDown, Stopping,
       Interrupted, Abandons, LoopCloses, PersonCancels, LogMoves, BrainExits,
       vars
  <2>2. runner' = runner
    BY <1>3, <2>1 DEF User, SetsUp, Starts, TakesMessage, LooksAtMessage, ChecksCancelled,
       StreamEnds, GetsResult, TimesOut, Settles, Flushes, Reports, TearsDown, Stopping,
       Interrupted, Abandons, LoopCloses, PersonCancels, LogMoves, BrainExits,
       vars
  <2>3. \/ pc' = pc
        \/ pc' \in {"stream", "append", "result", "closing"}
        \/ pc = "flush" /\ pc' = "returned"
    BY <1>3, <2>1 DEF User, SetsUp, Starts, TakesMessage, LooksAtMessage, ChecksCancelled,
       StreamEnds, GetsResult, TimesOut, Settles, Flushes, AfterFlush, Reports, TearsDown,
       Stopping, Interrupted, Abandons, LoopCloses, PersonCancels, LogMoves, BrainExits,
       vars
  <2> QED BY <2>1, <2>2, <2>3
<1> QED BY <1>1, <1>2, <1>3 DEF Next

(* A drive's turn, interrupted or not, wherever the runner is at that      *)
(* moment, leaves no runner behind, and of the processes only one that had *)
(* closed its output when the turn was interrupted (claude.py:223), if the *)
(* backend has handed over its runner (orch_drive.py:54-58,                *)
(* protocol.py:80-93).                                                     *)
THEOREM TurnLeavesNoChild == Spec => []NoChildLeft
<1>1. Init => ChildClosed
  <2> SUFFICES ASSUME Init, mode = "orch" PROVE ChildClosed
    BY DEF ChildClosed
  <2> QED BY DEF Init, ChildClosed, StartsAt
<1>2. TypeOK /\ ChildClosed /\ [Next]_vars => ChildClosed'
  BY StepChild
<1>3. TypeOK /\ ProcFollows /\ ChildClosed => NoChildLeft
  BY DEF TypeOK, ProcFollows, ChildClosed, NoChildLeft, Active
<1> QED BY TypesHold, ProcAlwaysFollows, <1>1, <1>2, <1>3, PTL DEF Spec

-----------------------------------------------------------------------------
(* What the harness heard.                                                 *)

One(b) == IF b THEN 1 ELSE 0

Holds(q, e) == \E i \in 1..Len(q) : q[i] = e

\* The sentinel is in the queue when the runner is done, at its end; else not.
EndIsLast(q) == \A i \in 1..Len(q) : q[i] = "end" <=> runner = "done" /\ i = Len(q)

LEMMA AppendHolds ==
  ASSUME NEW q \in Seq(Messages), NEW e \in Messages
  PROVE  /\ Append(q, e) \in Seq(Messages)
         /\ Len(Append(q, e)) = Len(q) + 1
         /\ Len(q) \in Nat
         /\ \A i \in 1..Len(q) : Append(q, e)[i] = q[i]
         /\ Append(q, e)[Len(q) + 1] = e
         /\ Holds(Append(q, e), e)
         /\ \A x : Holds(q, x) => Holds(Append(q, e), x)
<1>1. /\ Append(q, e) \in Seq(Messages) /\ Len(Append(q, e)) = Len(q) + 1 /\ Len(q) \in Nat
      /\ \A i \in 1..Len(q) : Append(q, e)[i] = q[i]
      /\ Append(q, e)[Len(q) + 1] = e
  BY AppendProperties, LenProperties
<1>2. 1..Len(q) \subseteq 1..Len(Append(q, e)) /\ Len(q) + 1 \in 1..Len(Append(q, e))
  BY <1>1
<1> QED BY <1>1, <1>2 DEF Holds

LEMMA TailHolds ==
  ASSUME NEW q \in Seq(Messages), q # <<>>
  PROVE  /\ Head(q) = q[1] /\ Len(q) \in Nat \ {0}
         /\ Tail(q) \in Seq(Messages)
         /\ Len(Tail(q)) = Len(q) - 1
         /\ \A i \in 1..Len(Tail(q)) : Tail(q)[i] = q[i + 1]
         /\ \A x : Holds(q, x) => x = Head(q) \/ Holds(Tail(q), x)
<1>1. /\ Head(q) = q[1] /\ Len(q) \in Nat \ {0} /\ Tail(q) \in Seq(Messages)
      /\ Len(Tail(q)) = Len(q) - 1
      /\ \A i \in 1..Len(Tail(q)) : Tail(q)[i] = q[i + 1]
  <2>1. Len(q) \in Nat /\ Len(q) # 0
    BY LenProperties, EmptySeq
  <2>2. \A i \in 1..Len(Tail(q)) : Tail(q)[i] = q[i + 1]
    BY HeadTailProperties
  <2> QED BY <2>1, <2>2, HeadTailProperties
<1>2. ASSUME NEW x, Holds(q, x) PROVE x = Head(q) \/ Holds(Tail(q), x)
  <2>1. PICK i \in 1..Len(q) : q[i] = x
    BY <1>2 DEF Holds
  <2>2. CASE i = 1
    BY <1>1, <2>1, <2>2
  <2>3. CASE i # 1
    <3>1. i - 1 \in 1..Len(Tail(q)) /\ (i - 1) + 1 = i
      BY <1>1, <2>3
    <3> QED BY <1>1, <2>1, <3>1 DEF Holds
  <2> QED BY <2>2, <2>3
<1> QED BY <1>1, <1>2

Listening == {"setup", "pin", "stream", "append", "check"}

\* What the harness looks for.
Wanted == {"pending", "secret"}

\* While the harness listens, every message is with the runner, in the queue, in
\* its hands, or behind it; and so is every kind it looks for.
Account ==
  /\ emitted + One(runner = "done")
       = heard + Len(mq) + One(pc = "append") + One(runner = "putting")
  /\ EndIsLast(mq)
  /\ runner = "done" => mq # <<>>
  /\ \A kind \in said \cap Wanted :
       \/ kind \in noted \/ Holds(mq, kind)
       \/ runner = "putting" /\ out = kind
       \/ pc = "append" /\ msg = kind

\* The stream was heard to its end.
Whole ==
  /\ runner = "done"
  /\ heard = emitted
  /\ said \cap Wanted \subseteq noted

LEMMA RunnerKeepsAccount ==
  ASSUME TypeOK, PutsMessages, Account, Runner
  PROVE  Account'
<1> USE DEF RunnerFrame, fixedVars, foundVars
<1>0. mq \in Seq(Messages) /\ Len(mq) \in Nat
  BY LenProperties DEF TypeOK, Messages
<1>1. CASE Spawns \/ ReadsEof \/ WaitEnds \/ LineTimesOut \/ SpawnsNothing \/ Resolves
  <2>1. UNCHANGED <<emitted, heard, mq, pc, said, noted, out, msg>>
    BY <1>1 DEF Spawns, ReadsEof, WaitEnds, LineTimesOut, SpawnsNothing, Resolves
  <2>2. runner \notin {"done", "putting"} /\ runner' \notin {"done", "putting"}
    BY <1>1 DEF Spawns, ReadsEof, WaitEnds, LineTimesOut, SpawnsNothing, Resolves, Settle
  <2> QED BY <2>1, <2>2 DEF Account, EndIsLast
<1>2. ASSUME NEW kind \in Kinds, ReadsLine(kind) PROVE Account'
  <2>1. /\ UNCHANGED <<heard, mq, pc, noted, msg>>
        /\ runner = "reading" /\ runner' = "putting" /\ out' = kind
        /\ said' = said \cup {kind} /\ emitted' = emitted + 1
    BY <1>2 DEF ReadsLine
  <2>2. emitted' + One(runner' = "done")
          = heard' + Len(mq') + One(pc' = "append") + One(runner' = "putting")
    BY <1>0, <2>1 DEF Account, One, TypeOK
  <2> QED BY <2>1, <2>2 DEF Account, EndIsLast
<1>3. CASE Puts
  <2>1. /\ UNCHANGED <<emitted, heard, pc, noted, msg, said>>
        /\ runner = "putting" /\ runner' = "reading" /\ mq' = Append(mq, out)
        /\ out \in Kinds /\ out \in Messages /\ out # "end"
    BY <1>3 DEF Puts, PutsMessages, Messages, Kinds
  <2>2. Len(mq') = Len(mq) + 1
    BY <1>0, <2>1, AppendHolds
  <2>3. emitted' + One(runner' = "done")
          = heard' + Len(mq') + One(pc' = "append") + One(runner' = "putting")
    BY <1>0, <2>1, <2>2 DEF Account, One, TypeOK
  <2>4. EndIsLast(mq)'
    <3> SUFFICES ASSUME NEW i \in 1..Len(mq') PROVE mq'[i] # "end"
      BY <2>1 DEF EndIsLast
    <3>1. CASE i \in 1..Len(mq)
      BY <1>0, <2>1, <3>1, AppendHolds DEF Account, EndIsLast
    <3>2. CASE i = Len(mq) + 1
      BY <1>0, <2>1, <3>2, AppendHolds
    <3> QED BY <1>0, <2>2, <3>1, <3>2
  <2>5. Holds(mq', out) /\ \A x : Holds(mq, x) => Holds(mq', x)
    BY <1>0, <2>1, AppendHolds
  <2> QED BY <2>1, <2>3, <2>4, <2>5 DEF Account
<1>4. CASE PutsSentinel
  <2>1. /\ UNCHANGED <<emitted, heard, pc, noted, msg, said>>
        /\ runner = "ending" /\ runner' = "done" /\ mq' = Append(mq, "end")
        /\ "end" \in Messages
    BY <1>4 DEF PutsSentinel, Messages
  <2>2. Len(mq') = Len(mq) + 1 /\ mq' # <<>>
    <3>1. Len(mq') = Len(mq) + 1
      BY <1>0, <2>1, AppendHolds
    <3> QED BY <1>0, <3>1
  <2>3. emitted' + One(runner' = "done")
          = heard' + Len(mq') + One(pc' = "append") + One(runner' = "putting")
    BY <1>0, <2>1, <2>2 DEF Account, One, TypeOK
  <2>4. EndIsLast(mq)'
    <3> SUFFICES ASSUME NEW i \in 1..Len(mq') PROVE mq'[i] = "end" <=> i = Len(mq')
      BY <2>1 DEF EndIsLast
    <3>1. CASE i \in 1..Len(mq)
      BY <1>0, <2>1, <2>2, <3>1, AppendHolds DEF Account, EndIsLast
    <3>2. CASE i = Len(mq) + 1
      BY <1>0, <2>1, <2>2, <3>2, AppendHolds
    <3> QED BY <1>0, <2>2, <3>1, <3>2
  <2>5. \A x : Holds(mq, x) => Holds(mq', x)
    BY <1>0, <2>1, AppendHolds
  <2> QED BY <2>1, <2>2, <2>3, <2>4, <2>5 DEF Account
<1>5. CASE ReportsTimeout
  <2>1. /\ UNCHANGED <<heard, pc, noted, msg, said>> /\ emitted' = emitted + 1
        /\ runner = "expired" /\ runner' \in {"died", "ending"} /\ mq' = Append(mq, "text")
        /\ "text" \in Messages
    BY <1>5 DEF ReportsTimeout, Settle, Messages, Kinds
  <2>2. Len(mq') = Len(mq) + 1
    BY <1>0, <2>1, AppendHolds
  <2>3. emitted' + One(runner' = "done")
          = heard' + Len(mq') + One(pc' = "append") + One(runner' = "putting")
    BY <1>0, <2>1, <2>2 DEF Account, One, TypeOK
  <2>4. EndIsLast(mq)'
    <3> SUFFICES ASSUME NEW i \in 1..Len(mq') PROVE mq'[i] # "end"
      BY <2>1 DEF EndIsLast
    <3>1. CASE i \in 1..Len(mq)
      BY <1>0, <2>1, <3>1, AppendHolds DEF Account, EndIsLast
    <3>2. CASE i = Len(mq) + 1
      BY <1>0, <2>1, <3>2, AppendHolds
    <3> QED BY <1>0, <2>2, <3>1, <3>2
  <2>5. \A x : Holds(mq, x) => Holds(mq', x)
    BY <1>0, <2>1, AppendHolds
  <2> QED BY <2>1, <2>3, <2>4, <2>5 DEF Account
<1> QED BY <1>1, <1>2, <1>3, <1>4, <1>5 DEF Runner

\* Taking a message and looking at it.
LEMMA ListenerKeepsAccount ==
  ASSUME TypeOK, mode = "harness", Account, TakesMessage \/ LooksAtMessage
  PROVE  Account'
<1> USE DEF UserFrame, fixedVars
<1>0. mq \in Seq(Messages) /\ Len(mq) \in Nat
  BY LenProperties DEF TypeOK, Messages
<1>1. CASE TakesMessage
  <2>1. /\ UNCHANGED <<emitted, runner, heard, said, noted, out>> /\ pc = "stream"
        /\ mq # <<>> /\ Head(mq) # "end" /\ msg' = Head(mq) /\ mq' = Tail(mq)
        /\ pc' = "append"
    BY <1>1 DEF TakesMessage
  <2>2. /\ Len(mq) \in Nat \ {0} /\ Head(mq) = mq[1] /\ Len(mq') = Len(mq) - 1
        /\ \A i \in 1..Len(mq') : mq'[i] = mq[i + 1]
        /\ \A x : Holds(mq, x) => x = Head(mq) \/ Holds(mq', x)
    BY <1>0, <2>1, TailHolds
  <2>3. emitted' + One(runner' = "done")
          = heard' + Len(mq') + One(pc' = "append") + One(runner' = "putting")
    BY <1>0, <2>1, <2>2 DEF Account, One, TypeOK
  <2>4. EndIsLast(mq)'
    <3> SUFFICES ASSUME NEW i \in 1..Len(mq')
                 PROVE  mq'[i] = "end" <=> runner = "done" /\ i = Len(mq')
      BY <2>1 DEF EndIsLast
    <3>1. i + 1 \in 1..Len(mq) /\ (i = Len(mq') <=> i + 1 = Len(mq))
      BY <2>2
    <3> QED BY <2>2, <3>1 DEF Account, EndIsLast
  <2>5. runner' = "done" => mq' # <<>>
    <3> SUFFICES ASSUME runner = "done", mq' = <<>> PROVE FALSE
      BY <2>1
    <3>1. Len(mq) = 1
      BY <2>2
    <3> QED BY <2>1, <2>2, <3>1 DEF Account, EndIsLast
  <2> QED BY <2>1, <2>2, <2>3, <2>4, <2>5 DEF Account
<1>2. CASE LooksAtMessage
  <2>1. /\ UNCHANGED <<emitted, runner, mq, said, out>> /\ pc = "append"
        /\ heard' = heard + 1 /\ noted' = noted \cup ({msg} \cap Wanted)
        /\ pc' \in {"check", "stream"}
    BY <1>2 DEF LooksAtMessage, Finds, Wanted
  <2>2. emitted' + One(runner' = "done")
          = heard' + Len(mq') + One(pc' = "append") + One(runner' = "putting")
    BY <1>0, <2>1 DEF Account, One, TypeOK
  <2> QED BY <2>1, <2>2 DEF Account, EndIsLast
<1> QED BY <1>1, <1>2

\* Who meets the sentinel has heard everything.
LEMMA EndIsWhole ==
  ASSUME TypeOK, Account, StreamEnds
  PROVE  Whole'
<1>1. /\ pc = "stream" /\ mq # <<>> /\ Head(mq) = "end"
      /\ UNCHANGED <<runner, heard, emitted, said, noted>>
  BY DEF StreamEnds, UserFrame, foundVars
<1>2. /\ mq \in Seq(Messages) /\ Len(mq) \in Nat \ {0} /\ Head(mq) = mq[1]
      /\ \A x : Holds(mq, x) => x = Head(mq) \/ Holds(Tail(mq), x)
      /\ Len(Tail(mq)) = Len(mq) - 1
  <2>1. mq \in Seq(Messages)
    BY DEF TypeOK, Messages
  <2> QED BY <1>1, <2>1, TailHolds
<1>3. runner = "done" /\ Len(mq) = 1
  <2>1. 1 \in 1..Len(mq) /\ mq[1] = "end"
    BY <1>1, <1>2
  <2> QED BY <2>1 DEF Account, EndIsLast
<1>4. heard = emitted
  BY <1>1, <1>3 DEF Account, One, TypeOK
<1>5. said \cap Wanted \subseteq noted
  BY <1>1, <1>2, <1>3 DEF Account, Holds, Wanted
<1> QED BY <1>1, <1>3, <1>4, <1>5 DEF Whole

\* SuccessIsWhole and PendingBlocks are not inductive.  While the harness listens
\* the account holds; once the stream is read it is whole, unless the harness left
\* it for a cancellation or a timeout.
HeardAll ==
  mode = "harness" =>
    /\ pc \in Listening => result = "none" /\ ~cancelled /\ Account
    /\ pc = "result" => result = "none"
    /\ pc = "result" /\ ~cancelled => Whole
    /\ result = "ok" => future = "ok"
    /\ result = "ok" /\ ~cancelled => Whole
    /\ result = "ok" /\ ~cancelled /\ pc \notin {"settle", "gone"} => "secret" \notin said
    /\ pc \in {"teardown", "returned"} /\ ~cancelled =>
         \/ sent = "blocked"
         \/ runner = "none" /\ said = {}
         \/ runner = "done" /\ "pending" \notin said
    /\ pc # "closing"

\* A step of the runner.
LEMMA RunnerKeepsHeard ==
  ASSUME TypeOK, PutsMessages, ProcFollows, HeardAll, Runner \/ RunnerDies
  PROVE  HeardAll'
<1> SUFFICES ASSUME mode = "harness" PROVE HeardAll'
  BY DEF HeardAll, Runner, RunnerDies, RunnerFrame, fixedVars, Spawns, SpawnsNothing,
         ReadsLine, Puts, ReadsEof, WaitEnds, Resolves, PutsSentinel, LineTimesOut,
            ReportsTimeout
<1>1. UNCHANGED <<mode, pc, result, cancelled, sent, heard, noted>> /\ runner \in Active
  BY DEF Runner, RunnerDies, RunnerFrame, fixedVars, foundVars, hubVars, Spawns,
         SpawnsNothing, ReadsLine, Puts, ReadsEof, WaitEnds, Resolves, PutsSentinel,
            LineTimesOut,
         ReportsTimeout, Active
<1>2. pc \in Listening => Account'
  <2>1. CASE Runner
    BY <2>1, RunnerKeepsAccount DEF HeardAll
  <2>2. CASE RunnerDies
    <3>1. UNCHANGED <<emitted, heard, mq, pc, said, noted, out, msg>>
      BY <2>2 DEF RunnerDies, RunnerFrame, foundVars
    <3>2. runner \notin {"done", "putting"} /\ runner' \notin {"done", "putting"}
      BY <2>2 DEF RunnerDies
    <3> QED BY <3>1, <3>2 DEF HeardAll, Account, EndIsLast
  <2> QED BY <2>1, <2>2
<1>3. runner \notin {"done", "none"} /\ ~Whole
  BY <1>1 DEF Active, Whole
<1>4. result = "ok" => future' = "ok"
  BY <1>1, <1>3 DEF HeardAll, ProcFollows, Runner, RunnerDies, Spawns, SpawnsNothing,
     ReadsLine, Puts, ReadsEof, WaitEnds, Resolves, PutsSentinel, LineTimesOut,
        ReportsTimeout
<1> QED BY <1>1, <1>2, <1>3, <1>4 DEF HeardAll

\* The harness up to the result.
LEMMA ListeningKeepsHeard ==
  ASSUME TypeOK, ProcFollows, HeardAll,
         \/ SetsUp \/ Starts \/ TakesMessage \/ LooksAtMessage
         \/ ChecksCancelled \/ StreamEnds
  PROVE  HeardAll'
<1> USE DEF UserFrame, fixedVars, foundVars
<1> SUFFICES ASSUME mode = "harness" PROVE HeardAll'
  BY DEF HeardAll, SetsUp, Starts, TakesMessage, LooksAtMessage, ChecksCancelled,
         StreamEnds
<1>0. pc \in Listening /\ Account /\ result = "none" /\ ~cancelled
  BY DEF HeardAll, Listening, SetsUp, Starts, TakesMessage, LooksAtMessage,
         ChecksCancelled, StreamEnds
<1>1. CASE SetsUp
  <2>1. /\ UNCHANGED <<emitted, heard, mq, said, noted, out, msg, runner, cancelled, future>>
        /\ pc = "setup" /\ result' \in {result, "fail"}
        /\ (pc' = "pin" /\ result' = result) \/ pc' = "teardown"
    BY <1>1 DEF SetsUp
  <2>2. Account'
    BY <1>0, <2>1 DEF Account, EndIsLast
  <2>3. runner' = "none" /\ said' = {}
    BY <2>1 DEF ProcFollows
  <2> QED BY <1>0, <2>1, <2>2, <2>3 DEF HeardAll, Listening
<1>2. CASE Starts
  <2>1. /\ UNCHANGED <<emitted, heard, mq, said, noted, out, msg, cancelled, result>>
        /\ pc = "pin" /\ pc' = "stream" /\ runner' = "spawning" /\ runner = "none"
    BY <1>2 DEF Starts, ProcFollows
  <2>2. Account'
    BY <1>0, <2>1 DEF Account, EndIsLast
  <2> QED BY <1>0, <2>1, <2>2 DEF HeardAll, Listening
<1>3. CASE TakesMessage \/ LooksAtMessage
  <2>1. Account'
    BY <1>0, <1>3, ListenerKeepsAccount
  <2>2. UNCHANGED <<cancelled, result>> /\ pc' \in Listening
    BY <1>3 DEF TakesMessage, LooksAtMessage, Listening
  <2> QED BY <1>0, <2>1, <2>2 DEF HeardAll, Listening
<1>4. CASE ChecksCancelled
  <2>1. /\ UNCHANGED <<emitted, heard, mq, said, noted, out, msg, runner, result>>
        /\ pc = "check" /\ pc' = IF cancelled' THEN "result" ELSE "stream"
    BY <1>4 DEF ChecksCancelled
  <2>2. Account'
    BY <1>0, <2>1 DEF Account, EndIsLast
  <2> QED BY <1>0, <2>1, <2>2 DEF HeardAll, Listening
<1>5. CASE StreamEnds
  <2>1. Whole'
    BY <1>0, <1>5, EndIsWhole
  <2>2. UNCHANGED <<cancelled, result>> /\ pc' = "result"
    BY <1>5 DEF StreamEnds
  <2> QED BY <1>0, <2>1, <2>2 DEF HeardAll, Listening
<1> QED BY <1>1, <1>2, <1>3, <1>4, <1>5

\* The harness from the result on; what the runner did is settled, unless the
\* harness has given up on it.
LEMMA EndingKeepsHeard ==
  ASSUME TypeOK, ProcFollows, HeardAll,
         \/ GetsResult \/ TimesOut \/ Settles \/ Flushes \/ Reports \/ TearsDown
  PROVE  HeardAll'
<1> USE DEF UserFrame, fixedVars, foundVars
<1> SUFFICES ASSUME mode = "harness" PROVE HeardAll'
  BY DEF HeardAll, GetsResult, TimesOut, Settles, Flushes, Reports, TearsDown
<1>0. /\ UNCHANGED <<mode, runner, emitted, heard, said, noted, cancelled>>
      /\ Whole' <=> Whole
  BY DEF GetsResult, TimesOut, Settles, Flushes, Reports, TearsDown, Whole
<1>1. CASE GetsResult
  <2>1. /\ pc = "result" /\ pc' = "settle" /\ result' = future /\ future' = future
    BY <1>1 DEF GetsResult
  <2> QED BY <1>0, <2>1 DEF HeardAll, Listening
<1>2. CASE TimesOut
  <2>1. pc' = "settle" /\ result' = "fail"
    BY <1>2 DEF TimesOut
  <2> QED BY <1>0, <2>1 DEF HeardAll, Listening
<1>3. CASE Settles
  <2>1. pc = "settle" /\ pc' = "flush" /\ future' = future
    BY <1>3 DEF Settles
  <2>2. result' = "ok" => result = "ok"
    BY <1>3 DEF Settles
  <2>3. result' = "ok" /\ ~cancelled => "secret" \notin noted
    BY <1>3 DEF Settles
  <2>4. result' = "ok" /\ ~cancelled => "secret" \notin said
    BY <2>2, <2>3 DEF HeardAll, Whole, Wanted
  <2> QED BY <1>0, <2>1, <2>2, <2>4 DEF HeardAll, Listening
<1>4. CASE Flushes \/ TearsDown
  <2>1. /\ UNCHANGED <<result, future, sent>>
        /\ \/ pc = "flush" /\ pc' = "report"
           \/ pc = "teardown" /\ pc' = "returned"
    BY <1>4 DEF Flushes, AfterFlush, TearsDown, hubVars
  <2> QED BY <1>0, <2>1 DEF HeardAll, Listening
<1>5. CASE Reports
  <2>1. pc = "report" /\ pc' = "teardown" /\ UNCHANGED <<result, future>>
    BY <1>5 DEF Reports
  <2>2. CASE cancelled
    BY <1>0, <2>1, <2>2 DEF HeardAll, Listening
  <2>3. CASE ~cancelled /\ "pending" \notin noted /\ result = "ok"
    <3>1. runner = "done" /\ "pending" \notin said
      BY <2>3 DEF HeardAll, Whole, Wanted
    <3> QED BY <1>0, <2>1, <3>1 DEF HeardAll, Listening
  <2>4. CASE ~cancelled /\ ("pending" \in noted \/ result # "ok")
    <3>1. Verdict = "blocked"
      BY <2>4 DEF Verdict
    <3>2. sent' = "blocked"
      BY <1>5, <3>1 DEF Reports, HubWrites
    <3> QED BY <1>0, <2>1, <3>2 DEF HeardAll, Listening
  <2> QED BY <2>2, <2>3, <2>4
<1> QED BY <1>1, <1>2, <1>3, <1>4, <1>5

LEMMA StepHeard ==
  ASSUME TypeOK, PutsMessages, ProcFollows, HeardAll, [Next]_vars
  PROVE  HeardAll'
<1>1. CASE Closes
  BY <1>1 DEF Closes, HeardAll, UserFrame, fixedVars
<1>2. CASE Stopping
  <2> USE DEF UserFrame, fixedVars, foundVars, hubVars
  <2>1. CASE mode # "harness"
    BY <1>2, <2>1 DEF Stopping, Interrupted, Abandons, LoopCloses, HeardAll
  <2>2. CASE mode = "harness"
    <3>1. /\ pc' = "gone" /\ UNCHANGED <<result, cancelled, heard, noted, emitted, said>>
          /\ future = "ok" => future' = "ok"
          /\ runner = "done" => runner' = "done"
      BY <1>2, <2>2 DEF Stopping, Interrupted, Abandons, LoopCloses, FutureAfterCancel, Active
    <3>2. Whole => Whole'
      BY <3>1 DEF Whole
    <3>3. result' = "ok" => future' = "ok"
      BY <2>2, <3>1 DEF HeardAll
    <3>4. result' = "ok" /\ ~cancelled' => Whole'
      BY <2>2, <3>1, <3>2 DEF HeardAll
    <3>5. pc' \notin Listening \cup {"result", "teardown", "returned", "closing"}
      BY <3>1 DEF Listening
    <3> QED BY <3>1, <3>3, <3>4, <3>5 DEF HeardAll
  <2> QED BY <2>1, <2>2
<1>3. CASE BrainExits \/ PersonCancels \/ LogMoves \/ UNCHANGED vars
  <2>1. UNCHANGED <<fixedVars, runner, out, said, emitted, mq, future, pc, foundVars, sent>>
    BY <1>3 DEF BrainExits, RunnerFrame, PersonCancels, LogMoves, vars, runnerVars, hubVars
  <2> QED BY <2>1 DEF fixedVars, foundVars, HeardAll, Account, EndIsLast, Whole
<1> QED
  BY <1>1, <1>2, <1>3, RunnerKeepsHeard, ListeningKeepsHeard, EndingKeepsHeard
  DEF Next, User

LEMMA HeardAlways == Spec => []HeardAll
<1>1. Init => PutsMessages
  BY DEF Init, PutsMessages
<1>2. TypeOK /\ PutsMessages /\ [Next]_vars => PutsMessages'
  BY StepPuts
<1>3. Init => HeardAll
  <2> SUFFICES ASSUME Init, mode = "harness" PROVE HeardAll
    BY DEF HeardAll
  <2>1. pc = "setup" /\ result = "none" /\ ~cancelled
    BY DEF Init, StartsAt
  <2>2. Account
    BY <2>1 DEF Init, Account, EndIsLast, One
  <2> QED BY <2>1, <2>2 DEF HeardAll
<1>4. TypeOK /\ PutsMessages /\ ProcFollows /\ HeardAll /\ [Next]_vars => HeardAll'
  BY StepHeard
<1> QED BY TypesHold, ProcAlwaysFollows, <1>1, <1>2, <1>3, <1>4, PTL DEF Spec

(* A turn that is reported a success was heard to its end, for any queue   *)
(* and any number of messages: its process has exited, the harness has     *)
(* handled all it sent, and none had a secret in it (harness.py:159-248).  *)
(* The argument is an account of the messages that the sentinel closes.    *)
THEOREM SuccessIsHeardToTheEnd == Spec => []SuccessIsWhole
<1>1. ProcFollows /\ HeardAll => SuccessIsWhole
  BY DEF ProcFollows, HeardAll, Whole, SuccessIsWhole
<1> QED BY HeardAlways, ProcAlwaysFollows, <1>1, PTL

(* A brain that left a delegate call pending has its task blocked, unless  *)
(* a cancellation was seen: a turn that does not end in success is blocked *)
(* anyway, and one that does has read every message (harness.py:257-292).  *)
THEOREM PendingAlwaysBlocks == Spec => []PendingBlocks
<1>1. HeardAll => PendingBlocks
  BY DEF HeardAll, PendingBlocks
<1> QED BY HeardAlways, <1>1, PTL

-----------------------------------------------------------------------------
(* Nobody waits for what will not come: the part of TurnReturns that does  *)
(* not speak of fairness.                                                  *)

LEMMA EndAppended ==
  ASSUME TypeOK, EndIsLast(mq), NEW e \in Messages, mq' = Append(mq, e),
         runner # "done", (e = "end") <=> (runner' = "done")
  PROVE  EndIsLast(mq)' /\ mq' # <<>>
<1>1. /\ mq \in Seq(Messages) /\ Len(mq) \in Nat /\ Len(mq') = Len(mq) + 1
      /\ \A i \in 1..Len(mq) : mq'[i] = mq[i]
      /\ mq'[Len(mq) + 1] = e
  <2>1. mq \in Seq(Messages)
    BY DEF TypeOK, Messages
  <2> QED BY <2>1, AppendHolds
<1>2. ASSUME NEW i \in 1..Len(mq')
      PROVE  (mq'[i] = "end") <=> (runner' = "done" /\ i = Len(mq'))
  <2>1. CASE i \in 1..Len(mq)
    BY <1>1, <2>1 DEF EndIsLast
  <2>2. CASE i = Len(mq) + 1
    BY <1>1, <2>2
  <2> QED BY <1>1, <2>1, <2>2
<1> QED BY <1>1, <1>2 DEF EndIsLast

LEMMA EndTaken ==
  ASSUME TypeOK, EndIsLast(mq), mq # <<>>, Head(mq) # "end", mq' = Tail(mq),
         runner' = runner
  PROVE  EndIsLast(mq)' /\ (runner = "done" => mq' # <<>>)
<1>1. /\ Len(mq) \in Nat \ {0} /\ Head(mq) = mq[1] /\ Len(mq') = Len(mq) - 1
      /\ \A i \in 1..Len(mq') : mq'[i] = mq[i + 1]
  <2>1. mq \in Seq(Messages)
    BY DEF TypeOK, Messages
  <2> QED BY <2>1, TailHolds
<1>2. ASSUME NEW i \in 1..Len(mq')
      PROVE  (mq'[i] = "end") <=> (runner' = "done" /\ i = Len(mq'))
  <2>1. i + 1 \in 1..Len(mq) /\ (i = Len(mq') <=> i + 1 = Len(mq))
    BY <1>1
  <2> QED BY <1>1, <2>1 DEF EndIsLast
<1>3. ASSUME runner = "done", mq' = <<>> PROVE FALSE
  <2>1. Len(mq) = 1
    BY <1>1, <1>3
  <2> QED BY <1>1, <1>3, <2>1 DEF EndIsLast
<1> QED BY <1>2, <1>3 DEF EndIsLast

\* Who reads the messages finds the sentinel after the last of them, and the
\* future set when the sentinel is there.
Served ==
  mode # "oneshot" =>
    /\ pc \in Listening =>
         /\ EndIsLast(mq) /\ (runner = "done" => mq # <<>>)
         /\ runner # "cancelled" /\ (runner = "none" => pc \in {"setup", "pin"})
    /\ pc \in Listening \cup {"result"} =>
         /\ future # "cancelled"
         /\ runner \in {"ending", "done"} => future \in {"ok", "fail"}
    /\ pc = "result" /\ ~cancelled => runner = "done"

\* A message is waited for only while a runner is there to put one, which the
\* empty queue has room for; a result, unless the turn was cancelled, not at all.
NobodyWaitsInVain ==
  mode # "oneshot" /\ runner # "died" =>
    /\ pc = "stream" /\ mq = <<>> => runner \in Active /\ HasRoom
    /\ pc = "result" /\ ~cancelled => future \in {"ok", "fail"}

LEMMA RunnerKeepsServed ==
  ASSUME TypeOK, PutsMessages, Served, Runner \/ RunnerDies
  PROVE  Served'
<1> USE DEF RunnerFrame, fixedVars, foundVars
<1> SUFFICES ASSUME mode # "oneshot" PROVE Served'
  BY DEF Served, Runner, RunnerDies, Spawns, SpawnsNothing, ReadsLine, Puts, ReadsEof,
         WaitEnds, Resolves, PutsSentinel, LineTimesOut, ReportsTimeout
<1>1. UNCHANGED <<mode, pc, cancelled>> /\ runner \in Active
  BY DEF Runner, RunnerDies, Spawns, SpawnsNothing, ReadsLine, Puts, ReadsEof, WaitEnds,
     Resolves,
         PutsSentinel, LineTimesOut, ReportsTimeout, Active
<1>2. runner' \notin {"none", "cancelled"} /\ (runner' = "done" => runner = "ending")
  BY DEF Runner, RunnerDies, Spawns, SpawnsNothing, ReadsLine, Puts, ReadsEof, WaitEnds,
     Resolves,
         PutsSentinel, LineTimesOut, ReportsTimeout, Settle
<1>3. ASSUME pc \in Listening PROVE EndIsLast(mq)' /\ (runner' = "done" => mq' # <<>>)
  <2>0. EndIsLast(mq) /\ runner # "done"
    BY <1>1, <1>3 DEF Served, Active
  <2>1. CASE mq' = mq
    <3>1. runner' # "done"
      <4>1. mq \in Seq(Messages)
        BY DEF TypeOK, Messages
      <4>2. Len(Append(mq, "end")) = Len(mq) + 1 /\ Len(mq) \in Nat
        BY <4>1, AppendHolds DEF Messages
      <4>3. ~PutsSentinel
        BY <2>1, <4>2 DEF PutsSentinel
      <4> QED BY <4>3 DEF Runner, RunnerDies, Spawns, SpawnsNothing, ReadsLine, Puts,
                 ReadsEof, WaitEnds, Resolves, LineTimesOut, ReportsTimeout, Settle
    <3> QED BY <2>0, <2>1, <3>1 DEF EndIsLast
  <2>2. CASE Puts
    <3>1. mq' = Append(mq, out) /\ out \in Messages /\ out # "end" /\ runner' = "reading"
      BY <2>2 DEF Puts, PutsMessages, Messages, Kinds
    <3> QED BY <2>0, <3>1, EndAppended
  <2>3. CASE PutsSentinel
    <3>1. mq' = Append(mq, "end") /\ "end" \in Messages /\ runner' = "done"
      BY <2>3 DEF PutsSentinel, Messages
    <3> QED BY <2>0, <3>1, EndAppended
  <2>4. CASE ReportsTimeout
    <3>1. mq' = Append(mq, "text") /\ "text" \in Messages /\ runner' # "done"
      BY <2>4 DEF ReportsTimeout, Settle, Messages, Kinds
    <3> QED BY <2>0, <3>1, EndAppended
  <2> QED BY <2>1, <2>2, <2>3, <2>4
          DEF Runner, RunnerDies, Spawns, SpawnsNothing, ReadsLine, ReadsEof, WaitEnds,
             Resolves,
              LineTimesOut
<1>4. ASSUME pc \in Listening \cup {"result"}
      PROVE  /\ future' # "cancelled"
             /\ runner' \in {"ending", "done"} => future' \in {"ok", "fail"}
  <2>1. /\ future # "cancelled"
        /\ runner = "ending" => future \in {"ok", "fail"}
    BY <1>4 DEF Served
  <2> QED BY <2>1 DEF Runner, RunnerDies, Spawns, SpawnsNothing, ReadsLine, Puts, ReadsEof,
     WaitEnds, Resolves, PutsSentinel, LineTimesOut, ReportsTimeout, Settle
<1>5. pc = "result" => cancelled
  BY <1>1 DEF Served, Active
<1> QED BY <1>1, <1>2, <1>3, <1>4, <1>5 DEF Served

LEMMA StepServed ==
  ASSUME TypeOK, PutsMessages, ProcFollows, Served, [Next]_vars
  PROVE  Served'
<1> USE DEF UserFrame, fixedVars, foundVars, runnerVars, hubVars, logVars
<1>1. CASE SetsUp
  <2>1. /\ UNCHANGED <<mode, runner, mq, future, cancelled>> /\ pc = "setup"
        /\ pc' \in {"pin", "teardown"}
    BY <1>1 DEF SetsUp
  <2> QED BY <2>1 DEF Served, EndIsLast, Listening
<1>2. CASE Starts
  <2>1. /\ UNCHANGED <<mode, mq, future, cancelled>> /\ pc = "pin"
        /\ pc' = "stream" /\ runner = "none" /\ runner' = "spawning"
    BY <1>2 DEF Starts, ProcFollows
  <2> QED BY <2>1 DEF Served, EndIsLast, Listening
<1>3. CASE TakesMessage
  <2>1. /\ UNCHANGED <<mode, runner, future, cancelled>> /\ pc = "stream" /\ pc' = "append"
        /\ mq # <<>> /\ Head(mq) # "end" /\ mq' = Tail(mq)
    BY <1>3 DEF TakesMessage
  <2>2. ASSUME mode # "oneshot" PROVE EndIsLast(mq)' /\ (runner = "done" => mq' # <<>>)
    <3>1. EndIsLast(mq)
      BY <2>1, <2>2 DEF Served, Listening
    <3> QED BY <2>1, <3>1, EndTaken
  <2> QED BY <2>1, <2>2 DEF Served, Listening
<1>4. CASE LooksAtMessage
  <2>1. /\ UNCHANGED <<mode, runner, mq, future, cancelled>> /\ pc = "append"
        /\ pc' \in {"check", "stream"}
    BY <1>4 DEF LooksAtMessage
  <2> QED BY <2>1 DEF Served, EndIsLast, Listening
<1>5. CASE ChecksCancelled
  <2>1. /\ UNCHANGED <<mode, runner, mq, future>> /\ pc = "check"
        /\ pc' = IF cancelled' THEN "result" ELSE "stream"
    BY <1>5 DEF ChecksCancelled
  <2> QED BY <2>1 DEF Served, EndIsLast, Listening
<1>6. CASE StreamEnds
  <2>1. /\ UNCHANGED <<mode, runner, future, cancelled>> /\ pc = "stream" /\ pc' = "result"
        /\ mq # <<>> /\ Head(mq) = "end"
    BY <1>6 DEF StreamEnds
  <2>2. ASSUME mode # "oneshot" PROVE runner = "done"
    <3>1. EndIsLast(mq)
      BY <2>1, <2>2 DEF Served, Listening
    <3>2. mq \in Seq(Messages)
      BY DEF TypeOK, Messages
    <3>3. mq[1] = "end" /\ 1 \in 1..Len(mq)
      BY <2>1, <3>2, TailHolds
    <3> QED BY <3>1, <3>3 DEF EndIsLast
  <2> QED BY <2>1, <2>2 DEF Served, Listening
<1>7. CASE \/ GetsResult \/ TimesOut \/ Settles \/ Closes \/ Flushes \/ Reports
           \/ TearsDown \/ Interrupted \/ Abandons \/ LoopCloses
  <2>1. mode' = mode /\ pc' \notin Listening \cup {"result"}
    BY <1>7 DEF GetsResult, TimesOut, Settles, Closes, CancelRunner, Flushes, AfterFlush,
       Reports, TearsDown, Interrupted, Abandons, LoopCloses, Listening
  <2> QED BY <2>1 DEF Served
<1>8. CASE BrainExits \/ PersonCancels \/ LogMoves \/ UNCHANGED vars
  <2>1. UNCHANGED <<mode, runner, mq, future, pc, cancelled>>
    BY <1>8 DEF BrainExits, RunnerFrame, PersonCancels, LogMoves, vars
  <2> QED BY <2>1 DEF Served, EndIsLast
<1> QED BY <1>1, <1>2, <1>3, <1>4, <1>5, <1>6, <1>7, <1>8, RunnerKeepsServed
        DEF Next, User, Stopping

(* The reader of a turn's messages, also a drive's, which has no deadline, *)
(* never waits for a message or a result that nobody will bring: unless    *)
(* the runner has died of an unreadable line, there is one that has not    *)
(* ended and has room to put, the sentinel comes after the last message    *)
(* and the result is set before the sentinel (orch_drive.py:48-51,         *)
(* claude.py:239-247).  (The runner itself may have to wait for a process  *)
(* that outlives its output.)  A harness that saw a cancellation leaves    *)
(* the queue unread and may wait for a result that a blocked runner never  *)
(* sets; its deadline ends that.                                           *)
THEOREM WaitsAreAnswered == Spec => []NobodyWaitsInVain
<1>1. Init => PutsMessages
  BY DEF Init, PutsMessages
<1>2. TypeOK /\ PutsMessages /\ [Next]_vars => PutsMessages'
  BY StepPuts
<1>3. Init => Served
  <2> SUFFICES ASSUME Init, mode # "oneshot" PROVE Served
    BY DEF Served
  <2>1. mq = <<>> /\ Len(mq) = 0 /\ future = "unset" /\ runner \in {"none", "spawning"}
    BY DEF Init
  <2>2. pc \in {"setup", "stream"} /\ (runner = "none" => pc = "setup")
    BY TurnAssumption DEF Init, StartsAt, TurnAssumption
  <2> QED BY <2>1, <2>2 DEF Served, EndIsLast
<1>4. TypeOK /\ Served => NobodyWaitsInVain
  <2> SUFFICES ASSUME TypeOK, Served, mode # "oneshot", runner # "died"
               PROVE  NobodyWaitsInVain
    BY DEF NobodyWaitsInVain
  <2>1. pc = "stream" => runner \notin {"none", "cancelled"} /\ (runner = "done" => mq # <<>>)
    BY DEF Served, Listening
  <2>2. mq = <<>> => HasRoom
    BY TurnAssumption DEF TurnAssumption, HasRoom
  <2>3. pc = "result" /\ ~cancelled => future \in {"ok", "fail"}
    BY DEF Served
  <2> QED BY <2>1, <2>2, <2>3 DEF TypeOK, NobodyWaitsInVain
<1>5. TypeOK /\ PutsMessages /\ ProcFollows /\ Served /\ [Next]_vars => Served'
  BY StepServed
<1> QED BY <1>1, <1>2, <1>3, <1>4, <1>5, TypesHold, ProcAlwaysFollows, PTL DEF Spec
=============================================================================
