------------------------------- MODULE Session -------------------------------
(***************************************************************************)
(* daemon/session.py: the event sink of one task run.                      *)
(*                                                                         *)
(* One producer (the harness coroutine) appends events, one background     *)
(* flusher drains a bounded asyncio.Queue in batches and POSTs them to     *)
(* krewhub, and flush() joins the queue before it stops the flusher.       *)
(* Events are the numbers 1, 2, ... in the order append() was called;      *)
(* their bodies do not matter here, only whether their type is one of      *)
(* _DROPPABLE_TYPES, which is chosen at the append that finds the queue    *)
(* full (nothing else looks at it).                                        *)
(*                                                                         *)
(* No await separates queue.get() returning from the drain that follows,   *)
(* nor the steps of flush() after the join, so each is one action.         *)
(***************************************************************************)
EXTENDS Naturals, Sequences, SequencesExt

CONSTANTS
  QueueSize,   \* maxsize of the asyncio.Queue (256 in the code)
  BatchSize,   \* most events in one POST (8 in the code)
  MaxEvents    \* bound of the model: how many events the harness appends

ASSUME SessionAssumption ==
  /\ QueueSize \in Nat \ {0}
  /\ BatchSize \in Nat \ {0}
  /\ MaxEvents \in Nat

VARIABLES
  appended,   \* events handed to append() so far; the last one is its number
  putting,    \* the event append() is waiting to enqueue, 0 when it is not
  queue,      \* Session._queue
  flusher,    \* Session._flusher: "none", "running" or "stopped"
  batch,      \* the events of the POST in flight, <<>> when there is none
  posted,     \* the task's tape on krewhub
  dropped,    \* Session._dropped
  lost,       \* events of batches whose POST failed; the code keeps no count
  vanished,   \* events whose append() was cancelled while it waited; no count
  stage,      \* where flush() is: "open", "joining", "flushed", "abandoned"
  note        \* dropped_count of the back-pressure milestone, 0 if none landed

vars == <<appended, putting, queue, flusher, batch, posted, dropped, lost,
          vanished, stage, note>>

Init ==
  /\ appended = 0
  /\ putting = 0
  /\ queue = <<>>
  /\ flusher = "none"
  /\ batch = <<>>
  /\ posted = <<>>
  /\ dropped = 0
  /\ lost = 0
  /\ vanished = 0
  /\ stage = "open"
  /\ note = 0

-----------------------------------------------------------------------------
(* append(): the producer.                                                 *)

\* append() is called on an open session; it starts the flusher lazily.
AppendBegins ==
  /\ stage = "open"            \* `if self._closed: return`
  /\ putting = 0               \* one producer: the previous append() returned
  /\ appended < MaxEvents
  /\ appended' = appended + 1
  /\ flusher' = "running"
  /\ UNCHANGED <<batch, posted, lost, vanished, stage, note>>

HasRoom == Len(queue) < QueueSize

\* put_nowait succeeds.
AppendEnqueue ==
  /\ AppendBegins
  /\ HasRoom
  /\ queue' = Append(queue, appended')
  /\ UNCHANGED <<putting, dropped>>

\* Mutant: make room by evicting the oldest queued event.
MutAppendDropEvicts ==
  /\ AppendBegins
  /\ ~HasRoom
  /\ dropped' = dropped + 1
  /\ queue' = Append(Tail(queue), appended')
  /\ UNCHANGED putting

\* QueueFull and the type is droppable: counted and forgotten.
AppendDrop ==
  /\ AppendBegins
  /\ ~HasRoom
  /\ dropped' = dropped + 1
  /\ UNCHANGED <<putting, queue>>

\* QueueFull and the type is critical: wait for room, at most a second.
AppendWait ==
  /\ AppendBegins
  /\ ~HasRoom
  /\ putting' = appended'
  /\ UNCHANGED <<queue, dropped>>

PutSucceeds ==
  /\ putting # 0
  /\ HasRoom
  /\ queue' = Append(queue, putting)
  /\ putting' = 0
  /\ UNCHANGED <<appended, flusher, batch, posted, dropped, lost, vanished,
                 stage, note>>

PutTimesOut ==
  /\ putting # 0
  /\ putting' = 0
  /\ dropped' = dropped + 1
  /\ UNCHANGED <<appended, queue, flusher, batch, posted, lost, vanished,
                 stage, note>>

\* The harness's execution timeout cancels the append() it is waiting in: that
\* is a CancelledError, which the `except asyncio.TimeoutError` does not see.
PutCancelled ==
  /\ putting # 0
  /\ putting' = 0
  /\ vanished' = vanished + 1
  /\ UNCHANGED <<appended, queue, flusher, batch, posted, dropped, lost,
                 stage, note>>

-----------------------------------------------------------------------------
(* _flush_loop(): the background flusher.                                  *)

\* Mutant: `while len(batch) <= batch_size`.
MutBatchLenOneMore ==
  IF Len(queue) <= BatchSize THEN Len(queue) ELSE BatchSize + 1

BatchLen == IF Len(queue) < BatchSize THEN Len(queue) ELSE BatchSize

\* Mutant: the first event is taken from the queue but left out of the batch.
MutTakeBatchSkipsFirst ==
  /\ flusher = "running"
  /\ batch = <<>>
  /\ queue # <<>>
  /\ batch' = SubSeq(queue, 2, BatchLen)
  /\ queue' = SubSeq(queue, BatchLen + 1, Len(queue))
  /\ UNCHANGED <<appended, putting, flusher, posted, dropped, lost, vanished,
                 stage, note>>

TakeBatch ==
  /\ flusher = "running"
  /\ batch = <<>>
  /\ queue # <<>>
  /\ batch' = SubSeq(queue, 1, BatchLen)
  /\ queue' = SubSeq(queue, BatchLen + 1, Len(queue))
  /\ UNCHANGED <<appended, putting, flusher, posted, dropped, lost, vanished,
                 stage, note>>

\* The POST reached krewhub, whatever the daemon heard back: _post_batch
\* swallows the error and nobody sends a batch twice.
PostLands ==
  /\ batch # <<>>
  /\ posted' = posted \o batch
  /\ batch' = <<>>
  /\ UNCHANGED <<appended, putting, queue, flusher, dropped, lost, vanished,
                 stage, note>>

\* Mutant: a failed batch goes back to the queue.
MutPostLostRequeues ==
  /\ batch # <<>>
  /\ queue' = queue \o batch
  /\ batch' = <<>>
  /\ UNCHANGED <<appended, putting, flusher, posted, dropped, lost, vanished,
                 stage, note>>

\* The POST did not reach krewhub; task_done() is called all the same.
PostLost ==
  /\ batch # <<>>
  /\ lost' = lost + Len(batch)
  /\ batch' = <<>>
  /\ UNCHANGED <<appended, putting, queue, flusher, posted, dropped, vanished,
                 stage, note>>

-----------------------------------------------------------------------------
(* flush(): called by the same coroutine that appends.                     *)

FlushBegins ==
  /\ stage = "open"
  /\ putting = 0
  /\ stage' = "joining"
  /\ UNCHANGED <<appended, putting, queue, flusher, batch, posted, dropped,
                 lost, vanished, note>>

\* Mutant: flush() waits for an empty queue, not for the POST in flight.
MutJoinedQueueOnly == flusher = "none" \/ queue = <<>>

\* Mutant: task_done() only after a successful POST, not in a `finally`.
MutJoinedNoFinally ==
  flusher = "none" \/ (queue = <<>> /\ batch = <<>> /\ lost = 0)

\* Every get() has had its task_done().
Joined == flusher = "none" \/ (queue = <<>> /\ batch = <<>>)

\* The flusher is stopped, what is left is swept into a last POST together
\* with the back-pressure milestone.
FlushEnds ==
  /\ stage = "joining"
  /\ Joined
  /\ stage' = "flushed"
  /\ flusher' = IF flusher = "none" THEN "none" ELSE "stopped"
  /\ queue' = <<>>
  /\ \/ /\ posted' = posted \o queue
        /\ note' = dropped
        /\ UNCHANGED lost
     \/ /\ queue # <<>> \/ dropped > 0
        /\ lost' = lost + Len(queue)
        /\ UNCHANGED <<posted, note>>
  /\ UNCHANGED <<appended, putting, batch, dropped, vanished>>

\* The daemon stops or dies: no flush, the flusher ends with the event loop.
\* A batch already on the wire may land.
Abandon ==
  /\ stage \in {"open", "joining"}
  /\ stage' = "abandoned"
  /\ flusher' = IF flusher = "none" THEN "none" ELSE "stopped"
  /\ \/ /\ posted' = posted \o batch
        /\ lost' = lost + Len(queue)
     \/ /\ batch # <<>>
        /\ lost' = lost + Len(batch) + Len(queue)
        /\ UNCHANGED posted
  /\ vanished' = IF putting = 0 THEN vanished ELSE vanished + 1
  /\ queue' = <<>>
  /\ batch' = <<>>
  /\ putting' = 0
  /\ UNCHANGED <<appended, dropped, note>>

Finished ==
  /\ stage \in {"flushed", "abandoned"}
  /\ UNCHANGED vars

-----------------------------------------------------------------------------
Producer ==
  \/ AppendEnqueue \/ AppendDrop \/ AppendWait
  \/ PutSucceeds \/ PutTimesOut \/ PutCancelled
  \/ FlushBegins \/ FlushEnds

Flusher == TakeBatch \/ PostLands \/ PostLost

Next == Producer \/ Flusher \/ Abandon \/ Finished

Spec == Init /\ [][Next]_vars

(* asyncio keeps running every ready task, a POST ends within the client's *)
(* 30 s timeout and a put within its 1 s one.  Nothing makes the harness   *)
(* append, call flush() or die.                                            *)
Fairness ==
  /\ WF_vars(TakeBatch)
  /\ WF_vars(PostLands \/ PostLost)
  /\ WF_vars(PutSucceeds \/ PutTimesOut)
  /\ WF_vars(FlushEnds)

FairSpec == Spec /\ Fairness

-----------------------------------------------------------------------------
(* Properties.                                                             *)

TypeOK ==
  /\ appended \in Nat
  /\ putting \in Nat
  /\ queue \in Seq(Nat)
  /\ flusher \in {"none", "running", "stopped"}
  /\ batch \in Seq(Nat)
  /\ posted \in Seq(Nat)
  /\ dropped \in Nat
  /\ lost \in Nat
  /\ vanished \in Nat
  /\ stage \in {"open", "joining", "flushed", "abandoned"}
  /\ note \in Nat
  /\ Len(queue) <= QueueSize
  /\ Len(batch) <= BatchSize

Accounted ==
  Len(posted) + Len(batch) + Len(queue) + dropped + lost + vanished
    + (IF putting = 0 THEN 0 ELSE 1)

(* Every event handed to append() is in exactly one place: on the tape, in *)
(* the POST in flight, in the queue, waiting for room, or in one of the    *)
(* three ways to lose it.  None is duplicated and none disappears between  *)
(* the queue, the batch and flush() (session.py:107-125, 169-192, 198-223).*)
Conservation == appended = Accounted

InFlight == posted \o batch \o queue

(* The tape, followed by what is on its way to it, is in the order of the  *)
(* append() calls: back-pressure, failed POSTs and the last sweep of       *)
(* flush() leave gaps but never reorder or repeat an event.                *)
InOrder ==
  /\ \A i, j \in 1..Len(InFlight) : i < j => InFlight[i] < InFlight[j]
  /\ \A i \in 1..Len(InFlight) :
       IF putting = 0 THEN InFlight[i] <= appended ELSE InFlight[i] < putting
  /\ putting <= appended

(* When flush() has returned, nothing is left in the process, so the final *)
(* status the harness then sets comes after every event that will ever be  *)
(* on the tape; the milestone it posted counts exactly the dropped ones.   *)
FlushedIsFinal ==
  stage = "flushed" => /\ queue = <<>> /\ batch = <<>> /\ putting = 0
                       /\ flusher # "running"
                       /\ note \in {0, dropped}

(* flush() returns: the join cannot wait forever on a flusher that is gone *)
(* or on a task_done() nobody calls, even when every POST fails.           *)
FlushTerminates == (stage = "joining") ~> (stage \in {"flushed", "abandoned"})

(* The refinement: what is pending is the batch, the queue and the event   *)
(* that waits for room.                                                    *)
Log == INSTANCE EventLog WITH
         emitted <- appended,
         pending <- batch \o queue \o (IF putting = 0 THEN <<>> ELSE <<putting>>),
         log     <- posted,
         missing <- dropped + lost + vanished,
         isOpen  <- stage \in {"open", "joining"}

(* A session implements the event log of EventLog.tla.                     *)
ImplementsEventLog == Log!Spec
=============================================================================
