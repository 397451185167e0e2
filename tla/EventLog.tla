------------------------------ MODULE EventLog ------------------------------
(***************************************************************************)
(* What a task's event log promises to whoever reads the tape on krewhub,  *)
(* independently of queues, batches and timers.  Events are numbered in    *)
(* the order the harness emitted them.  An event is accepted or refused;   *)
(* accepted events reach the log in order, as whole batches, or are lost   *)
(* as whole batches; a log is closed only when nothing accepted is still   *)
(* on its way.  Session.tla is the detailed specification.                 *)
(***************************************************************************)
EXTENDS Naturals, Sequences, SequencesExt

VARIABLES
  emitted,    \* how many events were emitted so far
  pending,    \* accepted, neither on the tape nor lost
  log,        \* the tape, in the order krewhub numbered it
  missing,    \* how many events will never be on the tape
  isOpen      \* FALSE once the run closed (or abandoned) its log

vars == <<emitted, pending, log, missing, isOpen>>

Init ==
  /\ emitted = 0
  /\ pending = <<>>
  /\ log = <<>>
  /\ missing = 0
  /\ isOpen = TRUE

Accept ==
  /\ isOpen
  /\ emitted' = emitted + 1
  /\ pending' = Append(pending, emitted')
  /\ UNCHANGED <<log, missing, isOpen>>

Refuse ==
  /\ isOpen
  /\ emitted' = emitted + 1
  /\ missing' = missing + 1
  /\ UNCHANGED <<pending, log, isOpen>>

\* The newest accepted event gives up waiting for room.
GiveUp ==
  /\ pending # <<>>
  /\ pending' = Front(pending)
  /\ missing' = missing + 1
  /\ UNCHANGED <<emitted, log, isOpen>>

Publish ==
  /\ \E k \in 1..Len(pending) :
       /\ log' = log \o SubSeq(pending, 1, k)
       /\ pending' = SubSeq(pending, k + 1, Len(pending))
  /\ UNCHANGED <<emitted, missing, isOpen>>

Lose ==
  /\ \E k \in 1..Len(pending) :
       /\ missing' = missing + k
       /\ pending' = SubSeq(pending, k + 1, Len(pending))
  /\ UNCHANGED <<emitted, log, isOpen>>

Close ==
  /\ isOpen
  /\ pending = <<>>
  /\ isOpen' = FALSE
  /\ UNCHANGED <<emitted, pending, log, missing>>

\* The process dies: what was pending is lost, a batch on the wire may land.
Abandon ==
  /\ isOpen
  /\ isOpen' = FALSE
  /\ \E k \in 0..Len(pending) :
       /\ log' = log \o SubSeq(pending, 1, k)
       /\ missing' = missing + (Len(pending) - k)
  /\ pending' = <<>>
  /\ UNCHANGED emitted

Next == Accept \/ Refuse \/ GiveUp \/ Publish \/ Lose \/ Close \/ Abandon

Spec == Init /\ [][Next]_vars
=============================================================================
