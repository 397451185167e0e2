----------------------------- MODULE SessionProofs -----------------------------
(* Theorems about Session and their proofs.                                *)
EXTENDS Session, SequenceTheorems, TLAPS

\* A batch is the front of the queue, no longer than a batch may be.
LEMMA BatchFacts ==
  ASSUME TypeOK, queue # <<>>
  PROVE  /\ BatchLen \in 1..Len(queue)
         /\ BatchLen <= BatchSize
         /\ SubSeq(queue, 1, BatchLen) \in Seq(Nat)
         /\ Len(SubSeq(queue, 1, BatchLen)) = BatchLen
         /\ SubSeq(queue, BatchLen + 1, Len(queue)) \in Seq(Nat)
         /\ Len(SubSeq(queue, BatchLen + 1, Len(queue))) = Len(queue) - BatchLen
<1> USE SessionAssumption DEF SessionAssumption, TypeOK
<1>1. Len(queue) \in Nat \ {0}
  BY EmptySeq
<1>2. BatchLen \in 1..Len(queue) /\ BatchLen <= BatchSize
  BY <1>1 DEF BatchLen
<1>3. /\ SubSeq(queue, 1, BatchLen) \in Seq(Nat)
      /\ Len(SubSeq(queue, 1, BatchLen)) = BatchLen
  BY <1>1, <1>2
<1>4. /\ SubSeq(queue, BatchLen + 1, Len(queue)) \in Seq(Nat)
      /\ Len(SubSeq(queue, BatchLen + 1, Len(queue))) = Len(queue) - BatchLen
  BY <1>1, <1>2
<1> QED BY <1>2, <1>3, <1>4

\* What lands on the tape is a sequence of events, and as long as its parts.
LEMMA Landed ==
  ASSUME TypeOK
  PROVE  /\ posted \o batch \in Seq(Nat) /\ posted \o queue \in Seq(Nat)
         /\ Len(posted \o batch) = Len(posted) + Len(batch)
         /\ Len(posted \o queue) = Len(posted) + Len(queue)
         /\ Len(posted) \in Nat /\ Len(batch) \in Nat /\ Len(queue) \in Nat
<1>1. posted \in Seq(Nat) /\ batch \in Seq(Nat) /\ queue \in Seq(Nat)
  BY DEF TypeOK
<1> QED BY <1>1, ConcatProperties

-----------------------------------------------------------------------------
(* Types.                                                                  *)

LEMMA StepTypes == TypeOK /\ [Next]_vars => TypeOK'
<1> SUFFICES ASSUME TypeOK, [Next]_vars PROVE TypeOK'
  OBVIOUS
<1>l. posted \o queue \in Seq(Nat) /\ posted \o batch \in Seq(Nat)
  BY Landed
<1> USE SessionAssumption DEF SessionAssumption, TypeOK
<1>1. CASE AppendEnqueue
  BY <1>1 DEF AppendEnqueue, AppendBegins, HasRoom
<1>2. CASE AppendDrop
  BY <1>2 DEF AppendDrop, AppendBegins
<1>3. CASE AppendWait
  BY <1>3 DEF AppendWait, AppendBegins
<1>4. CASE PutSucceeds
  BY <1>4 DEF PutSucceeds, HasRoom
<1>5. CASE PutTimesOut \/ PutCancelled
  BY <1>5 DEF PutTimesOut, PutCancelled
<1>6. CASE FlushBegins
  BY <1>6 DEF FlushBegins
<1>7. CASE FlushEnds
  <2>1. posted' = posted \o queue \/ posted' = posted
    BY <1>7 DEF FlushEnds
  <2>2. posted' \in Seq(Nat)
    BY <1>l, <2>1
  <2>3. /\ lost' \in Nat /\ note' \in Nat /\ queue' = <<>> /\ stage' = "flushed"
        /\ flusher' \in {"none", "stopped"}
        /\ UNCHANGED <<appended, putting, batch, dropped, vanished>>
    BY <1>7 DEF FlushEnds
  <2> QED BY <2>2, <2>3
<1>8. CASE TakeBatch
  BY <1>8, BatchFacts DEF TakeBatch
<1>9. CASE PostLands \/ PostLost
  <2>1. posted' = posted \o batch \/ posted' = posted
    BY <1>9 DEF PostLands, PostLost
  <2>2. posted' \in Seq(Nat)
    BY <1>l, <2>1
  <2>3. /\ lost' \in Nat /\ batch' = <<>>
        /\ UNCHANGED <<appended, putting, queue, flusher, dropped, vanished,
                       stage, note>>
    BY <1>9 DEF PostLands, PostLost
  <2> QED BY <2>2, <2>3
<1>10. CASE Abandon
  <2>1. posted' = posted \o batch \/ posted' = posted
    BY <1>10 DEF Abandon
  <2>2. posted' \in Seq(Nat)
    BY <1>l, <2>1
  <2>3. /\ lost' \in Nat /\ vanished' \in Nat /\ stage' = "abandoned"
        /\ queue' = <<>> /\ batch' = <<>> /\ putting' = 0
        /\ flusher' \in {"none", "stopped"}
        /\ UNCHANGED <<appended, dropped, note>>
    BY <1>10 DEF Abandon
  <2> QED BY <2>2, <2>3
<1>11. CASE Finished \/ UNCHANGED vars
  BY <1>11 DEF Finished, vars
<1> QED BY <1>1, <1>2, <1>3, <1>4, <1>5, <1>6, <1>7, <1>8, <1>9, <1>10, <1>11
        DEF Next, Producer, Flusher

(* The queue and a batch never outgrow their limits, and every counter     *)
(* stays a number, for any sizes.                                          *)
THEOREM TypesHold == Spec => []TypeOK
<1>1. Init => TypeOK
  BY SessionAssumption DEF Init, TypeOK, SessionAssumption
<1> QED BY <1>1, StepTypes, PTL DEF Spec

-----------------------------------------------------------------------------
(* Every event is accounted for.                                           *)

Waiting == IF putting = 0 THEN 0 ELSE 1

LEMMA StepConservation == TypeOK /\ Conservation /\ [Next]_vars => Conservation'
<1> SUFFICES ASSUME TypeOK, Conservation, [Next]_vars PROVE Conservation'
  OBVIOUS
<1>l. /\ Len(posted) \in Nat /\ Len(batch) \in Nat /\ Len(queue) \in Nat
      /\ lost \in Nat /\ dropped \in Nat /\ vanished \in Nat
      /\ Waiting \in Nat /\ putting \in Nat /\ appended \in Nat
      /\ appended = Len(posted) + Len(batch) + Len(queue) + dropped + lost
                      + vanished + Waiting
  BY Landed DEF TypeOK, Conservation, Accounted, Waiting
<1>g. Conservation' <=>
        appended' = Len(posted') + Len(batch') + Len(queue') + dropped' + lost'
                      + vanished' + Waiting'
  BY DEF Conservation, Accounted, Waiting
<1>1. CASE AppendEnqueue
  <2>1. Len(queue') = Len(queue) + 1
    BY <1>1 DEF AppendEnqueue, TypeOK
  <2> QED BY <1>1, <1>l, <1>g, <2>1 DEF AppendEnqueue, AppendBegins, Waiting
<1>2. CASE AppendDrop
  BY <1>2, <1>l, <1>g DEF AppendDrop, AppendBegins, Waiting
<1>3. CASE AppendWait
  BY <1>3, <1>l, <1>g DEF AppendWait, AppendBegins, Waiting
<1>4. CASE PutSucceeds
  <2>1. Len(queue') = Len(queue) + 1
    BY <1>4 DEF PutSucceeds, TypeOK
  <2> QED BY <1>4, <1>l, <1>g, <2>1 DEF PutSucceeds, Waiting
<1>5. CASE PutTimesOut \/ PutCancelled
  BY <1>5, <1>l, <1>g DEF PutTimesOut, PutCancelled, Waiting
<1>6. CASE FlushBegins
  BY <1>6, <1>l, <1>g DEF FlushBegins, Waiting
<1>7. CASE FlushEnds
  <2>1. Len(queue') = 0
    BY <1>7 DEF FlushEnds
  <2>2. \/ Len(posted') = Len(posted) + Len(queue) /\ lost' = lost
        \/ Len(posted') = Len(posted) /\ lost' = lost + Len(queue)
    BY <1>7, Landed DEF FlushEnds
  <2>3. /\ appended' = appended /\ batch' = batch /\ dropped' = dropped
        /\ vanished' = vanished /\ Waiting' = Waiting
    BY <1>7 DEF FlushEnds, Waiting
  <2> QED BY <1>l, <1>g, <2>1, <2>2, <2>3
<1>8. CASE TakeBatch
  <2>1. Len(batch') + Len(queue') = Len(queue) /\ Len(batch) = 0
    BY <1>8, <1>l, BatchFacts DEF TakeBatch
  <2>2. /\ appended' = appended /\ posted' = posted /\ dropped' = dropped
        /\ lost' = lost /\ vanished' = vanished /\ Waiting' = Waiting
    BY <1>8 DEF TakeBatch, Waiting
  <2>3. Len(batch') \in Nat /\ Len(queue') \in Nat
    BY <1>8, <1>l, BatchFacts DEF TakeBatch
  <2> QED BY <1>l, <1>g, <2>1, <2>2, <2>3
<1>9. CASE PostLands \/ PostLost
  <2>1. Len(batch') = 0
    BY <1>9 DEF PostLands, PostLost
  <2>2. \/ Len(posted') = Len(posted) + Len(batch) /\ lost' = lost
        \/ Len(posted') = Len(posted) /\ lost' = lost + Len(batch)
    BY <1>9, Landed DEF PostLands, PostLost
  <2>3. /\ appended' = appended /\ queue' = queue /\ dropped' = dropped
        /\ vanished' = vanished /\ Waiting' = Waiting
    BY <1>9 DEF PostLands, PostLost, Waiting
  <2> QED BY <1>l, <1>g, <2>1, <2>2, <2>3
<1>10. CASE Abandon
  <2>1. Len(batch') = 0 /\ Len(queue') = 0
    BY <1>10 DEF Abandon
  <2>2. \/ /\ Len(posted') = Len(posted) + Len(batch)
           /\ lost' = lost + Len(queue)
        \/ /\ Len(posted') = Len(posted)
           /\ lost' = lost + Len(batch) + Len(queue)
    BY <1>10, Landed DEF Abandon
  <2>3. /\ vanished' = vanished + Waiting /\ Waiting' = 0
        /\ appended' = appended /\ dropped' = dropped
    BY <1>10, <1>l DEF Abandon, Waiting
  <2> QED BY <1>l, <1>g, <2>1, <2>2, <2>3
<1>11. CASE Finished \/ UNCHANGED vars
  BY <1>11, <1>l, <1>g DEF Finished, vars, Waiting
<1> QED BY <1>1, <1>2, <1>3, <1>4, <1>5, <1>6, <1>7, <1>8, <1>9, <1>10, <1>11
        DEF Next, Producer, Flusher

(* Whatever times out, fails or is cancelled, every event handed to        *)
(* append() is in one place or is counted in one loss (session.py:107-125, *)
(* 169-192, 198-223).                                                      *)
THEOREM NothingUnaccounted == Spec => []Conservation
<1>1. Init => Conservation
  BY DEF Init, Conservation, Accounted
<1> QED BY <1>1, StepConservation, TypesHold, PTL DEF Spec

-----------------------------------------------------------------------------
(* Sequences of events.                                                    *)

\* A concatenation taken apart where it was put together.
LEMMA ConcatSplits ==
  ASSUME NEW s \in Seq(Nat), NEW t \in Seq(Nat)
  PROVE  /\ SubSeq(s \o t, 1, Len(s)) = s
         /\ SubSeq(s \o t, Len(s) + 1, Len(s \o t)) = t
<1> DEFINE u == s \o t
<1>1. /\ u \in Seq(Nat) /\ Len(u) = Len(s) + Len(t)
      /\ Len(s) \in Nat /\ Len(t) \in Nat
      /\ \A i \in 1..Len(s) + Len(t) : u[i] = IF i <= Len(s) THEN s[i] ELSE t[i - Len(s)]
  BY ConcatProperties, LenProperties
<1> HIDE DEF u
<1>2. \A i \in 1..Len(u) : u[i] \in Nat
  BY <1>1, ElementOfSeq
<1>3. SubSeq(u, 1, Len(s)) = s
  <2>1. /\ SubSeq(u, 1, Len(s)) \in Seq(Nat)
        /\ Len(SubSeq(u, 1, Len(s))) = Len(s)
        /\ \A i \in 1..Len(s) : SubSeq(u, 1, Len(s))[i] = u[i]
    BY <1>1, <1>2, SubSeqProperties
  <2>2. \A i \in 1..Len(s) : SubSeq(u, 1, Len(s))[i] = s[i]
    BY <1>1, <2>1
  <2> QED BY <2>1, <2>2, SeqEqual
<1>4. SubSeq(u, Len(s) + 1, Len(u)) = t
  <2>1. /\ SubSeq(u, Len(s) + 1, Len(u)) \in Seq(Nat)
        /\ Len(SubSeq(u, Len(s) + 1, Len(u))) = Len(t)
        /\ \A i \in 1..Len(t) : SubSeq(u, Len(s) + 1, Len(u))[i] = u[Len(s) + i]
    BY <1>1, <1>2, SubSeqProperties
  <2>2. ASSUME NEW i \in 1..Len(t) PROVE SubSeq(u, Len(s) + 1, Len(u))[i] = t[i]
    <3>1. /\ Len(s) + i \in 1..Len(s) + Len(t) /\ ~(Len(s) + i <= Len(s))
          /\ Len(s) + i - Len(s) = i
      BY <1>1
    <3>2. u[Len(s) + i] = t[i]
      BY <1>1, <3>1
    <3> QED BY <2>1, <3>2
  <2> QED BY <2>1, <2>2, SeqEqual
<1> QED BY <1>3, <1>4 DEF u

\* What was appended last is what Front leaves out.
LEMMA FrontOfAppend ==
  ASSUME NEW s \in Seq(Nat), NEW e \in Nat
  PROVE  Front(Append(s, e)) = s
<1>1. Append(s, e) = s \o <<e>> /\ <<e>> \in Seq(Nat)
  BY AppendIsConcat
<1>2. Len(Append(s, e)) - 1 = Len(s)
  BY AppendProperties, LenProperties
<1> QED BY <1>1, <1>2, ConcatSplits DEF Front

\* Taking a batch off a sequence loses and moves nothing.
LEMMA SplitRejoins ==
  ASSUME NEW s \in Seq(Nat), NEW k \in 1..Len(s)
  PROVE  SubSeq(s, 1, k) \o SubSeq(s, k + 1, Len(s)) = s
<1>1. Len(s) \in Nat /\ 1 \in 1..Len(s) + 1 /\ k \in 1 - 1..Len(s) /\ Len(s) \in k..Len(s)
  BY LenProperties
<1>2. SubSeq(s, 1, k) \o SubSeq(s, k + 1, Len(s)) = SubSeq(s, 1, Len(s))
  BY <1>1, ConcatAdjacentSubSeq
<1> QED BY <1>2, SubSeqFull

Increasing(s) == \A i, j \in 1..Len(s) : i < j => s[i] < s[j]

AllBelow(s, n) == \A i \in 1..Len(s) : s[i] < n

\* A concatenation is in order when its parts are, one after the other.
LEMMA ConcatIncreasing ==
  ASSUME NEW s \in Seq(Nat), NEW t \in Seq(Nat)
  PROVE  Increasing(s \o t) <=> /\ Increasing(s) /\ Increasing(t)
                               /\ \A j \in 1..Len(t) : AllBelow(s, t[j])
<1> DEFINE u == s \o t
<1>1. /\ u \in Seq(Nat) /\ Len(u) = Len(s) + Len(t)
      /\ Len(s) \in Nat /\ Len(t) \in Nat
      /\ \A i \in 1..Len(s) + Len(t) : u[i] = IF i <= Len(s) THEN s[i] ELSE t[i - Len(s)]
  BY ConcatProperties, LenProperties
<1> HIDE DEF u
<1>2. \A i \in 1..Len(s) : i \in 1..Len(u) /\ u[i] = s[i]
  BY <1>1
<1>3. ASSUME NEW j \in 1..Len(t)
      PROVE  Len(s) + j \in 1..Len(u) /\ u[Len(s) + j] = t[j]
  <2>1. /\ Len(s) + j \in 1..Len(s) + Len(t) /\ ~(Len(s) + j <= Len(s))
        /\ Len(s) + j - Len(s) = j
    BY <1>1
  <2> QED BY <1>1, <2>1
<1>4. ASSUME Increasing(u)
      PROVE  Increasing(s) /\ Increasing(t) /\ \A j \in 1..Len(t) : AllBelow(s, t[j])
  <2>1. Increasing(s)
    BY <1>2, <1>4 DEF Increasing
  <2>2. Increasing(t)
    <3> SUFFICES ASSUME NEW i \in 1..Len(t), NEW j \in 1..Len(t), i < j PROVE t[i] < t[j]
      BY DEF Increasing
    <3>1. Len(s) + i < Len(s) + j
      BY <1>1
    <3> QED BY <1>3, <1>4, <3>1 DEF Increasing
  <2>3. ASSUME NEW j \in 1..Len(t), NEW i \in 1..Len(s) PROVE s[i] < t[j]
    <3>1. i < Len(s) + j
      BY <1>1
    <3> QED BY <1>2, <1>3, <1>4, <3>1 DEF Increasing
  <2> QED BY <2>1, <2>2, <2>3 DEF AllBelow
<1>5. ASSUME Increasing(s), Increasing(t), \A j \in 1..Len(t) : AllBelow(s, t[j])
      PROVE  Increasing(u)
  <2> SUFFICES ASSUME NEW i \in 1..Len(u), NEW j \in 1..Len(u), i < j PROVE u[i] < u[j]
    BY DEF Increasing
  <2>1. CASE j <= Len(s)
    <3>1. i \in 1..Len(s) /\ j \in 1..Len(s)
      BY <1>1, <2>1
    <3> QED BY <1>2, <1>5, <3>1 DEF Increasing
  <2>2. CASE i <= Len(s) /\ ~(j <= Len(s))
    <3>1. i \in 1..Len(s) /\ j - Len(s) \in 1..Len(t) /\ u[j] = t[j - Len(s)] /\ u[i] = s[i]
      BY <1>1, <2>2
    <3> QED BY <1>5, <3>1 DEF AllBelow
  <2>3. CASE ~(i <= Len(s))
    <3>1. /\ i - Len(s) \in 1..Len(t) /\ j - Len(s) \in 1..Len(t) /\ i - Len(s) < j - Len(s)
          /\ u[i] = t[i - Len(s)] /\ u[j] = t[j - Len(s)]
      BY <1>1, <2>3
    <3> QED BY <1>5, <3>1 DEF Increasing
  <2> QED BY <1>1, <2>1, <2>2, <2>3
<1> QED BY <1>4, <1>5 DEF u

LEMMA ConcatBelow ==
  ASSUME NEW s \in Seq(Nat), NEW t \in Seq(Nat), NEW n \in Nat
  PROVE  AllBelow(s \o t, n) <=> AllBelow(s, n) /\ AllBelow(t, n)
<1> DEFINE u == s \o t
<1>1. /\ u \in Seq(Nat) /\ Len(u) = Len(s) + Len(t)
      /\ Len(s) \in Nat /\ Len(t) \in Nat
      /\ \A i \in 1..Len(s) + Len(t) : u[i] = IF i <= Len(s) THEN s[i] ELSE t[i - Len(s)]
  BY ConcatProperties, LenProperties
<1> HIDE DEF u
<1>2. ASSUME NEW i \in 1..Len(s) PROVE i \in 1..Len(u) /\ u[i] = s[i]
  <2>1. i \in 1..Len(s) + Len(t) /\ i <= Len(s)
    BY <1>1
  <2> QED BY <1>1, <2>1
<1>3. ASSUME NEW j \in 1..Len(t)
      PROVE  Len(s) + j \in 1..Len(u) /\ u[Len(s) + j] = t[j]
  <2>1. /\ Len(s) + j \in 1..Len(s) + Len(t) /\ ~(Len(s) + j <= Len(s))
        /\ Len(s) + j - Len(s) = j
    BY <1>1
  <2> QED BY <1>1, <2>1
<1>4. ASSUME AllBelow(u, n) PROVE AllBelow(s, n) /\ AllBelow(t, n)
  BY <1>2, <1>3, <1>4 DEF AllBelow
<1>5. ASSUME AllBelow(s, n), AllBelow(t, n) PROVE AllBelow(u, n)
  <2> SUFFICES ASSUME NEW i \in 1..Len(u) PROVE u[i] < n
    BY DEF AllBelow
  <2>1. i \in 1..Len(s) \/ i - Len(s) \in 1..Len(t)
    BY <1>1
  <2>2. u[i] = IF i <= Len(s) THEN s[i] ELSE t[i - Len(s)]
    BY <1>1
  <2> QED BY <1>1, <1>5, <2>1, <2>2 DEF AllBelow
<1> QED BY <1>4, <1>5 DEF u

\* Leaving out the middle of a sequence leaves a gap and no disorder.
LEMMA GapKeepsOrder ==
  ASSUME NEW s \in Seq(Nat), NEW t \in Seq(Nat), NEW u \in Seq(Nat), NEW n \in Nat,
         Increasing(s \o t \o u), AllBelow(s \o t \o u, n)
  PROVE  Increasing(s \o u) /\ AllBelow(s \o u, n)
<1>1. s \o t \in Seq(Nat)
  BY ConcatProperties
<1>2. /\ Increasing(s \o t) /\ Increasing(u)
      /\ \A j \in 1..Len(u) : AllBelow(s \o t, u[j])
  BY <1>1, ConcatIncreasing
<1>3. \A j \in 1..Len(u) : u[j] \in Nat /\ AllBelow(s, u[j])
  BY <1>2, ConcatBelow, ElementOfSeq
<1>4. Increasing(s)
  BY <1>2, ConcatIncreasing
<1>5. AllBelow(s, n) /\ AllBelow(u, n)
  BY <1>1, ConcatBelow
<1> QED BY <1>2, <1>3, <1>4, <1>5, ConcatIncreasing, ConcatBelow

\* An event above all others goes at the end.
LEMMA AppendKeepsOrder ==
  ASSUME NEW s \in Seq(Nat), NEW e \in Nat, Increasing(s), AllBelow(s, e)
  PROVE  Increasing(Append(s, e)) /\ AllBelow(Append(s, e), e + 1)
<1>1. Append(s, e) = s \o <<e>> /\ <<e>> \in Seq(Nat) /\ Len(<<e>>) = 1 /\ <<e>>[1] = e
  BY AppendIsConcat
<1>2. Increasing(<<e>>)
  BY <1>1 DEF Increasing
<1>3. AllBelow(<<e>>, e + 1)
  BY <1>1 DEF AllBelow
<1>4. AllBelow(s, e + 1)
  BY ElementOfSeq DEF AllBelow
<1>5. \A j \in 1..Len(<<e>>) : AllBelow(s, <<e>>[j])
  BY <1>1
<1>6. Increasing(s \o <<e>>)
  BY <1>1, <1>2, <1>5, ConcatIncreasing
<1>7. AllBelow(s \o <<e>>, e + 1)
  <2>1. e + 1 \in Nat
    OBVIOUS
  <2> HIDE DEF AllBelow
  <2> QED BY <1>1, <1>3, <1>4, <2>1, ConcatBelow
<1> QED BY <1>1, <1>6, <1>7

-----------------------------------------------------------------------------
(* After flush().                                                          *)

\* FlushedIsFinal is not inductive: while flush() waits nobody appends, and a
\* session that never had a flusher never had an event in its queue.
Quiet ==
  /\ flusher = "none" => queue = <<>> /\ batch = <<>> /\ putting = 0
  /\ stage # "open" => putting = 0
  /\ stage \in {"flushed", "abandoned"} => queue = <<>> /\ batch = <<>> /\ flusher # "running"
  /\ IF stage = "flushed" THEN note \in {0, dropped} ELSE note = 0

LEMMA StepQuiet ==
  ASSUME TypeOK, Quiet, [Next]_vars
  PROVE  Quiet'
<1> USE DEF Quiet
<1>1. CASE AppendEnqueue \/ AppendDrop \/ AppendWait
  BY <1>1 DEF AppendEnqueue, AppendDrop, AppendWait, AppendBegins
<1>2. CASE PutSucceeds \/ PutTimesOut \/ PutCancelled
  <2>1. putting # 0 /\ putting' = 0 /\ UNCHANGED <<flusher, batch, stage, note>>
    BY <1>2 DEF PutSucceeds, PutTimesOut, PutCancelled
  <2>2. stage = "open"
    BY <2>1
  <2>3. flusher # "none"
    BY <2>1
  <2> QED BY <2>1, <2>2, <2>3
<1>3. CASE FlushBegins
  BY <1>3 DEF FlushBegins
<1>4. CASE FlushEnds
  <2>1. batch = <<>>
    BY <1>4 DEF FlushEnds, Joined
  <2> QED BY <1>4, <2>1 DEF FlushEnds, TypeOK
<1>5. CASE TakeBatch \/ PostLands \/ PostLost
  BY <1>5 DEF TakeBatch, PostLands, PostLost
<1>6. CASE Abandon
  BY <1>6 DEF Abandon, TypeOK
<1>7. CASE Finished \/ UNCHANGED vars
  BY <1>7 DEF Finished, vars
<1> QED BY <1>1, <1>2, <1>3, <1>4, <1>5, <1>6, <1>7 DEF Next, Producer, Flusher

LEMMA QuietHolds == Spec => []Quiet
<1>1. Init => Quiet
  BY DEF Init, Quiet
<1>2. TypeOK /\ Quiet /\ [Next]_vars => Quiet'
  BY StepQuiet
<1> QED BY TypesHold, <1>1, <1>2, PTL DEF Spec

(* When flush() has returned nothing is left in the process, and the       *)
(* milestone counts the dropped events (session.py:131-167, 194-223): no   *)
(* step of the flusher or of an append is possible after it.               *)
THEOREM FlushIsFinal == Spec => []FlushedIsFinal
<1>1. Quiet => FlushedIsFinal
  BY DEF Quiet, FlushedIsFinal
<1> QED BY QuietHolds, <1>1, PTL

-----------------------------------------------------------------------------
(* flush() gets through its join: the part of FlushTerminates that does    *)
(* not speak of fairness.                                                  *)

\* A flush that joins can end, or a POST is on its way that can, or the flusher
\* is there to take the next batch.
JoinCanGoOn ==
  stage = "joining" =>
    Joined \/ batch # <<>> \/ (flusher = "running" /\ queue # <<>>)

\* What is left to do while flush() joins: each batch is taken, then posted.
JoinVariant == 2 * Len(queue) + (IF batch = <<>> THEN 0 ELSE 1)

JoinAdvances ==
  [][stage = "joining" /\ stage' = "joining" => JoinVariant' < JoinVariant]_vars

\* While a session is not over its flusher has not been stopped.
FlusherStays == stage \in {"open", "joining"} => flusher # "stopped"

LEMMA StepFlusher ==
  ASSUME TypeOK, FlusherStays, [Next]_vars
  PROVE  FlusherStays'
BY DEF FlusherStays, TypeOK, Next, Producer, Flusher, AppendEnqueue, AppendDrop,
       AppendWait, AppendBegins, PutSucceeds, PutTimesOut, PutCancelled,
       FlushBegins, FlushEnds, TakeBatch, PostLands, PostLost, Abandon, Finished, vars

\* While flush() joins nobody appends and nothing waits for room, so all that
\* happens is that the flusher takes a batch or a POST ends.
LEMMA StepJoins ==
  ASSUME TypeOK, Quiet, Next, stage = "joining", stage' = "joining"
  PROVE  JoinVariant' < JoinVariant
<1>1. putting = 0
  BY DEF Quiet
<1>2. TakeBatch \/ PostLands \/ PostLost
  BY <1>1 DEF Next, Producer, Flusher, AppendEnqueue, AppendDrop, AppendWait,
              AppendBegins, PutSucceeds, PutTimesOut, PutCancelled, FlushBegins,
              FlushEnds, Abandon, Finished
<1>3. Len(queue) \in Nat
  BY DEF TypeOK
<1>4. CASE TakeBatch
  <2>1. BatchLen \in 1..Len(queue) /\ Len(queue') = Len(queue) - BatchLen
    BY <1>4, BatchFacts DEF TakeBatch
  <2>2. batch = <<>>
    BY <1>4 DEF TakeBatch
  <2> QED BY <1>3, <2>1, <2>2 DEF JoinVariant
<1>5. CASE PostLands \/ PostLost
  <2>1. batch # <<>> /\ batch' = <<>> /\ queue' = queue
    BY <1>5 DEF PostLands, PostLost
  <2> QED BY <1>3, <2>1 DEF JoinVariant
<1> QED BY <1>2, <1>4, <1>5

(* The join of a flush never waits for nothing: there is always a flusher  *)
(* to take what is queued, or a POST to wait for, or it is over; and every *)
(* step brings it nearer, also when POSTs fail, because task_done() is     *)
(* called in a `finally` (session.py:221-223) and append() refuses once    *)
(* flush() has begun (session.py:91).   Fairness of the flusher is all     *)
(* that FlushTerminates adds.                                              *)
THEOREM JoinGetsThrough == Spec => []JoinCanGoOn /\ JoinAdvances
<1>1. Init => FlusherStays
  BY DEF Init, FlusherStays
<1>2. TypeOK /\ FlusherStays /\ [Next]_vars => FlusherStays'
  BY StepFlusher
<1>3. TypeOK /\ FlusherStays => JoinCanGoOn
  BY DEF TypeOK, FlusherStays, JoinCanGoOn, Joined
<1>4. TypeOK /\ Quiet /\ [Next]_vars
        => [stage = "joining" /\ stage' = "joining" => JoinVariant' < JoinVariant]_vars
  BY StepJoins
<1> QED BY TypesHold, QuietHolds, <1>1, <1>2, <1>3, <1>4, PTL DEF Spec, JoinAdvances

-----------------------------------------------------------------------------
(* The order of the tape.                                                  *)

\* Below what every event on its way is.
Bound == IF putting = 0 THEN appended + 1 ELSE putting

Ordered ==
  /\ Increasing(InFlight)
  /\ AllBelow(InFlight, Bound)
  /\ putting <= appended

LEMMA OrderedIsInOrder == TypeOK => (Ordered <=> InOrder)
<1> SUFFICES ASSUME TypeOK PROVE Ordered <=> InOrder
  OBVIOUS
<1>1. InFlight \in Seq(Nat)
  BY Landed, ConcatProperties DEF TypeOK, InFlight
<1>2. \A i \in 1..Len(InFlight) : InFlight[i] \in Nat
  BY <1>1, ElementOfSeq
<1>3. AllBelow(InFlight, Bound) <=>
        \A i \in 1..Len(InFlight) :
          IF putting = 0 THEN InFlight[i] <= appended ELSE InFlight[i] < putting
  BY <1>2 DEF AllBelow, Bound, TypeOK
<1> QED BY <1>3 DEF Ordered, InOrder, Increasing

\* An event that joins the queue comes last of what is in flight.
LEMMA EnqueueIsLast ==
  ASSUME TypeOK, NEW e \in Nat
  PROVE  posted \o batch \o Append(queue, e) = Append(InFlight, e)
<1>1. posted \in Seq(Nat) /\ batch \in Seq(Nat) /\ queue \in Seq(Nat) /\ <<e>> \in Seq(Nat)
  BY DEF TypeOK
<1>2. posted \o batch \in Seq(Nat) /\ InFlight \in Seq(Nat)
  BY <1>1, ConcatProperties DEF InFlight
<1>3. Append(queue, e) = queue \o <<e>> /\ Append(InFlight, e) = InFlight \o <<e>>
  BY <1>1, <1>2, AppendIsConcat
<1>4. ((posted \o batch) \o queue) \o <<e>> = (posted \o batch) \o (queue \o <<e>>)
  <2>1. \A s, t, u \in Seq(Nat) : (s \o t) \o u = s \o (t \o u)
    BY ConcatAssociative
  <2> QED BY <1>1, <1>2, <2>1, Zenon
<1> QED BY <1>3, <1>4 DEF InFlight

LEMMA StepOrdered ==
  ASSUME TypeOK, Quiet, Ordered, [Next]_vars
  PROVE  Ordered'
<1>l. /\ posted \in Seq(Nat) /\ batch \in Seq(Nat) /\ queue \in Seq(Nat)
      /\ posted \o batch \in Seq(Nat) /\ InFlight \in Seq(Nat)
      /\ putting \in Nat /\ appended \in Nat /\ Bound \in Nat
  BY Landed, ConcatProperties DEF TypeOK, InFlight, Bound
<1>w. ASSUME InFlight' = InFlight, Bound' \in Nat, Bound <= Bound', putting' <= appended'
      PROVE  Ordered'
  <2>1. \A i \in 1..Len(InFlight) : InFlight[i] \in Nat
    BY <1>l, ElementOfSeq
  <2>2. AllBelow(InFlight, Bound')
    BY <1>l, <1>w, <2>1 DEF Ordered, AllBelow
  <2> QED BY <1>w, <2>2 DEF Ordered, AllBelow, Increasing
<1>1. CASE AppendEnqueue
  <2>1. /\ putting = 0 /\ putting' = 0 /\ appended' = appended + 1
        /\ queue' = Append(queue, appended + 1) /\ posted' = posted /\ batch' = batch
    BY <1>1 DEF AppendEnqueue, AppendBegins
  <2>2. Bound = appended + 1 /\ Bound' = (appended + 1) + 1 /\ appended + 1 \in Nat
    BY <1>l, <2>1 DEF Bound
  <2>3. InFlight' = Append(InFlight, appended + 1)
    BY <2>1, <2>2, EnqueueIsLast DEF InFlight
  <2>4. Increasing(InFlight') /\ AllBelow(InFlight', Bound')
    BY <1>l, <2>2, <2>3, AppendKeepsOrder DEF Ordered
  <2> QED BY <1>l, <2>1, <2>4 DEF Ordered
<1>2. CASE AppendDrop \/ AppendWait
  <2>1. /\ putting = 0 /\ putting' \in {0, appended + 1} /\ appended' = appended + 1
        /\ InFlight' = InFlight
    BY <1>2 DEF AppendDrop, AppendWait, AppendBegins, InFlight
  <2>2. Bound' \in Nat /\ Bound <= Bound' /\ putting' <= appended'
    BY <1>l, <2>1 DEF Bound
  <2> QED BY <1>w, <2>1, <2>2
<1>3. CASE PutSucceeds
  <2>1. /\ putting # 0 /\ putting' = 0 /\ appended' = appended
        /\ queue' = Append(queue, putting) /\ posted' = posted /\ batch' = batch
    BY <1>3 DEF PutSucceeds
  <2>2. Bound = putting /\ Bound' = appended + 1 /\ putting + 1 <= appended + 1
    BY <1>l, <2>1 DEF Bound, Ordered
  <2>3. InFlight' = Append(InFlight, putting)
    BY <1>l, <2>1, EnqueueIsLast DEF InFlight
  <2>4. Increasing(InFlight') /\ AllBelow(InFlight', putting + 1)
    BY <1>l, <2>2, <2>3, AppendKeepsOrder DEF Ordered
  <2>5. InFlight' \in Seq(Nat)
    BY <1>l, <2>3, AppendProperties
  <2>6. AllBelow(InFlight', Bound')
    <3>1. \A i \in 1..Len(InFlight') : InFlight'[i] \in Nat
      BY <2>5, ElementOfSeq
    <3> QED BY <1>l, <2>2, <2>4, <3>1 DEF AllBelow
  <2> QED BY <1>l, <2>1, <2>4, <2>6 DEF Ordered
<1>4. CASE PutTimesOut \/ PutCancelled
  <2>1. putting # 0 /\ putting' = 0 /\ appended' = appended /\ InFlight' = InFlight
    BY <1>4 DEF PutTimesOut, PutCancelled, InFlight
  <2>2. Bound' \in Nat /\ Bound <= Bound' /\ putting' <= appended'
    BY <1>l, <2>1 DEF Bound, Ordered
  <2> QED BY <1>w, <2>1, <2>2
<1>5. CASE FlushBegins \/ Finished \/ UNCHANGED vars
  <2>1. UNCHANGED <<posted, batch, queue, putting, appended>>
    BY <1>5 DEF FlushBegins, Finished, vars
  <2>2. InFlight' = InFlight /\ Bound' = Bound
    BY <2>1 DEF InFlight, Bound
  <2> QED BY <1>l, <1>w, <2>1, <2>2 DEF Ordered
<1>6. CASE TakeBatch
  <2>1. /\ batch = <<>> /\ queue # <<>> /\ UNCHANGED <<posted, putting, appended>>
        /\ batch' = SubSeq(queue, 1, BatchLen)
        /\ queue' = SubSeq(queue, BatchLen + 1, Len(queue))
    BY <1>6 DEF TakeBatch
  <2>2. /\ batch' \in Seq(Nat) /\ queue' \in Seq(Nat) /\ batch' \o queue' = queue
    BY <1>l, <2>1, BatchFacts, SplitRejoins
  <2>3. InFlight' = posted \o queue
    <3> DEFINE b == batch'
               q == queue'
    <3>1. (posted \o b) \o q = posted \o (b \o q)
      <4>1. posted \in Seq(Nat) /\ b \in Seq(Nat) /\ q \in Seq(Nat)
        BY <1>l, <2>2
      <4> HIDE DEF b, q
      <4>2. \A s, t, u \in Seq(Nat) : (s \o t) \o u = s \o (t \o u)
        BY ConcatAssociative
      <4> QED BY <4>1, <4>2, Zenon
    <3> QED BY <2>1, <2>2, <3>1 DEF InFlight
  <2>4. InFlight = posted \o queue
    BY <1>l, <2>1, ConcatEmptySeq DEF InFlight
  <2>5. Bound' = Bound
    BY <2>1 DEF Bound
  <2> QED BY <1>l, <1>w, <2>1, <2>3, <2>4, <2>5 DEF Ordered
<1>7. CASE PostLands
  <2>1. posted' = posted \o batch /\ batch' = <<>> /\ UNCHANGED <<queue, putting, appended>>
    BY <1>7 DEF PostLands
  <2>2. InFlight' = InFlight
    BY <1>l, <2>1, ConcatEmptySeq DEF InFlight
  <2>3. Bound' = Bound
    BY <2>1 DEF Bound
  <2> QED BY <1>l, <1>w, <2>1, <2>2, <2>3 DEF Ordered
<1>8. CASE PostLost
  <2>1. batch' = <<>> /\ UNCHANGED <<posted, queue, putting, appended>>
    BY <1>8 DEF PostLost
  <2>2. InFlight' = posted \o queue
    BY <1>l, <2>1, ConcatEmptySeq DEF InFlight
  <2>3. Bound' = Bound
    BY <2>1 DEF Bound
  <2>4. Increasing(posted \o queue) /\ AllBelow(posted \o queue, Bound)
    BY <1>l, GapKeepsOrder DEF Ordered, InFlight
  <2> QED BY <2>1, <2>2, <2>3, <2>4 DEF Ordered
<1>9. CASE FlushEnds \/ Abandon
  <2>1. /\ batch' = <<>> /\ queue' = <<>>
        /\ posted' \in {posted, posted \o batch} \/ (posted' = posted \o queue /\ batch = <<>>)
    <3>1. CASE FlushEnds
      <4>1. batch = <<>> /\ batch' = batch /\ queue' = <<>>
        BY <3>1 DEF FlushEnds, Joined, Quiet
      <4>2. posted' = posted \/ posted' = posted \o queue
        BY <3>1 DEF FlushEnds
      <4> QED BY <4>1, <4>2
    <3>2. CASE Abandon
      <4>1. batch' = <<>> /\ queue' = <<>>
        BY <3>2 DEF Abandon
      <4>2. posted' = posted \/ posted' = posted \o batch
        BY <3>2 DEF Abandon
      <4> QED BY <4>1, <4>2
    <3> QED BY <1>9, <3>1, <3>2
  <2>2. putting' = 0 /\ appended' = appended
    BY <1>9 DEF FlushEnds, Abandon, Quiet
  <2>3. InFlight' = posted'
    <3>1. posted' \in Seq(Nat)
      BY <1>l, <2>1, ConcatProperties
    <3> QED BY <2>1, <3>1, ConcatEmptySeq DEF InFlight
  <2>4. /\ Increasing(posted \o batch) /\ AllBelow(posted \o batch, Bound)
        /\ Increasing(posted) /\ AllBelow(posted, Bound)
    <3>1. Increasing((posted \o batch) \o queue) /\ AllBelow((posted \o batch) \o queue, Bound)
      BY DEF Ordered, InFlight
    <3>2. Increasing(posted \o batch) /\ AllBelow(posted \o batch, Bound)
      BY <1>l, <3>1, ConcatIncreasing, ConcatBelow
    <3>3. Increasing(posted) /\ AllBelow(posted, Bound)
      BY <1>l, <3>2, ConcatIncreasing, ConcatBelow
    <3> QED BY <3>2, <3>3
  <2>5. Increasing(posted') /\ AllBelow(posted', Bound)
    <3>1. CASE posted' \in {posted, posted \o batch}
      BY <2>4, <3>1
    <3>2. CASE posted' = posted \o queue /\ batch = <<>>
      <4>1. InFlight = posted \o queue
        BY <1>l, <3>2, ConcatEmptySeq DEF InFlight
      <4> QED BY <3>2, <4>1 DEF Ordered
    <3> QED BY <2>1, <3>1, <3>2
  <2>6. AllBelow(posted', Bound')
    <3>1. Bound <= Bound' /\ Bound' \in Nat
      BY <1>l, <2>2 DEF Bound, Ordered
    <3>2. posted' \in Seq(Nat)
      BY <1>l, <2>1, ConcatProperties
    <3>3. \A i \in 1..Len(posted') : posted'[i] \in Nat
      BY <3>2, ElementOfSeq
    <3> QED BY <1>l, <2>5, <3>1, <3>3 DEF AllBelow
  <2> QED BY <1>l, <2>2, <2>3, <2>5, <2>6 DEF Ordered
<1> QED BY <1>1, <1>2, <1>3, <1>4, <1>5, <1>6, <1>7, <1>8, <1>9
        DEF Next, Producer, Flusher

(* The tape, and what is on its way to it, is in the order of the append() *)
(* calls, for any sizes and any number of events: back-pressure, failed    *)
(* POSTs, the last sweep of flush() and the end of the daemon leave gaps   *)
(* but neither reorder nor repeat (session.py:107-125, 169-223).           *)
THEOREM TapeIsInOrder == Spec => []InOrder
<1>1. Init => Ordered
  <2> SUFFICES ASSUME Init PROVE Ordered
    OBVIOUS
  <2>1. InFlight = <<>> /\ Len(<<>>) = 0
    BY DEF Init, InFlight
  <2> QED BY <2>1 DEF Init, Ordered, Increasing, AllBelow
<1>2. TypeOK /\ Quiet /\ Ordered /\ [Next]_vars => Ordered'
  BY StepOrdered
<1> QED BY <1>1, <1>2, TypesHold, QuietHolds, OrderedIsInOrder, PTL DEF Spec

-----------------------------------------------------------------------------
(* A session implements the event log.                                     *)

\* The abstract log's variables, as Session's INSTANCE gives them.
WaitingSeq == IF putting = 0 THEN <<>> ELSE <<putting>>
Pending == batch \o queue \o WaitingSeq
Missing == dropped + lost + vanished
IsOpen  == stage \in {"open", "joining"}

LEMMA PendingFacts ==
  ASSUME TypeOK
  PROVE  /\ batch \in Seq(Nat) /\ queue \in Seq(Nat) /\ posted \in Seq(Nat)
         /\ WaitingSeq \in Seq(Nat)
         /\ batch \o queue \in Seq(Nat) /\ queue \o WaitingSeq \in Seq(Nat)
         /\ Pending \in Seq(Nat)
         /\ Pending = batch \o (queue \o WaitingSeq)
         /\ Len(batch) \in Nat /\ Len(queue) \in Nat
         /\ Len(Pending) = Len(batch) + Len(queue) + (IF putting = 0 THEN 0 ELSE 1)
<1>1. batch \in Seq(Nat) /\ queue \in Seq(Nat) /\ posted \in Seq(Nat) /\ WaitingSeq \in Seq(Nat)
  BY DEF TypeOK, WaitingSeq
<1>2. batch \o queue \in Seq(Nat) /\ queue \o WaitingSeq \in Seq(Nat)
  BY <1>1, ConcatProperties
<1>3. Pending \in Seq(Nat)
  BY <1>1, <1>2, ConcatProperties DEF Pending
<1>4. Pending = batch \o (queue \o WaitingSeq)
  BY <1>1, ConcatAssociative DEF Pending
<1>5. Len(WaitingSeq) = IF putting = 0 THEN 0 ELSE 1
  BY DEF WaitingSeq
<1>6. Len(batch \o queue) = Len(batch) + Len(queue) /\ Len(batch) \in Nat /\ Len(queue) \in Nat
  BY <1>1, ConcatProperties, LenProperties
<1>7. Len(Pending) = Len(batch \o queue) + Len(WaitingSeq)
  BY <1>1, <1>2, ConcatProperties DEF Pending
<1> QED BY <1>1, <1>2, <1>3, <1>4, <1>5, <1>6, <1>7

\* What each step of the abstract log asks of a step of the session.
LEMMA AbstractAccept ==
  ASSUME IsOpen, appended' = appended + 1, Pending' = Append(Pending, appended'),
         posted' = posted, Missing' = Missing, IsOpen' <=> IsOpen
  PROVE  Log!Next
BY DEF Log!Next, Log!Accept, Pending, WaitingSeq, Missing, IsOpen

LEMMA AbstractRefuse ==
  ASSUME IsOpen, appended' = appended + 1, Pending' = Pending,
         posted' = posted, Missing' = Missing + 1, IsOpen' <=> IsOpen
  PROVE  Log!Next
BY DEF Log!Next, Log!Refuse, Pending, WaitingSeq, Missing, IsOpen

LEMMA AbstractGiveUp ==
  ASSUME Pending # <<>>, appended' = appended, Pending' = Front(Pending),
         posted' = posted, Missing' = Missing + 1, IsOpen' <=> IsOpen
  PROVE  Log!Next
BY DEF Log!Next, Log!GiveUp, Front, Log!Front, Pending, WaitingSeq, Missing, IsOpen

LEMMA AbstractPublish ==
  ASSUME NEW k \in 1..Len(Pending), posted' = posted \o SubSeq(Pending, 1, k),
         Pending' = SubSeq(Pending, k + 1, Len(Pending)),
         appended' = appended, Missing' = Missing, IsOpen' <=> IsOpen
  PROVE  Log!Next
<1>1. \E j \in 1..Len(Pending) : /\ posted' = posted \o SubSeq(Pending, 1, j)
                                 /\ Pending' = SubSeq(Pending, j + 1, Len(Pending))
  OBVIOUS
<1>2. UNCHANGED Missing /\ UNCHANGED IsOpen /\ UNCHANGED appended
  OBVIOUS
<1>3. Log!Publish
  BY <1>1, <1>2, Zenon DEF Log!Publish, Pending, WaitingSeq, Missing, IsOpen
<1> QED BY <1>3 DEF Log!Next

LEMMA AbstractLose ==
  ASSUME NEW k \in 1..Len(Pending), Missing' = Missing + k,
         Pending' = SubSeq(Pending, k + 1, Len(Pending)),
         appended' = appended, posted' = posted, IsOpen' <=> IsOpen
  PROVE  Log!Next
<1>1. \E j \in 1..Len(Pending) : /\ Missing' = Missing + j
                                 /\ Pending' = SubSeq(Pending, j + 1, Len(Pending))
  OBVIOUS
<1>2. IsOpen' = IsOpen
  BY DEF IsOpen
<1>3. Log!Lose
  BY <1>1, <1>2, Zenon DEF Log!Lose, Pending, WaitingSeq, Missing, IsOpen
<1> QED BY <1>3 DEF Log!Next

LEMMA AbstractClose ==
  ASSUME IsOpen, ~IsOpen', Pending = <<>>, Pending' = <<>>,
         appended' = appended, posted' = posted, Missing' = Missing
  PROVE  Log!Next
BY DEF Log!Next, Log!Close, Pending, WaitingSeq, Missing, IsOpen

LEMMA AbstractAbandon ==
  ASSUME IsOpen, ~IsOpen', NEW k \in 0..Len(Pending),
         posted' = posted \o SubSeq(Pending, 1, k),
         Missing' = Missing + (Len(Pending) - k),
         Pending' = <<>>, appended' = appended
  PROVE  Log!Next
<1>1. \E j \in 0..Len(Pending) : /\ posted' = posted \o SubSeq(Pending, 1, j)
                                 /\ Missing' = Missing + (Len(Pending) - j)
  OBVIOUS
<1>2. IsOpen' = FALSE
  OBVIOUS
<1>3. Log!Abandon
  BY <1>1, <1>2, Zenon DEF Log!Abandon, Pending, WaitingSeq, Missing, IsOpen
<1> QED BY <1>3 DEF Log!Next

LEMMA AbstractStutter ==
  ASSUME appended' = appended, Pending' = Pending, posted' = posted,
         Missing' = Missing, IsOpen' <=> IsOpen
  PROVE  UNCHANGED Log!vars
BY DEF Log!vars, Pending, WaitingSeq, Missing, IsOpen

\* The steps of append().
LEMMA AppendImplements ==
  ASSUME TypeOK, AppendEnqueue \/ AppendDrop \/ AppendWait
  PROVE  Log!Next
<1>l. /\ batch \in Seq(Nat) /\ queue \in Seq(Nat) /\ batch \o queue \in Seq(Nat)
      /\ appended \in Nat /\ dropped \in Nat /\ lost \in Nat /\ vanished \in Nat
  BY PendingFacts DEF TypeOK
<1>1. /\ putting = 0 /\ IsOpen /\ (IsOpen' <=> IsOpen) /\ appended' = appended + 1
      /\ appended + 1 \in Nat /\ appended + 1 # 0
      /\ UNCHANGED <<batch, posted, lost, vanished>>
  BY <1>l DEF AppendEnqueue, AppendDrop, AppendWait, AppendBegins, IsOpen
<1>2. Pending = batch \o queue
  BY <1>l, <1>1, ConcatEmptySeq DEF Pending, WaitingSeq
<1>3. CASE AppendEnqueue
  <2>1. queue' = Append(queue, appended') /\ putting' = 0 /\ dropped' = dropped
    BY <1>3, <1>1 DEF AppendEnqueue
  <2>2. queue' = queue \o <<appended'>> /\ <<appended'>> \in Seq(Nat)
    BY <1>l, <1>1, <2>1, AppendIsConcat
  <2>3. Pending' = batch \o queue'
    <3>1. batch \o queue' \in Seq(Nat)
      BY <1>l, <2>2, ConcatProperties
    <3> QED BY <1>1, <2>1, <3>1, ConcatEmptySeq DEF Pending, WaitingSeq
  <2>4. \A s, t, u \in Seq(Nat) : (s \o t) \o u = s \o (t \o u)
    BY ConcatAssociative
  <2>5. batch \o (queue \o <<appended'>>) = (batch \o queue) \o <<appended'>>
    BY <1>l, <2>2, <2>4
  <2>6. Append(batch \o queue, appended') = (batch \o queue) \o <<appended'>>
    BY <1>l, <1>1, AppendIsConcat
  <2>7. Pending' = Append(Pending, appended')
    BY <1>2, <2>2, <2>3, <2>5, <2>6
  <2>8. Missing' = Missing
    BY <1>1, <2>1 DEF Missing
  <2> QED BY <1>1, <2>7, <2>8, AbstractAccept
<1>4. CASE AppendDrop
  <2>1. queue' = queue /\ putting' = putting /\ dropped' = dropped + 1
    BY <1>4 DEF AppendDrop
  <2>2. Pending' = Pending /\ Missing' = Missing + 1
    BY <1>l, <1>1, <2>1 DEF Pending, WaitingSeq, Missing
  <2> QED BY <1>1, <2>2, AbstractRefuse
<1>5. CASE AppendWait
  <2>1. queue' = queue /\ putting' = appended' /\ dropped' = dropped
    BY <1>5 DEF AppendWait
  <2>2. Pending' = (batch \o queue) \o <<appended'>>
    BY <1>1, <2>1 DEF Pending, WaitingSeq
  <2>3. Pending' = Append(Pending, appended')
    BY <1>l, <1>1, <1>2, <2>2, AppendIsConcat
  <2>4. Missing' = Missing
    BY <1>1, <2>1 DEF Missing
  <2> QED BY <1>1, <2>3, <2>4, AbstractAccept
<1> QED BY <1>3, <1>4, <1>5

\* The put that waits: it makes room for itself, or gives up.
LEMMA PutImplements ==
  ASSUME TypeOK, PutSucceeds \/ PutTimesOut \/ PutCancelled
  PROVE  Log!Next \/ UNCHANGED Log!vars
<1>l. /\ batch \in Seq(Nat) /\ queue \in Seq(Nat) /\ batch \o queue \in Seq(Nat)
      /\ putting \in Nat /\ dropped \in Nat /\ lost \in Nat /\ vanished \in Nat
  BY PendingFacts DEF TypeOK
<1>1. /\ putting # 0 /\ putting' = 0 /\ (IsOpen' <=> IsOpen)
      /\ UNCHANGED <<appended, batch, posted, lost>>
  BY DEF PutSucceeds, PutTimesOut, PutCancelled, IsOpen
<1>2. /\ Pending = (batch \o queue) \o <<putting>> /\ <<putting>> \in Seq(Nat)
      /\ Pending = Append(batch \o queue, putting)
  BY <1>l, <1>1, AppendIsConcat DEF Pending, WaitingSeq
<1>3. CASE PutSucceeds
  <2>1. queue' = Append(queue, putting) /\ UNCHANGED <<dropped, vanished>>
    BY <1>3 DEF PutSucceeds
  <2>2. queue' = queue \o <<putting>>
    BY <1>l, <2>1, AppendIsConcat
  <2>3. Pending' = batch \o queue'
    <3>1. batch \o queue' \in Seq(Nat)
      BY <1>l, <1>2, <2>2, ConcatProperties
    <3> QED BY <1>1, <3>1, ConcatEmptySeq DEF Pending, WaitingSeq
  <2>4. \A s, t, u \in Seq(Nat) : (s \o t) \o u = s \o (t \o u)
    BY ConcatAssociative
  <2>5. Pending' = Pending
    BY <1>l, <1>2, <2>2, <2>3, <2>4
  <2>6. Missing' = Missing
    BY <1>1, <2>1 DEF Missing
  <2> QED BY <1>1, <2>5, <2>6, AbstractStutter
<1>4. CASE PutTimesOut \/ PutCancelled
  <2>1. queue' = queue /\ Missing' = Missing + 1
    BY <1>l, <1>1, <1>4 DEF PutTimesOut, PutCancelled, Missing
  <2>2. Pending' = batch \o queue
    BY <1>l, <1>1, <2>1, ConcatEmptySeq DEF Pending, WaitingSeq
  <2>3. Front(Pending) = batch \o queue
    BY <1>l, <1>2, FrontOfAppend
  <2>4. Pending # <<>>
    BY <1>l, <1>2, AppendProperties
  <2> QED BY <1>1, <2>1, <2>2, <2>3, <2>4, AbstractGiveUp
<1> QED BY <1>3, <1>4

\* The flusher: a batch is published or lost as a whole.
LEMMA FlusherImplements ==
  ASSUME TypeOK, Flusher
  PROVE  Log!Next \/ UNCHANGED Log!vars
<1>l. /\ batch \in Seq(Nat) /\ queue \in Seq(Nat) /\ WaitingSeq \in Seq(Nat)
      /\ queue \o WaitingSeq \in Seq(Nat)
      /\ Pending \in Seq(Nat) /\ Pending = batch \o (queue \o WaitingSeq)
      /\ Len(batch) \in Nat /\ Len(queue) \in Nat
      /\ Len(Pending) = Len(batch) + Len(queue) + (IF putting = 0 THEN 0 ELSE 1)
      /\ dropped \in Nat /\ lost \in Nat /\ vanished \in Nat
  BY PendingFacts DEF TypeOK
<1>1. CASE TakeBatch
  <2>1. /\ batch = <<>> /\ queue # <<>>
        /\ batch' = SubSeq(queue, 1, BatchLen)
        /\ queue' = SubSeq(queue, BatchLen + 1, Len(queue))
        /\ UNCHANGED <<appended, putting, posted, dropped, lost, vanished, stage>>
    BY <1>1 DEF TakeBatch
  <2>2. batch' \o queue' = queue
    BY <1>l, <2>1, BatchFacts, SplitRejoins
  <2>3. batch \o queue = queue
    BY <1>l, <2>1, ConcatEmptySeq
  <2>4. Pending' = Pending
    BY <2>1, <2>2, <2>3 DEF Pending, WaitingSeq
  <2>5. Missing' = Missing /\ (IsOpen' <=> IsOpen)
    BY <2>1 DEF Missing, IsOpen
  <2> QED BY <2>1, <2>4, <2>5, AbstractStutter
<1>2. CASE PostLands \/ PostLost
  <2>1. /\ batch # <<>> /\ batch' = <<>>
        /\ UNCHANGED <<appended, putting, queue, dropped, vanished, stage>>
    BY <1>2 DEF PostLands, PostLost
  <2>2. Len(batch) \in 1..Len(Pending)
    <3>1. Len(batch) # 0
      BY <1>l, <2>1, EmptySeq
    <3> QED BY <1>l, <3>1
  <2>3. /\ SubSeq(Pending, 1, Len(batch)) = batch
        /\ SubSeq(Pending, Len(batch) + 1, Len(Pending)) = queue \o WaitingSeq
    BY <1>l, ConcatSplits
  <2>4. Pending' = queue \o WaitingSeq
    <3>1. <<>> \o queue = queue
      BY <1>l, ConcatEmptySeq
    <3> QED BY <2>1, <3>1 DEF Pending, WaitingSeq
  <2>5. IsOpen' <=> IsOpen
    BY <2>1 DEF IsOpen
  <2>6. CASE PostLands
    <3>1. posted' = posted \o batch /\ lost' = lost
      BY <2>6 DEF PostLands
    <3>2. Missing' = Missing
      BY <2>1, <3>1 DEF Missing
    <3> QED BY <2>1, <2>2, <2>3, <2>4, <2>5, <3>1, <3>2, AbstractPublish
  <2>7. CASE PostLost
    <3>1. posted' = posted /\ lost' = lost + Len(batch)
      BY <2>7 DEF PostLost
    <3>2. Missing' = Missing + Len(batch)
      BY <1>l, <2>1, <3>1 DEF Missing
    <3> QED BY <2>1, <2>2, <2>3, <2>4, <2>5, <3>1, <3>2, AbstractLose
  <2> QED BY <1>2, <2>6, <2>7
<1> QED BY <1>1, <1>2 DEF Flusher

\* The end of a session, by flush() or by the end of the daemon.
LEMMA EndImplements ==
  ASSUME TypeOK, Quiet, FlushBegins \/ FlushEnds \/ Abandon
  PROVE  Log!Next \/ UNCHANGED Log!vars
<1>l. /\ batch \in Seq(Nat) /\ queue \in Seq(Nat) /\ WaitingSeq \in Seq(Nat)
      /\ queue \o WaitingSeq \in Seq(Nat) /\ posted \in Seq(Nat)
      /\ Pending \in Seq(Nat) /\ Pending = batch \o (queue \o WaitingSeq)
      /\ Len(batch) \in Nat /\ Len(queue) \in Nat
      /\ Len(Pending) = Len(batch) + Len(queue) + (IF putting = 0 THEN 0 ELSE 1)
      /\ dropped \in Nat /\ lost \in Nat /\ vanished \in Nat
  BY PendingFacts DEF TypeOK
<1>e. <<>> \o <<>> \o <<>> = <<>> /\ Len(<<>>) = 0
  OBVIOUS
<1>1. CASE FlushBegins
  <2>1. Pending' = Pending /\ Missing' = Missing /\ (IsOpen' <=> IsOpen)
    BY <1>1 DEF FlushBegins, Pending, WaitingSeq, Missing, IsOpen
  <2>2. appended' = appended /\ posted' = posted
    BY <1>1 DEF FlushBegins
  <2> QED BY <2>1, <2>2, AbstractStutter
<1>2. CASE FlushEnds
  <2>1. queue = <<>> /\ batch = <<>> /\ putting = 0
    BY <1>2 DEF FlushEnds, Joined, Quiet
  <2>2. queue' = <<>> /\ batch' = <<>> /\ putting' = 0 /\ appended' = appended
    BY <1>2, <2>1 DEF FlushEnds
  <2>3. Pending = <<>> /\ Pending' = <<>>
    BY <1>e, <2>1, <2>2 DEF Pending, WaitingSeq
  <2>4. IsOpen /\ ~IsOpen'
    BY <1>2 DEF FlushEnds, IsOpen
  <2>5. posted' = posted
    <3>1. posted' = posted \/ posted' = posted \o <<>>
      BY <1>2, <2>1 DEF FlushEnds
    <3> QED BY <1>l, <3>1, ConcatEmptySeq
  <2>6. Missing' = Missing
    <3>1. lost' = lost \/ lost' = lost + Len(queue)
      BY <1>2 DEF FlushEnds
    <3>2. lost' = lost /\ dropped' = dropped /\ vanished' = vanished
      BY <1>l, <1>e, <1>2, <2>1, <3>1 DEF FlushEnds
    <3> QED BY <3>2 DEF Missing
  <2> QED BY <2>2, <2>3, <2>4, <2>5, <2>6, AbstractClose
<1>3. CASE Abandon
  <2>1. queue' = <<>> /\ batch' = <<>> /\ putting' = 0 /\ appended' = appended
    BY <1>3 DEF Abandon
  <2>2. Pending' = <<>>
    BY <1>e, <2>1 DEF Pending, WaitingSeq
  <2>3. IsOpen /\ ~IsOpen'
    BY <1>3 DEF Abandon, IsOpen
  <2>4. /\ vanished' = vanished + Waiting /\ dropped' = dropped /\ Waiting \in Nat
        /\ dropped \in Nat /\ lost \in Nat /\ vanished \in Nat
        /\ Len(batch) \in Nat /\ Len(queue) \in Nat
        /\ Len(Pending) = Len(batch) + Len(queue) + Waiting
    BY <1>l, <1>3 DEF Abandon, Waiting
  <2>5. CASE posted' = posted \o batch /\ lost' = lost + Len(queue)
    <3>1. Len(batch) \in 0..Len(Pending) /\ SubSeq(Pending, 1, Len(batch)) = batch
      BY <1>l, ConcatSplits
    <3>2. Missing' = Missing + (Len(Pending) - Len(batch))
      BY <2>4, <2>5 DEF Missing
    <3> QED BY <2>1, <2>2, <2>3, <2>5, <3>1, <3>2, AbstractAbandon
  <2>6. CASE posted' = posted /\ lost' = lost + Len(batch) + Len(queue)
    <3>1. 0 \in 0..Len(Pending) /\ SubSeq(Pending, 1, 0) = <<>>
      BY <1>l, SubSeqEmpty
    <3>2. posted' = posted \o SubSeq(Pending, 1, 0)
      BY <1>l, <2>6, <3>1, ConcatEmptySeq
    <3>3. Missing' = Missing + (Len(Pending) - 0)
      BY <2>4, <2>6 DEF Missing
    <3> QED BY <2>1, <2>2, <2>3, <3>1, <3>2, <3>3, AbstractAbandon
  <2>7. \/ posted' = posted \o batch /\ lost' = lost + Len(queue)
        \/ posted' = posted /\ lost' = lost + Len(batch) + Len(queue)
    BY <1>3 DEF Abandon
  <2> QED BY <2>5, <2>6, <2>7
<1> QED BY <1>1, <1>2, <1>3

(* A session implements the event log of EventLog.tla, for any sizes: what *)
(* a reader of the tape sees of queue, batches, waiting puts, failed POSTs *)
(* and flush() is a log to which accepted events come in order and in      *)
(* whole batches, or are lost as whole batches, and that closes only with  *)
(* nothing pending.                                                        *)
THEOREM SessionImplementsEventLog == Spec => ImplementsEventLog
<1>1. Init => Log!Init
  <2> SUFFICES ASSUME Init PROVE Log!Init
    OBVIOUS
  <2>1. <<>> \o <<>> \o <<>> = <<>>
    OBVIOUS
  <2> QED BY <2>1 DEF Init, Log!Init
<1>2. TypeOK /\ Quiet /\ [Next]_vars => [Log!Next]_Log!vars
  <2> SUFFICES ASSUME TypeOK, Quiet, [Next]_vars PROVE Log!Next \/ UNCHANGED Log!vars
    OBVIOUS
  <2>1. CASE Finished \/ UNCHANGED vars
    <3>1. UNCHANGED <<appended, batch, queue, putting, posted, dropped, lost, vanished, stage>>
      BY <2>1 DEF Finished, vars
    <3> QED BY <3>1 DEF Log!vars
  <2> QED BY <2>1, AppendImplements, PutImplements, FlusherImplements, EndImplements
          DEF Next, Producer
<1> QED BY <1>1, <1>2, TypesHold, QuietHolds, PTL DEF Spec, ImplementsEventLog, Log!Spec
=============================================================================
