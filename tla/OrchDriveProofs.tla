---------------------------- MODULE OrchDriveProofs ----------------------------
(* Theorems about OrchDrive and their proofs.                              *)
EXTENDS OrchDrive, FiniteSetTheorems, TLAPS

\* A budget is never negative nor above the per-turn limit.
LEMMA BudgetBounds ==
  ASSUME NEW n \in Nat
  PROVE  SpawnBudget(n) \in 0..MaxSpawnsPerTurn
BY DriveAssumption DEF DriveAssumption, SpawnBudget, Least

LEMMA BridgeBudgetBounds ==
  ASSUME NEW n \in BridgeBudgets
  PROVE  n \in 0..MaxSpawnsPerTurn
BY BudgetBounds, DriveAssumption DEF BridgeBudgets, DriveAssumption

-----------------------------------------------------------------------------
(* Types.                                                                  *)

\* TypeOK is not inductive: that a turn does not exceed max_turns was looked at
\* when the round began.
RoundBelowCeiling ==
  /\ pc = "events" => phase = "tick"
  /\ pc \in {"tasks", "links", "events"} /\ phase = "tick" => turns < MaxTurns

LEMMA StepCeiling ==
  ASSUME TypeOK, RoundBelowCeiling, [Next]_vars
  PROVE  RoundBelowCeiling'
<1> USE DEF RoundBelowCeiling, hubVars, kidVars, roundVars, turnVars, ackVars, driveVars
<1>1. CASE Retires \/ HitsCeiling \/ RoundBegins \/ GoesOn \/ Finishes
  BY <1>1 DEF Retires, HitsCeiling, RoundBegins, GoesOn, Finishes, DriveEnded
<1>2. CASE ReadTasks \/ ReadLinks
  BY <1>2 DEF ReadTasks, ReadLinks, AfterView, TypeOK
<1>3. CASE ReadEvents \/ TurnEnds
  BY <1>3 DEF ReadEvents, Reads, TurnEnds, Acknowledge
<1>4. CASE Failure
  BY <1>4 DEF Failure, ReadFails, RootReadRaises, DriveEnded, AfterView, TypeOK
<1>5. ASSUME NEW k \in Kids, BrainSpawns(k) PROVE RoundBelowCeiling'
  BY <1>5 DEF BrainSpawns
<1>6. ASSUME NEW k \in Kids, Child(k) \/ ReportProjected(k) \/ Person(k)
      PROVE  RoundBelowCeiling'
  BY <1>6 DEF Child, KidStarts, KidEnds, ReportProjected, Person,
              ChildAdopted, ChildReopened, ChildCancelled
<1>7. ASSUME NEW k \in Kids, NEW g \in Kids, KidSpawns(k, g)
      PROVE  RoundBelowCeiling'
  BY <1>7 DEF KidSpawns
<1>8. CASE RootCancelled \/ UNCHANGED vars
  BY <1>8 DEF RootCancelled, vars
<1> QED BY <1>1, <1>2, <1>3, <1>4, <1>5, <1>6, <1>7, <1>8 DEF Next, Round

LEMMA StepTypes == TypeOK /\ RoundBelowCeiling /\ [Next]_vars => TypeOK'
<1> SUFFICES ASSUME TypeOK, RoundBelowCeiling, [Next]_vars PROVE TypeOK'
  OBVIOUS
<1> USE DriveAssumption
    DEF DriveAssumption, TypeOK, Terminal, Status, Seen, hubVars, kidVars, roundVars,
        turnVars, ackVars, driveVars
<1>1. CASE Retires
  BY <1>1 DEF Retires, DriveEnded
<1>2. CASE HitsCeiling
  BY <1>2 DEF HitsCeiling, DriveEnded
<1>3. CASE RoundBegins
  BY <1>3 DEF RoundBegins
<1>4. CASE ReadTasks
  BY <1>4 DEF ReadTasks
<1>5. CASE ReadLinks
  BY <1>5 DEF ReadLinks, AfterView
<1>6. CASE ReadEvents
  <2>1. PICK first \in Window, spawns \in BridgeBudgets :
          Reads(FreshFrom(first), spawns)
    BY <1>6 DEF ReadEvents
  <2>2. first \in Nat
    BY DEF Window
  <2>3. NewReports(FreshFrom(first)) \subseteq Kids
    BY <2>2 DEF NewReports, FreshFrom, TerminalInView
  <2>4. spawns \in 0..MaxSpawnsPerTurn
    BY BridgeBudgetBounds
  <2>5. /\ reports' \subseteq Kids
        /\ pc' \in {"tasks", "turn"}
        /\ phase' \in {"tick", "finish"}
        /\ view' \in [Kids -> Seen \cup {"absent", "none"}]
    BY <2>1, <2>3 DEF Reads, NoView
  <2>6. upTo' \in 0..Len(tape) /\ spawnLeft' \in 0..MaxSpawnsPerTurn
    BY <2>1, <2>4 DEF Reads
  <2>7. turns' \in 0..MaxTurns
    BY <1>6, <2>1 DEF ReadEvents, Reads, RoundBelowCeiling
  <2>8. UNCHANGED <<lastSeq, acked, shown, outcome, hubVars, kidVars, acts>>
    BY <1>6 DEF ReadEvents
  <2> QED BY <2>5, <2>6, <2>7, <2>8
<1>7. CASE TurnEnds
  BY <1>7 DEF TurnEnds, Acknowledge, Signature, NoView
<1>8. CASE GoesOn
  BY <1>8 DEF GoesOn, NoView
<1>9. CASE Finishes
  BY <1>9 DEF Finishes, DriveEnded
<1>10. CASE ReadFails
  BY <1>10 DEF ReadFails, NoView, AfterView
<1>11. CASE RootReadRaises
  BY <1>11 DEF RootReadRaises, DriveEnded
<1>12. ASSUME NEW k \in Kids, BrainSpawns(k) PROVE TypeOK'
  BY <1>12 DEF BrainSpawns
<1>13. ASSUME NEW k \in Kids, Child(k) PROVE TypeOK'
  BY <1>13 DEF Child, KidStarts, KidEnds
<1>14. ASSUME NEW k \in Kids, ReportProjected(k) PROVE TypeOK'
  BY <1>14 DEF ReportProjected
<1>15. ASSUME NEW k \in Kids, NEW g \in Kids, KidSpawns(k, g) PROVE TypeOK'
  BY <1>15 DEF KidSpawns
<1>16. ASSUME NEW k \in Kids, Person(k) PROVE TypeOK'
  <2>1. status' \in [Kids -> Status] /\ par' \in [Kids -> Kids \cup {Root, None}]
    BY <1>16 DEF Person, ChildAdopted, ChildReopened, ChildCancelled
  <2>2. acts' \in [adoptions : Nat, cancels : Nat, reopens : Nat]
    <3>1. CASE ChildAdopted(k)
      <4>1. acts' = [acts EXCEPT !.adoptions = acts.adoptions + 1]
        BY <3>1 DEF ChildAdopted
      <4>2. acts \in [adoptions : Nat, cancels : Nat, reopens : Nat]
        OBVIOUS
      <4> HIDE DEF TypeOK
      <4> QED BY <4>1, <4>2
    <3>2. CASE ChildReopened(k)
      <4>1. acts' = [acts EXCEPT !.reopens = acts.reopens + 1]
        BY <3>2 DEF ChildReopened
      <4>2. acts \in [adoptions : Nat, cancels : Nat, reopens : Nat]
        OBVIOUS
      <4> HIDE DEF TypeOK
      <4> QED BY <4>1, <4>2
    <3>3. CASE ChildCancelled(k)
      <4>1. acts' = [acts EXCEPT !.cancels = acts.cancels + 1]
        BY <3>3 DEF ChildCancelled
      <4>2. acts \in [adoptions : Nat, cancels : Nat, reopens : Nat]
        OBVIOUS
      <4> HIDE DEF TypeOK
      <4> QED BY <4>1, <4>2
    <3> QED BY <1>16, <3>1, <3>2, <3>3 DEF Person
  <2>3. UNCHANGED <<rootStatus, tape, outbox, kidVars, driveVars>>
    BY <1>16 DEF Person, ChildAdopted, ChildReopened, ChildCancelled
  <2> QED BY <2>1, <2>2, <2>3
<1>17. CASE RootCancelled
  <2>0. acts' = [acts EXCEPT !.cancels = acts.cancels + 1]
    BY <1>17 DEF RootCancelled
  <2>1. acts' \in [adoptions : Nat, cancels : Nat, reopens : Nat]
    BY <2>0
  <2>2. rootStatus' = "cancelled" /\ UNCHANGED <<status, par, tape, outbox>>
    BY <1>17 DEF RootCancelled
  <2>3. UNCHANGED <<kidVars, driveVars>>
    BY <1>17 DEF RootCancelled
  <2> QED BY <2>1, <2>2, <2>3
<1>18. CASE UNCHANGED vars
  BY <1>18 DEF vars
<1> QED
  BY <1>1, <1>2, <1>3, <1>4, <1>5, <1>6, <1>7, <1>8, <1>9, <1>10, <1>11,
     <1>12, <1>13, <1>14, <1>15, <1>16, <1>17, <1>18
  DEF Next, Round, Failure

(* Every variable keeps to its type: in particular the last report a drive *)
(* has acknowledged is on the tape, and a turn's spawn budget is never     *)
(* negative, not even when the subtree has outgrown max_children.          *)
THEOREM TypesHold == Spec => []TypeOK
<1>1. Init => TypeOK
  <2> SUFFICES ASSUME Init PROVE TypeOK
    OBVIOUS
  <2> USE DriveAssumption
      DEF DriveAssumption, Init, TypeOK, Status, Seen, Terminal, NoView
  <2>1. status \in [Kids -> Status] /\ par \in [Kids -> Kids \cup {Root, None}]
    OBVIOUS
  <2> QED BY <2>1
<1>2. Init => RoundBelowCeiling
  BY DEF Init, RoundBelowCeiling
<1>3. TypeOK /\ RoundBelowCeiling /\ [Next]_vars => TypeOK' /\ RoundBelowCeiling'
  BY StepTypes, StepCeiling
<1> QED BY <1>1, <1>2, <1>3, PTL DEF Spec

-----------------------------------------------------------------------------
(* No child is acknowledged unheard.                                       *)

\* HeardBeforeAcked is not inductive: while a turn runs, what it will have
\* acknowledged when it ends is either in its prompt or was heard before.
Heard ==
  /\ HeardBeforeAcked
  /\ pc = "turn" => \A k \in Kids :
       view[k] \in Terminal => k \in reports \/ acked[k] = view[k]

LEMMA HeardStep ==
  ASSUME TypeOK, Heard, [Next]_vars
  PROVE  Heard'
<1> DEFINE Same == /\ UNCHANGED <<acked, shown>>
                   /\ pc' = "turn" => /\ pc = "turn" /\ view' = view
                                      /\ reports' = reports
<1>a. Same => Heard'
  BY DEF Heard, HeardBeforeAcked
<1> USE DEF hubVars, kidVars, roundVars, turnVars, ackVars, driveVars
<1>1. CASE Retires \/ HitsCeiling \/ RoundBegins \/ GoesOn \/ Finishes
  BY <1>1, <1>a DEF Retires, HitsCeiling, RoundBegins, GoesOn, Finishes, DriveEnded
<1>2. CASE ReadTasks \/ ReadLinks
  BY <1>2, <1>a DEF ReadTasks, ReadLinks, AfterView
<1>3. CASE ReadEvents
  <2>1. PICK first \in Window, spawns \in BridgeBudgets :
          Reads(FreshFrom(first), spawns)
    BY <1>3 DEF ReadEvents
  <2>2. \A k \in Kids :
          view[k] \in Terminal => k \in reports' \/ acked[k] = view[k]
    BY <2>1 DEF Reads, NewReports, TerminalInView
  <2>3. acked' = acked /\ shown' = shown
    BY <1>3 DEF ReadEvents
  <2>4. pc' = "turn" => view' = view
    BY <2>1 DEF Reads
  <2> QED BY <2>2, <2>3, <2>4 DEF Heard, HeardBeforeAcked
<1>4. CASE TurnEnds
  <2>1. /\ pc = "turn" /\ pc' = "tasks" /\ acked' = Signature
        /\ shown' = shown \cup reports
    BY <1>4 DEF TurnEnds, Acknowledge
  <2>2. ASSUME NEW k \in Kids, acked'[k] # "none" PROVE k \in shown'
    <3>1. view[k] \in Terminal
      BY <2>1, <2>2 DEF Signature
    <3>2. k \in reports \/ acked[k] # "none"
      BY <2>1, <3>1 DEF Heard, Terminal
    <3> QED BY <2>1, <3>2 DEF Heard, HeardBeforeAcked
  <2> QED BY <2>1, <2>2 DEF Heard, HeardBeforeAcked
<1>5. CASE ReadFails \/ RootReadRaises
  BY <1>5, <1>a DEF ReadFails, RootReadRaises, DriveEnded, AfterView
<1>6. ASSUME NEW k \in Kids, BrainSpawns(k) PROVE Heard'
  BY <1>6, <1>a DEF BrainSpawns
<1>7. ASSUME NEW k \in Kids, Child(k) \/ ReportProjected(k) \/ Person(k) PROVE Heard'
  BY <1>7, <1>a DEF Child, KidStarts, KidEnds, ReportProjected, Person,
                    ChildAdopted, ChildReopened, ChildCancelled
<1>8. ASSUME NEW k \in Kids, NEW g \in Kids, KidSpawns(k, g) PROVE Heard'
  BY <1>8, <1>a DEF KidSpawns
<1>9. CASE RootCancelled \/ UNCHANGED vars
  BY <1>9, <1>a DEF RootCancelled, vars
<1> QED BY <1>1, <1>2, <1>3, <1>4, <1>5, <1>6, <1>7, <1>8, <1>9
  DEF Next, Round, Failure

(* Whatever the drive has ticked off was in the prompt of some turn, for   *)
(* any subtree, any limits, any failures of calls and turns, and any       *)
(* timing of children, reports and people (orch_drive.py:175-203).         *)
THEOREM NothingAckedUnheard == Spec => []HeardBeforeAcked
<1>1. Init => Heard
  BY DEF Init, Heard, HeardBeforeAcked, NoView
<1>2. TypeOK /\ Heard /\ [Next]_vars => Heard'
  BY HeardStep
<1>3. Heard => HeardBeforeAcked
  BY DEF Heard
<1> QED BY <1>1, <1>2, <1>3, TypesHold, PTL DEF Spec

-----------------------------------------------------------------------------
(* A drive that saw its subtree leaves nobody at work.                     *)

\* The subtree is closed under the links, and the least set that is.
LEMMA SubtreeClosed ==
  ASSUME NEW k \in Kids, par[k] \in Subtree \cup {Root}
  PROVE  k \in Subtree
BY DEF Subtree

LEMMA SubtreeLeast ==
  ASSUME NEW S \in SUBSET Kids,
         \A k \in Kids : par[k] \in S \cup {Root} => k \in S
  PROVE  Subtree \subseteq S
BY DEF Subtree

\* No child has come into the subtree, or back to work, by a person's hand.
Untouched == acts.adoptions + acts.reopens = 0

\* Whom the view shows as ended has ended.
EndedStaysEnded == \A k \in Kids : view[k] \in Terminal => status[k] \in Terminal

\* The view holds the root's children, and those of every child it shows as
\* ended: only a child at work can have had one since, or a brain that outlived
\* its turn.
ViewClosed ==
  \A k \in Kids :
    par[k] = Root \/ (par[k] \in Kids /\ view[par[k]] \in Terminal)
      => view[k] # "none" \/ k \in late

\* What was spawned late stays apart: nobody has a parent that is not there yet.
LateClosed ==
  \A k \in Kids :
    /\ k \in brains => status[k] # "absent"
    /\ par[k] \in Kids => status[par[k]] # "absent" /\ (par[k] \in late => k \in late)

\* FinishedBlindOrQuiescent is not inductive.  What it needs of the view between
\* the read of the tasks and the end: the links are read after the tasks, so a
\* child that was spawned between the two is in the view, as unknown.
ViewHolds ==
  /\ pc = "links" => /\ \A k \in Kids : view[k] # "none"
                     /\ Untouched => EndedStaysEnded
  /\ pc = "decide" /\ Untouched => EndedStaysEnded /\ (view = NoView \/ ViewClosed)
  /\ outcome = "finished" => pc = "ended" /\ Pending = {}
  /\ outcome = "finished" /\ Untouched => EndedStaysEnded /\ (view = NoView \/ ViewClosed)
  /\ pc # "ended" => outcome = "none"

LEMMA StepLate ==
  ASSUME TypeOK, LateClosed, [Next]_vars
  PROVE  LateClosed'
<1> USE DEF LateClosed, hubVars, kidVars
<1>1. CASE UNCHANGED <<hubVars, kidVars>>
  BY <1>1
<1>2. CASE Round \/ TurnEnds \/ Failure \/ RootCancelled
           \/ (\E k \in Kids : ReportProjected(k)) \/ UNCHANGED vars
  <2>1. UNCHANGED <<status, par, brains, late>>
    BY <1>2 DEF Round, TurnEnds, Failure, Retires, HitsCeiling, RoundBegins, ReadTasks,
       ReadLinks, ReadEvents, GoesOn, Finishes, ReadFails, RootReadRaises,
       RootCancelled, ReportProjected, vars
  <2> QED BY <2>1
<1>3. ASSUME NEW k \in Kids, BrainSpawns(k) \/ ChildAdopted(k) PROVE LateClosed'
  <2>1. /\ status' = [status EXCEPT ![k] = "open"] /\ status[k] = "absent"
        /\ par' = [par EXCEPT ![k] = Root] /\ brains' = brains
        /\ late' \in {late, late \cup {k}}
    BY <1>3 DEF BrainSpawns, ChildAdopted
  <2>2. Root \notin Kids
    BY DriveAssumption DEF DriveAssumption
  <2> QED BY <2>1, <2>2 DEF TypeOK
<1>4. ASSUME NEW k \in Kids, Child(k) \/ ChildReopened(k) \/ ChildCancelled(k)
      PROVE  LateClosed'
  <2>1. /\ par' = par /\ late' = late /\ brains' \subseteq brains \cup {k}
        /\ status[k] # "absent"
        /\ \E s \in Status \ {"absent"} : status' = [status EXCEPT ![k] = s]
    BY <1>4 DEF Child, KidStarts, KidEnds, ChildReopened, ChildCancelled, Status, Terminal
  <2> QED BY <2>1 DEF TypeOK
<1>5. ASSUME NEW k \in Kids, NEW g \in Kids, KidSpawns(k, g) PROVE LateClosed'
  <2>1. /\ status' = [status EXCEPT ![g] = "open"] /\ status[g] = "absent"
        /\ status[k] # "absent" /\ par' = [par EXCEPT ![g] = k] /\ brains' = brains
    BY <1>5 DEF KidSpawns
  <2>2. late' \in {late, late \cup {g}} /\ (k \in late => g \in late')
    BY <1>5 DEF KidSpawns
  <2>3. \A j \in Kids : par[j] # g
    BY <2>1
  <2>4. k # g
    BY <2>1
  <2> QED BY <2>1, <2>2, <2>3, <2>4 DEF TypeOK
<1> QED BY <1>2, <1>3, <1>4, <1>5 DEF Next, Person

LEMMA ViewHoldsEnough == TypeOK /\ LateClosed /\ ViewHolds => FinishedBlindOrQuiescent
<1> SUFFICES ASSUME TypeOK, LateClosed, ViewHolds, outcome = "finished", Untouched,
                    view # NoView, NEW j \in Subtree \ Overlooked
             PROVE  status[j] \in Terminal
  BY DEF FinishedBlindOrQuiescent, Untouched
<1>1. \A k \in Kids : view[k] # "none" => view[k] \in Terminal
  BY DEF ViewHolds, Pending, InView
<1>2. \A k \in Kids : par[k] \in InView \cup late \cup {Root} => k \in InView \cup late
  <2> SUFFICES ASSUME NEW k \in Kids, par[k] \in InView \cup late \cup {Root}
               PROVE  k \in InView \cup late
    OBVIOUS
  <2>1. CASE par[k] \in late
    BY <2>1 DEF LateClosed, TypeOK
  <2>2. CASE par[k] \in InView \cup {Root}
    BY <1>1, <2>2 DEF ViewHolds, ViewClosed, InView
  <2> QED BY <2>1, <2>2
<1>3. Subtree \subseteq InView \cup late
  <2>1. InView \cup late \in SUBSET Kids
    BY DEF InView, TypeOK
  <2> QED BY <1>2, <2>1, SubtreeLeast
<1>4. j \in InView
  BY <1>3 DEF Overlooked, InView, TypeOK
<1> QED BY <1>1, <1>4 DEF ViewHolds, EndedStaysEnded, InView

\* A step of the children, brains, krewhub or people leaves the drive where it is.
\* It brings nobody back who has ended, and gives nobody a parent that has, unless
\* it is late.
LEMMA OthersKeepView ==
  ASSUME TypeOK, ViewHolds, UNCHANGED <<roundVars, outcome>>, late \subseteq late',
         Untouched' => /\ Untouched
                       /\ \A k \in Kids :
                            /\ status[k] \in Terminal => status'[k] \in Terminal
                            /\ \/ par'[k] = par[k]
                               \/ par'[k] \in Kids /\ status[par'[k]] \notin Terminal
                               \/ k \in late'
  PROVE  ViewHolds'
<1> USE DEF roundVars
<1>1. Untouched' /\ EndedStaysEnded => EndedStaysEnded'
  BY DEF EndedStaysEnded
<1>2. Untouched' /\ EndedStaysEnded /\ ViewClosed => ViewClosed'
  <2> SUFFICES ASSUME Untouched', EndedStaysEnded, ViewClosed, NEW k \in Kids,
                      par'[k] = Root \/ (par'[k] \in Kids /\ view[par'[k]] \in Terminal)
               PROVE  view[k] # "none" \/ k \in late'
    BY DEF ViewClosed
  <2>1. CASE par'[k] = par[k]
    BY <2>1 DEF ViewClosed
  <2>2. CASE par'[k] \in Kids /\ status[par'[k]] \notin Terminal
    <3>1. par'[k] # Root
      BY <2>2, DriveAssumption DEF DriveAssumption
    <3>2. view[par'[k]] \notin Terminal
      BY <2>2 DEF EndedStaysEnded
    <3> QED BY <3>1, <3>2
  <2> QED BY <2>1, <2>2
<1>3. Pending' = Pending
  BY DEF Pending, InView
<1> QED BY <1>1, <1>2, <1>3 DEF ViewHolds

LEMMA ChildrenKeepView ==
  ASSUME TypeOK, ViewHolds, NEW k \in Kids, Child(k) \/ ReportProjected(k)
  PROVE  ViewHolds'
<1>1. UNCHANGED <<roundVars, outcome, acts, par, late>>
  BY DEF driveVars, kidVars, Child, KidStarts, KidEnds, ReportProjected
<1>2. \A j \in Kids : status[j] \in Terminal => status'[j] \in Terminal
  BY DEF Child, KidStarts, KidEnds, ReportProjected, TypeOK, Terminal
<1>3. Untouched' <=> Untouched
  BY <1>1 DEF Untouched
<1> QED BY <1>1, <1>2, <1>3, OthersKeepView

LEMMA SpawnKeepsView ==
  ASSUME TypeOK, ViewHolds, NEW k \in Kids, NEW g \in Kids, KidSpawns(k, g)
  PROVE  ViewHolds'
<1>1. UNCHANGED <<roundVars, outcome, acts>> /\ late \subseteq late'
  BY DEF KidSpawns, driveVars
<1>2. \A j \in Kids : status[j] \in Terminal => status'[j] \in Terminal
  BY DEF KidSpawns, TypeOK, Terminal
<1>3. \A j \in Kids : \/ par'[j] = par[j]
                      \/ par'[j] \in Kids /\ status[par'[j]] \notin Terminal
                      \/ j \in late'
  <2>1. par' = [par EXCEPT ![g] = k]
    BY DEF KidSpawns
  <2>2. status[k] \notin Terminal \/ g \in late'
    BY DEF KidSpawns, Terminal
  <2> QED BY <2>1, <2>2 DEF TypeOK
<1>4. Untouched' <=> Untouched
  BY <1>1 DEF Untouched
<1> QED BY <1>1, <1>2, <1>3, <1>4, OthersKeepView

LEMMA PeopleKeepView ==
  ASSUME TypeOK, ViewHolds, RootCancelled \/ \E k \in Kids : Person(k)
  PROVE  ViewHolds'
<1> USE DEF TypeOK, Untouched
<1>1. ASSUME NEW k \in Kids, ChildAdopted(k) \/ ChildReopened(k) PROVE ViewHolds'
  <2>1. ~Untouched'
    BY <1>1 DEF ChildAdopted, ChildReopened
  <2>2. UNCHANGED <<roundVars, outcome, late>>
    BY <1>1 DEF ChildAdopted, ChildReopened, driveVars, kidVars
  <2> QED BY <2>1, <2>2, OthersKeepView
<1>2. ASSUME NEW k \in Kids, ChildCancelled(k) PROVE ViewHolds'
  <2>1. UNCHANGED <<roundVars, outcome, late, par>>
    BY <1>2 DEF ChildCancelled, driveVars, kidVars
  <2>2. Untouched' <=> Untouched
    BY <1>2 DEF ChildCancelled
  <2>3. \A j \in Kids : status[j] \in Terminal => status'[j] \in Terminal
    BY <1>2 DEF ChildCancelled, Terminal
  <2> QED BY <2>1, <2>2, <2>3, OthersKeepView
<1>3. CASE RootCancelled
  <2>1. UNCHANGED <<roundVars, outcome, late, par, status>>
    BY <1>3 DEF RootCancelled, driveVars, kidVars
  <2>2. Untouched' <=> Untouched
    BY <1>3 DEF RootCancelled
  <2> QED BY <2>1, <2>2, OthersKeepView
<1> QED BY <1>1, <1>2, <1>3 DEF Person

\* Who has ended in the view that comes of the links is in the subtree, and then
\* so are its children.
LEMMA LinksKeepView ==
  ASSUME TypeOK, ViewHolds, ReadLinks
  PROVE  ViewHolds'
<1> USE DEF ReadLinks, hubVars
<1>1. \A k \in Kids : view'[k] = "none" <=> k \notin Subtree
  BY DEF ViewHolds
<1>2. \A k \in Kids : view'[k] \in Terminal => k \in Subtree /\ view[k] \in Terminal
  BY DEF Terminal
<1>3. ViewClosed'
  <2> SUFFICES ASSUME NEW k \in Kids,
                      par[k] = Root \/ (par[k] \in Kids /\ view'[par[k]] \in Terminal)
               PROVE  view'[k] # "none"
    BY DEF ViewClosed, kidVars
  <2>1. par[k] \in Subtree \cup {Root}
    BY <1>2
  <2> QED BY <2>1, <1>1, SubtreeClosed
<1>4. Untouched' => EndedStaysEnded'
  BY <1>2 DEF ViewHolds, EndedStaysEnded, Untouched
<1>5. pc' # "links" /\ outcome' = "none" /\ pc' # "ended"
  BY DEF ViewHolds, AfterView
<1> QED BY <1>3, <1>4, <1>5 DEF ViewHolds

LEMMA DriveKeepsView ==
  ASSUME TypeOK, ViewHolds, Round \/ TurnEnds \/ Failure
  PROVE  ViewHolds'
<1> USE DEF hubVars, kidVars, turnVars, ackVars
<1>1. CASE Retires \/ HitsCeiling \/ RootReadRaises
  <2>1. pc' = "ended" /\ outcome' # "finished"
    BY <1>1 DEF Retires, HitsCeiling, RootReadRaises, DriveEnded
  <2> QED BY <2>1 DEF ViewHolds
<1>2. CASE RoundBegins \/ GoesOn
  <2>1. pc' \notin {"links", "decide", "ended"} /\ outcome' = "none"
    BY <1>2 DEF RoundBegins, GoesOn, ViewHolds
  <2> QED BY <2>1 DEF ViewHolds
<1>3. CASE ReadTasks
  <2>1. pc' = "links" /\ view' = status /\ status' = status /\ outcome' = "none"
    BY <1>3 DEF ReadTasks, ViewHolds
  <2>2. EndedStaysEnded' /\ \A k \in Kids : view'[k] # "none"
    BY <2>1 DEF EndedStaysEnded, TypeOK, Status, Terminal
  <2> QED BY <2>1, <2>2 DEF ViewHolds
<1>4. CASE ReadLinks
  BY <1>4, LinksKeepView
<1>5. CASE ReadFails
  <2>1. view' = NoView /\ pc' \notin {"links", "ended"} /\ outcome' = "none"
    BY <1>5 DEF ReadFails, AfterView, ViewHolds
  <2>2. EndedStaysEnded'
    BY <2>1 DEF EndedStaysEnded, NoView, Terminal
  <2> QED BY <2>1, <2>2 DEF ViewHolds, NoView
<1>6. CASE ReadEvents
  <2>1. PICK first \in Window, spawns \in BridgeBudgets : Reads(FreshFrom(first), spawns)
    BY <1>6 DEF ReadEvents
  <2>2. pc' \in {"tasks", "turn"}
    BY <2>1 DEF Reads
  <2>3. outcome' = "none"
    BY <1>6 DEF ReadEvents, ViewHolds
  <2> QED BY <2>2, <2>3 DEF ViewHolds
<1>7. CASE TurnEnds
  <2>1. pc' = "tasks" /\ outcome' = "none"
    BY <1>7 DEF TurnEnds, Acknowledge, ViewHolds
  <2> QED BY <2>1 DEF ViewHolds
<1>8. CASE Finishes
  <2>1. /\ pc = "decide" /\ pc' = "ended" /\ Pending = {}
        /\ UNCHANGED <<view, status, par, late, acts>>
    BY <1>8 DEF Finishes, DriveEnded
  <2>2. Pending' = {}
    BY <2>1 DEF Pending, InView
  <2>3. Untouched' => EndedStaysEnded' /\ (view' = NoView' \/ ViewClosed')
    BY <2>1 DEF ViewHolds, Untouched, EndedStaysEnded, ViewClosed, NoView
  <2> QED BY <2>1, <2>2, <2>3 DEF ViewHolds
<1> QED BY <1>1, <1>2, <1>3, <1>4, <1>5, <1>6, <1>7, <1>8 DEF Round, Failure

LEMMA BrainKeepsView ==
  ASSUME TypeOK, ViewHolds, NEW k \in Kids, BrainSpawns(k)
  PROVE  ViewHolds'
<1>1. UNCHANGED <<roundVars, outcome, acts>> /\ late \subseteq late'
  BY DEF BrainSpawns
<1>2. CASE pc = "turn"
  <2>1. pc' = "turn" /\ outcome' = "none"
    BY <1>1, <1>2 DEF roundVars, ViewHolds
  <2> QED BY <2>1 DEF ViewHolds
<1>3. CASE pc # "turn"
  <2>1. \A j \in Kids : par'[j] = par[j] \/ j \in late'
    BY <1>3 DEF BrainSpawns, TypeOK
  <2>2. \A j \in Kids : status[j] \in Terminal => status'[j] \in Terminal
    BY DEF BrainSpawns, TypeOK, Terminal
  <2>3. Untouched' <=> Untouched
    BY <1>1 DEF Untouched
  <2> QED BY <1>1, <2>1, <2>2, <2>3, OthersKeepView
<1> QED BY <1>2, <1>3

(* A drive that saw its subtree when it finished leaves no child or        *)
(* grandchild at work, however deep the tree, and whenever children end    *)
(* and spawn between its two reads (orch_subtree.py:162-163,               *)
(* orch_drive.py:152-154), unless a person has adopted or reopened one, or *)
(* it was spawned, unseen, by the brain of a task or turn that was over.   *)
THEOREM FinishedLeavesNobodyAtWork == Spec => []FinishedBlindOrQuiescent
<1>1. Init => ViewHolds /\ LateClosed
  BY DriveAssumption DEF Init, ViewHolds, LateClosed, DriveAssumption
<1>2. TypeOK /\ ViewHolds /\ [Next]_vars => ViewHolds'
  <2> SUFFICES ASSUME TypeOK, ViewHolds, [Next]_vars PROVE ViewHolds'
    OBVIOUS
  <2>1. CASE UNCHANGED vars
    <3>1. UNCHANGED <<roundVars, outcome, status, par, late, acts>>
      BY <2>1 DEF vars, hubVars, kidVars, driveVars
    <3>2. Untouched' <=> Untouched
      BY <3>1 DEF Untouched
    <3> QED BY <3>1, <3>2, OthersKeepView
  <2> QED BY <2>1, DriveKeepsView, BrainKeepsView, ChildrenKeepView, SpawnKeepsView,
             PeopleKeepView DEF Next
<1>3. TypeOK /\ LateClosed /\ [Next]_vars => LateClosed'
  BY StepLate
<1> QED BY <1>1, <1>2, <1>3, ViewHoldsEnough, TypesHold, PTL DEF Spec
=============================================================================
