--------------------------- MODULE DaemonLoopProofs ---------------------------
(* Theorems about DaemonLoop and their proofs.                             *)
EXTENDS DaemonLoop, FiniteSetTheorems, TLAPS

InTurns == {r \in Runs : InTurn(r)}

\* How many runs are in their turn, and how a run more or less changes it.
LEMMA TurnCount ==
  /\ IsFiniteSet(InTurns)
  /\ Cardinality(InTurns) \in Nat
  /\ \A r \in Runs :
       /\ r \in InTurns => /\ Cardinality(InTurns \ {r}) = Cardinality(InTurns) - 1
                           /\ InTurns \cup {r} = InTurns
       /\ r \notin InTurns => /\ Cardinality(InTurns \cup {r}) = Cardinality(InTurns) + 1
                              /\ InTurns \ {r} = InTurns
<1>1. IsFiniteSet(InTurns)
  BY FS_Subset, LoopAssumption DEF InTurns, LoopAssumption
<1>2. Cardinality(InTurns) \in Nat
  BY <1>1, FS_CardinalityType
<1> QED BY <1>1, <1>2, FS_AddElement, FS_RemoveElement

-----------------------------------------------------------------------------
(* The inductive invariant.                                                *)

\* A claim and a run have a task, and a turn that is over has a result.
RunsNamed ==
  /\ pollPc = "claim" => pollTask \in Tasks
  /\ \A r \in Runs : /\ Active(r) => task[r] \in Tasks
                     /\ pc[r] = "report" => result[r] \in Outcomes

IInv == TypeOK /\ RunsNamed /\ PermitsConserved

LEMMA InitIInv == Init => IInv
<1> SUFFICES ASSUME Init PROVE IInv
  OBVIOUS
<1>1. TypeOK
  BY LoopAssumption DEF LoopAssumption, Init, TypeOK, Status, Stages, Outcomes
<1>2. RunsNamed
  BY DEF Init, RunsNamed, Active
<1>3. PermitsConserved
  <2>1. {r \in Runs : InTurn(r)} = {}
    BY DEF Init, InTurn
  <2> QED BY <2>1, FS_EmptySet, LoopAssumption
             DEF Init, PermitsConserved, LoopAssumption
<1> QED BY <1>1, <1>2, <1>3 DEF IInv

\* A run in its turn holds a slot, so there is one to give back.
LEMMA SlotHeld ==
  ASSUME IInv, NEW r \in Runs, InTurn(r)
  PROVE  permits + 1 \in 0..MaxConcurrent
<1>1. permits \in Nat /\ MaxConcurrent \in Nat
  BY LoopAssumption DEF IInv, TypeOK, LoopAssumption
<1>2. Cardinality(InTurns \ {r}) \in Nat
  BY TurnCount, FS_Subset, FS_CardinalityType
<1>3. Cardinality(InTurns \ {r}) = Cardinality(InTurns) - 1
  BY TurnCount DEF InTurns
<1>4. permits + Cardinality(InTurns) = MaxConcurrent
  BY DEF IInv, PermitsConserved, InTurns
<1> QED BY <1>1, <1>2, <1>3, <1>4, TurnCount

\* Every step keeps the types.
LEMMA StepTypes == IInv /\ [Next]_vars => TypeOK' /\ RunsNamed'
<1> SUFFICES ASSUME IInv, [Next]_vars PROVE TypeOK' /\ RunsNamed'
  OBVIOUS
<1> USE LoopAssumption
    DEF LoopAssumption, IInv, TypeOK, RunsNamed, Status, Terminal, Outcomes,
        Stages, Active, hubVars, bookVars, pollVars, runVars
<1>1. CASE PollBegins
  BY <1>1 DEF PollBegins
<1>2. CASE PollListed
  BY <1>2 DEF PollListed
<1>3. CASE PollListFails
  BY <1>3 DEF PollListFails
<1>4. CASE PollEnds
  BY <1>4 DEF PollEnds
<1>5. CASE ClaimRefused
  BY <1>5 DEF ClaimRefused
<1>6. CASE ClaimAnswerLost
  BY <1>6 DEF ClaimAnswerLost
<1>7. ASSUME NEW t \in Tasks, PollSkips(t) PROVE TypeOK' /\ RunsNamed'
  BY <1>7 DEF PollSkips
<1>8. ASSUME NEW t \in Tasks, PollClaims(t) PROVE TypeOK' /\ RunsNamed'
  BY <1>8 DEF PollClaims
<1>9. ASSUME NEW t \in Tasks, CooldownEnds(t) PROVE TypeOK' /\ RunsNamed'
  BY <1>9 DEF CooldownEnds
<1>10. ASSUME NEW t \in Tasks, TaskCancelled(t) PROVE TypeOK' /\ RunsNamed'
  BY <1>10 DEF TaskCancelled
<1>11. ASSUME NEW t \in Tasks, TaskReopened(t) PROVE TypeOK' /\ RunsNamed'
  BY <1>11 DEF TaskReopened
<1>12. ASSUME NEW r \in Runs, ClaimAccepted(r) PROVE TypeOK' /\ RunsNamed'
  BY <1>12 DEF ClaimAccepted
<1>13. ASSUME NEW r \in Runs, InvocationStarts(r) PROVE TypeOK' /\ RunsNamed'
  BY <1>13 DEF InvocationStarts
<1>14. ASSUME NEW r \in Runs, TurnBegins(r) PROVE TypeOK' /\ RunsNamed'
  BY <1>14 DEF TurnBegins
<1>15. ASSUME NEW r \in Runs, PreCheckFails(r) PROVE TypeOK' /\ RunsNamed'
  BY <1>15, SlotHeld DEF InTurn, PreCheckFails
<1>16. ASSUME NEW r \in Runs, WorkBegins(r) PROVE TypeOK' /\ RunsNamed'
  BY <1>16 DEF WorkBegins, HubWrites
<1>17. ASSUME NEW r \in Runs, BackendRaises(r) PROVE TypeOK' /\ RunsNamed'
  BY <1>17, SlotHeld DEF InTurn, BackendRaises
<1>18. ASSUME NEW r \in Runs, TurnEnds(r) PROVE TypeOK' /\ RunsNamed'
  BY <1>18, SlotHeld DEF InTurn, TurnEnds, RunReports, HubWrites
<1>19. ASSUME NEW r \in Runs, BrainSpawns(r) PROVE TypeOK' /\ RunsNamed'
  BY <1>19 DEF BrainSpawns
<1>20. ASSUME NEW r \in Runs, RoutesAsLeaf(r) PROVE TypeOK' /\ RunsNamed'
  BY <1>20 DEF RoutesAsLeaf
<1>21. ASSUME NEW r \in Runs, RoutesAsOrchestrator(r) PROVE TypeOK' /\ RunsNamed'
  BY <1>21 DEF RoutesAsOrchestrator
<1>22. ASSUME NEW r \in Runs, LeafFinalizes(r) PROVE TypeOK' /\ RunsNamed'
  BY <1>22 DEF LeafFinalizes, RunReports, HubWrites
<1>23. ASSUME NEW r \in Runs, RunFails(r) PROVE TypeOK' /\ RunsNamed'
  BY <1>23 DEF RunFails, RunReports, HubWrites
<1>24. ASSUME NEW r \in Runs, RunExits(r) PROVE TypeOK' /\ RunsNamed'
  BY <1>24 DEF RunExits
<1>25. ASSUME NEW r \in Runs, DriveFinishes(r) PROVE TypeOK' /\ RunsNamed'
  BY <1>25 DEF DriveFinishes, DriveReturns, RunReports, HubWrites
<1>26. ASSUME NEW r \in Runs, DriveRetires(r) PROVE TypeOK' /\ RunsNamed'
  BY <1>26 DEF DriveRetires, DriveReturns
<1>27. ASSUME NEW r \in Runs, DriveGivesUp(r) PROVE TypeOK' /\ RunsNamed'
  BY <1>27 DEF DriveGivesUp, DriveReturns
<1>28. ASSUME NEW r \in Runs, DriveRaises(r) PROVE TypeOK' /\ RunsNamed'
  BY <1>28 DEF DriveRaises
<1>29. ASSUME NEW r \in Runs, NEW o \in Outcomes, BrainEnds(r, o) PROVE TypeOK' /\ RunsNamed'
  BY <1>29 DEF BrainEnds
<1>30. ASSUME NEW r \in Runs, NEW t \in Tasks, InvocationArrives(r, t) PROVE TypeOK' /\ RunsNamed'
  BY <1>30 DEF InvocationArrives
<1>31. CASE Stops
  <2>1. InFlight \subseteq Tasks
    BY DEF InFlight
  <2>6. alive' \in BOOLEAN
    BY <1>31 DEF Stops
  <2>7. excused' \subseteq Tasks
    BY <1>31, <2>1 DEF Stops
  <2>8. permits' \in 0..MaxConcurrent
    BY <1>31 DEF Stops
  <2>2. /\ budget' \in [invocations : 0..MaxInvocations, cancels : 0..MaxCancels,
                       reopens : 0..MaxReopens, stops : 0..MaxStops]
    BY <1>31, <2>1 DEF Stops
  <2>3. /\ pc' \in [Runs -> Stages]
        /\ task' \in [Runs -> Tasks \cup {None}]
        /\ result' \in [Runs -> Outcomes \cup {"none"}]
        /\ reported' \in [Runs -> Terminal \cup {"none"}]
        /\ viaA2A' \subseteq Runs
    BY <1>31 DEF Stops
  <2>4. /\ running' \subseteq Tasks /\ orchestrations' \subseteq Tasks
        /\ cooling' \subseteq Tasks /\ pollList' \subseteq Tasks
        /\ pollTask' \in Tasks \cup {None}
        /\ pollPc' \in {"sleep", "list", "scan", "claim", "down"}
        /\ UNCHANGED hubVars
    BY <1>31 DEF Stops
  <2>5. RunsNamed'
    BY <1>31 DEF Stops
  <2> QED BY <2>6, <2>7, <2>8, <2>2, <2>3, <2>4, <2>5
<1>32. CASE Restarts
  BY <1>32 DEF Restarts, Recoverable
<1>33. CASE UNCHANGED vars
  BY <1>33 DEF vars
<1> QED
  BY <1>1, <1>2, <1>3, <1>4, <1>5, <1>6, <1>7, <1>8, <1>9, <1>10, <1>11,
     <1>12, <1>13, <1>14, <1>15, <1>16, <1>17, <1>18, <1>19, <1>20, <1>21,
     <1>22, <1>23, <1>24, <1>25, <1>26, <1>27, <1>28, <1>29, <1>30, <1>31,
     <1>32, <1>33
  DEF Next, Poll, Run, Turn, Route, Drive, Environment

\* Every step either leaves the runs in their turn alone, or brings one in and
\* takes a slot, or lets one out and returns its slot, or clears everything.
LEMMA StepPermits == IInv /\ [Next]_vars => PermitsConserved'
<1> SUFFICES ASSUME IInv, [Next]_vars PROVE PermitsConserved'
  OBVIOUS
<1> DEFINE Keeps      == InTurns' = InTurns /\ permits' = permits
           Enters(r)  == /\ r \notin InTurns /\ InTurns' = InTurns \cup {r}
                         /\ permits' = permits - 1
           Leaves(r)  == /\ r \in InTurns /\ InTurns' = InTurns \ {r}
                         /\ permits' = permits + 1
<1>a. /\ permits \in Nat /\ MaxConcurrent \in Nat
      /\ Cardinality(InTurns) \in Nat
      /\ permits + Cardinality(InTurns) = MaxConcurrent
      /\ PermitsConserved' <=> permits' + Cardinality(InTurns') = MaxConcurrent
  BY LoopAssumption, TurnCount
     DEF IInv, TypeOK, PermitsConserved, InTurns, LoopAssumption
<1>b. Keeps => PermitsConserved'
  BY <1>a
<1>c. ASSUME NEW r \in Runs, Enters(r) PROVE PermitsConserved'
  BY <1>a, <1>c, TurnCount
<1>d. ASSUME NEW r \in Runs, Leaves(r) PROVE PermitsConserved'
  BY <1>a, <1>d, TurnCount
<1> USE DEF IInv, TypeOK, InTurns, InTurn, hubVars, bookVars, pollVars, runVars
<1>1. CASE PollBegins
  BY <1>1, <1>b DEF PollBegins
<1>2. CASE PollListed
  BY <1>2, <1>b DEF PollListed
<1>3. CASE PollListFails
  BY <1>3, <1>b DEF PollListFails
<1>4. CASE PollEnds
  BY <1>4, <1>b DEF PollEnds
<1>5. CASE ClaimRefused
  BY <1>5, <1>b DEF ClaimRefused
<1>6. CASE ClaimAnswerLost
  BY <1>6, <1>b DEF ClaimAnswerLost
<1>7. ASSUME NEW t \in Tasks, PollSkips(t) PROVE Keeps
  BY <1>7 DEF PollSkips
<1>8. ASSUME NEW t \in Tasks, PollClaims(t) PROVE Keeps
  BY <1>8 DEF PollClaims
<1>9. ASSUME NEW t \in Tasks, CooldownEnds(t) PROVE Keeps
  BY <1>9 DEF CooldownEnds
<1>10. ASSUME NEW t \in Tasks, TaskCancelled(t) PROVE Keeps
  BY <1>10 DEF TaskCancelled
<1>11. ASSUME NEW t \in Tasks, TaskReopened(t) PROVE Keeps
  BY <1>11 DEF TaskReopened
<1>12. ASSUME NEW r \in Runs, ClaimAccepted(r) PROVE Keeps
  BY <1>12 DEF ClaimAccepted, Active
<1>13. ASSUME NEW r \in Runs, InvocationStarts(r) PROVE Keeps
  BY <1>13 DEF InvocationStarts
<1>14. ASSUME NEW r \in Runs, TurnBegins(r) PROVE Enters(r)
  BY <1>14 DEF TurnBegins
<1>15. ASSUME NEW r \in Runs, PreCheckFails(r) PROVE Leaves(r)
  BY <1>15 DEF PreCheckFails
<1>16. ASSUME NEW r \in Runs, WorkBegins(r) PROVE Keeps
  BY <1>16 DEF WorkBegins
<1>17. ASSUME NEW r \in Runs, BackendRaises(r) PROVE Leaves(r)
  BY <1>17 DEF BackendRaises
<1>18. ASSUME NEW r \in Runs, TurnEnds(r) PROVE Leaves(r)
  BY <1>18 DEF TurnEnds
<1>19. ASSUME NEW r \in Runs, BrainSpawns(r) PROVE Keeps
  BY <1>19 DEF BrainSpawns
<1>20. ASSUME NEW r \in Runs, RoutesAsLeaf(r) PROVE Keeps
  BY <1>20 DEF RoutesAsLeaf
<1>21. ASSUME NEW r \in Runs, RoutesAsOrchestrator(r) PROVE Keeps
  BY <1>21 DEF RoutesAsOrchestrator
<1>22. ASSUME NEW r \in Runs, LeafFinalizes(r) PROVE Keeps
  BY <1>22 DEF LeafFinalizes
<1>23. ASSUME NEW r \in Runs, RunFails(r) PROVE Keeps
  BY <1>23 DEF RunFails
<1>24. ASSUME NEW r \in Runs, RunExits(r) PROVE Keeps
  BY <1>24 DEF RunExits
<1>25. ASSUME NEW r \in Runs, DriveFinishes(r) PROVE Keeps
  BY <1>25 DEF DriveFinishes, DriveReturns
<1>26. ASSUME NEW r \in Runs, DriveRetires(r) PROVE Keeps
  BY <1>26 DEF DriveRetires, DriveReturns
<1>27. ASSUME NEW r \in Runs, DriveGivesUp(r) PROVE Keeps
  BY <1>27 DEF DriveGivesUp, DriveReturns
<1>28. ASSUME NEW r \in Runs, DriveRaises(r) PROVE Keeps
  BY <1>28 DEF DriveRaises
<1>29. ASSUME NEW r \in Runs, NEW o \in Outcomes, BrainEnds(r, o) PROVE Keeps
  BY <1>29 DEF BrainEnds
<1>30. ASSUME NEW r \in Runs, NEW t \in Tasks, InvocationArrives(r, t) PROVE Keeps
  BY <1>30 DEF InvocationArrives, Active
<1>31. CASE Stops
  <2>1. InTurns' = {} /\ permits' = MaxConcurrent
    BY <1>31 DEF Stops
  <2> QED BY <1>a, <2>1, FS_EmptySet
<1>32. CASE Restarts
  BY <1>32, <1>b DEF Restarts
<1>33. CASE UNCHANGED vars
  BY <1>33, <1>b DEF vars
<1> QED
  BY <1>b, <1>c, <1>d, <1>1, <1>2, <1>3, <1>4, <1>5, <1>6, <1>7, <1>8,
     <1>9, <1>10, <1>11, <1>12, <1>13, <1>14, <1>15, <1>16, <1>17, <1>18,
     <1>19, <1>20, <1>21, <1>22, <1>23, <1>24, <1>25, <1>26, <1>27, <1>28,
     <1>29, <1>30, <1>31, <1>32, <1>33
  DEF Next, Poll, Run, Turn, Route, Drive, Environment

LEMMA Inductive == Spec => []IInv
<1>1. IInv /\ [Next]_vars => IInv'
  BY StepTypes, StepPermits DEF IInv
<1> QED BY InitIInv, <1>1, PTL DEF Spec

(* Every variable keeps to its type: in particular the semaphore is never  *)
(* released more often than it was taken, so it never admits more than     *)
(* MaxConcurrent turns.                                                    *)
THEOREM TypesHold == Spec => []TypeOK
BY Inductive, PTL DEF IInv

(* No way out of a brain turn leaks or invents a slot (loop.py:592-597).   *)
THEOREM PermitsHold == Spec => []PermitsConserved
BY Inductive, PTL DEF IInv

-----------------------------------------------------------------------------
(* No task is stranded silently.                                           *)

\* A run that will still say, or excuse, how its task ended.
Owes(r) ==
  \/ pc[r] \in {"sem", "setup", "brain", "finalize", "orch", "fail"}
  \/ pc[r] = "report" /\ result[r] # "cancelled"
  \/ pc[r] = "route" /\ result[r] = "success"

InProgress(t) == hub[t] \in {"claimed", "working"}

\* NoSilentStranding is not inductive: the run that is in flight must be one
\* that has not had its last word, and with two runs on a task the first to end
\* must not be the one the task depended on.
Owed ==
  \A t \in Tasks :
    InProgress(t) /\ t \notin excused => \E r \in Runs : Owes(r) /\ task[r] = t

LEMMA OwedStep == IInv /\ Owed /\ [Next]_vars => Owed'
<1> SUFFICES ASSUME IInv, Owed, [Next]_vars PROVE Owed'
  OBVIOUS
<1> DEFINE Settled(t) == \/ hub'[t] \notin {"claimed", "working"}
                         \/ t \in excused'
           Others(t)  == \A u \in Tasks \ {t} :
                           ~Settled(u) => InProgress(u) /\ u \notin excused
           Spared(r)  == \A q \in Runs \ {r} :
                           Owes(q) => Owes(q)' /\ task'[q] = task[q]
           \* Nothing new is in progress, and every run that owes goes on.
           Idle       == /\ \A u \in Tasks :
                              ~Settled(u) => InProgress(u) /\ u \notin excused
                         /\ \A q \in Runs :
                              Owes(q) => Owes(q)' /\ task'[q] = task[q]
           \* r has had its last word.
           Pays(r)    == Settled(task[r]) /\ Others(task[r]) /\ Spared(r)
           \* r owes now, whatever it did before.
           Takes(r)   == /\ Owes(r)' /\ Others(task'[r]) /\ Spared(r)
                         /\ Owes(r) => task'[r] = task[r]
<1>a. Idle => Owed'
  BY DEF Owed, InProgress
<1>b. ASSUME NEW r \in Runs, Pays(r) PROVE Owed'
  <2> SUFFICES ASSUME NEW t \in Tasks, ~Settled(t)
               PROVE  \E q \in Runs : Owes(q)' /\ task'[q] = t
    BY DEF Owed, InProgress
  <2>1. t # task[r] /\ InProgress(t) /\ t \notin excused
    BY <1>b
  <2>2. PICK q \in Runs : Owes(q) /\ task[q] = t
    BY <2>1 DEF Owed
  <2> QED BY <1>b, <2>1, <2>2
<1>c. ASSUME NEW r \in Runs, Takes(r) PROVE Owed'
  BY <1>c DEF Owed, InProgress
<1> USE DEF IInv, TypeOK, RunsNamed, Active, Owes, InProgress, hubVars, bookVars, pollVars,
            runVars
<1>1. CASE PollBegins
  BY <1>1, <1>a DEF PollBegins
<1>2. CASE PollListed
  BY <1>2, <1>a DEF PollListed
<1>3. CASE PollListFails
  BY <1>3, <1>a DEF PollListFails
<1>4. CASE PollEnds
  BY <1>4, <1>a DEF PollEnds
<1>5. CASE ClaimRefused
  BY <1>5, <1>a DEF ClaimRefused
<1>6. CASE ClaimAnswerLost
  BY <1>6, <1>a DEF ClaimAnswerLost
<1>7. ASSUME NEW t \in Tasks, PollSkips(t) PROVE Idle
  BY <1>7 DEF PollSkips
<1>8. ASSUME NEW t \in Tasks, PollClaims(t) PROVE Idle
  BY <1>8 DEF PollClaims
<1>9. ASSUME NEW t \in Tasks, CooldownEnds(t) PROVE Idle
  BY <1>9 DEF CooldownEnds
<1>10. ASSUME NEW t \in Tasks, TaskCancelled(t) PROVE Idle
  BY <1>10 DEF TaskCancelled
<1>11. ASSUME NEW t \in Tasks, TaskReopened(t) PROVE Idle
  BY <1>11 DEF TaskReopened
<1>12. ASSUME NEW r \in Runs, ClaimAccepted(r) PROVE Takes(r)
  BY <1>12 DEF ClaimAccepted
<1>13. ASSUME NEW r \in Runs, InvocationStarts(r) PROVE Takes(r)
  BY <1>13 DEF InvocationStarts
<1>14. ASSUME NEW r \in Runs, TurnBegins(r) PROVE Idle
  BY <1>14 DEF TurnBegins
<1>15. ASSUME NEW r \in Runs, PreCheckFails(r) PROVE Pays(r)
  BY <1>15 DEF PreCheckFails
<1>16. ASSUME NEW r \in Runs, WorkBegins(r) PROVE Takes(r)
  BY <1>16 DEF WorkBegins, HubWrites
<1>17. ASSUME NEW r \in Runs, BackendRaises(r) PROVE Idle
  BY <1>17 DEF BackendRaises
<1>18. ASSUME NEW r \in Runs, TurnEnds(r) PROVE Owed'
  <2>1. CASE result[r] \in {"pending", "failed"}
    <3>1. Pays(r)
      BY <1>18, <2>1 DEF TurnEnds, RunReports, HubWrites, Terminal
    <3> QED BY <3>1, <1>b
  <2>2. CASE result[r] \notin {"pending", "failed"}
    <3>1. Idle
      BY <1>18, <2>2 DEF TurnEnds, Outcomes
    <3> QED BY <3>1, <1>a
  <2> QED BY <2>1, <2>2
<1>19. ASSUME NEW r \in Runs, BrainSpawns(r) PROVE Idle
  BY <1>19 DEF BrainSpawns
<1>20. ASSUME NEW r \in Runs, RoutesAsLeaf(r) PROVE Idle
  BY <1>20 DEF RoutesAsLeaf, TurnSucceeded
<1>21. ASSUME NEW r \in Runs, RoutesAsOrchestrator(r) PROVE Takes(r)
  BY <1>21 DEF RoutesAsOrchestrator
<1>22. ASSUME NEW r \in Runs, LeafFinalizes(r) PROVE Pays(r)
  BY <1>22 DEF LeafFinalizes, RunReports, HubWrites
<1>23. ASSUME NEW r \in Runs, RunFails(r) PROVE Pays(r)
  BY <1>23 DEF RunFails, RunReports, HubWrites
<1>24. ASSUME NEW r \in Runs, RunExits(r) PROVE Idle
  BY <1>24 DEF RunExits
<1>25. ASSUME NEW r \in Runs, DriveFinishes(r) PROVE Pays(r)
  BY <1>25 DEF DriveFinishes, DriveReturns, RunReports, HubWrites
<1>26. ASSUME NEW r \in Runs, DriveRetires(r) PROVE Pays(r)
  BY <1>26 DEF DriveRetires, DriveReturns
<1>27. ASSUME NEW r \in Runs, DriveGivesUp(r) PROVE Pays(r)
  BY <1>27 DEF DriveGivesUp, DriveReturns
<1>28. ASSUME NEW r \in Runs, DriveRaises(r) PROVE Idle
  BY <1>28 DEF DriveRaises
<1>29. ASSUME NEW r \in Runs, NEW o \in Outcomes, BrainEnds(r, o) PROVE Owed'
  <2>1. CASE o = "cancelled"
    <3>1. Pays(r)
      BY <1>29, <2>1 DEF BrainEnds
    <3> QED BY <3>1, <1>b
  <2>2. CASE o # "cancelled"
    <3>1. Idle
      BY <1>29, <2>2 DEF BrainEnds
    <3> QED BY <3>1, <1>a
  <2> QED BY <2>1, <2>2
<1>30. ASSUME NEW r \in Runs, NEW t \in Tasks, InvocationArrives(r, t) PROVE Idle
  BY <1>30 DEF InvocationArrives
<1>31. CASE Stops
  <2>1. \A t \in Tasks : Settled(t)
    BY <1>31 DEF Stops, InFlight, Owed
  <2> QED BY <2>1 DEF Owed
<1>32. CASE Restarts
  BY <1>32, <1>a DEF Restarts, Recoverable
<1>33. CASE UNCHANGED vars
  BY <1>33, <1>a DEF vars
<1> QED
  BY <1>a, <1>b, <1>c, <1>1, <1>2, <1>3, <1>4, <1>5, <1>6, <1>7, <1>8,
     <1>9, <1>10, <1>11, <1>12, <1>13, <1>14, <1>15, <1>16, <1>17, <1>18,
     <1>19, <1>20, <1>21, <1>22, <1>23, <1>24, <1>25, <1>26, <1>27, <1>28,
     <1>29, <1>30, <1>31, <1>32, <1>33
  DEF Next, Poll, Run, Turn, Route, Drive, Environment

(* However runs, people, faults and restarts interleave, a task that is    *)
(* claimed or working is being run, or a failure the model names has left  *)
(* it there: every other way through _execute_task gives it a status.      *)
THEOREM NothingStrandsSilently == Spec => []NoSilentStranding
<1>1. Init => Owed
  BY DEF Init, Owed, InProgress
<1>2. IInv /\ Owed => NoSilentStranding
  BY DEF IInv, TypeOK, Owed, NoSilentStranding, InProgress, Owes, InFlight, Active
<1> QED BY <1>1, <1>2, OwedStep, Inductive, PTL DEF Spec

-----------------------------------------------------------------------------
(* Without invocations, one run per task.                                  *)

NoInvocations ==
  /\ budget.invocations = 0
  /\ \A r \in Runs : pc[r] # "prompt"

\* OneRunPerTask is not inductive: what bars a second claim is _running_tasks,
\* which must be exact, also for the task whose claim is on its way.
Single ==
  /\ NoInvocations
  /\ RunningIsExact
  /\ OneRunPerTask
  /\ pollPc = "claim" => pollTask \notin running

LEMMA SingleStep == IInv /\ Single /\ [Next]_vars => Single'
<1> SUFFICES ASSUME IInv, Single, [Next]_vars PROVE Single'
  OBVIOUS
<1> DEFINE \* No run begins or ends, and no claim is sent for a running task.
           SameRuns == /\ running' = running /\ task' = task
                       /\ \A q \in Runs : /\ Active(q)' <=> Active(q)
                                          /\ pc'[q] # "prompt"
                       /\ budget'.invocations = 0
                       /\ pollPc' = "claim" => pollTask' \notin running
<1>a. SameRuns => Single'
  BY DEF Single, NoInvocations, RunningIsExact, OneRunPerTask, InFlight
<1> USE DEF IInv, TypeOK, Single, NoInvocations, Active, hubVars, bookVars, pollVars,
            runVars
<1>1. CASE PollBegins
  BY <1>1, <1>a DEF PollBegins
<1>2. CASE PollListed
  BY <1>2, <1>a DEF PollListed
<1>3. CASE PollListFails
  BY <1>3, <1>a DEF PollListFails
<1>4. CASE PollEnds
  BY <1>4, <1>a DEF PollEnds
<1>5. CASE ClaimRefused
  BY <1>5, <1>a DEF ClaimRefused
<1>6. CASE ClaimAnswerLost
  BY <1>6, <1>a DEF ClaimAnswerLost
<1>7. ASSUME NEW t \in Tasks, PollSkips(t) PROVE SameRuns
  BY <1>7 DEF PollSkips
<1>8. ASSUME NEW t \in Tasks, PollClaims(t) PROVE SameRuns
  BY <1>8 DEF PollClaims, Eligible
<1>9. ASSUME NEW t \in Tasks, CooldownEnds(t) PROVE SameRuns
  BY <1>9 DEF CooldownEnds
<1>10. ASSUME NEW t \in Tasks, TaskCancelled(t) PROVE SameRuns
  BY <1>10 DEF TaskCancelled
<1>11. ASSUME NEW t \in Tasks, TaskReopened(t) PROVE SameRuns
  BY <1>11 DEF TaskReopened
<1>12. ASSUME NEW r \in Runs, ClaimAccepted(r) PROVE Single'
  <2>1. /\ running' = running \cup {pollTask} /\ pollTask \notin running
        /\ task' = [task EXCEPT ![r] = pollTask] /\ pc' = [pc EXCEPT ![r] = "sem"]
        /\ pc[r] = "idle" /\ pollPc' = "scan" /\ budget' = budget
    BY <1>12 DEF ClaimAccepted
  <2>2. RunningIsExact'
    BY <2>1 DEF RunningIsExact, InFlight
  <2>3. OneRunPerTask'
    BY <2>1 DEF RunningIsExact, InFlight, OneRunPerTask
  <2> QED BY <2>1, <2>2, <2>3
<1>13. ASSUME NEW r \in Runs, InvocationStarts(r) PROVE SameRuns
  BY <1>13 DEF InvocationStarts
<1>14. ASSUME NEW r \in Runs, TurnBegins(r) PROVE SameRuns
  BY <1>14 DEF TurnBegins
<1>15. ASSUME NEW r \in Runs, PreCheckFails(r) PROVE SameRuns
  BY <1>15 DEF PreCheckFails
<1>16. ASSUME NEW r \in Runs, WorkBegins(r) PROVE SameRuns
  BY <1>16 DEF WorkBegins
<1>17. ASSUME NEW r \in Runs, BackendRaises(r) PROVE SameRuns
  BY <1>17 DEF BackendRaises
<1>18. ASSUME NEW r \in Runs, TurnEnds(r) PROVE SameRuns
  BY <1>18 DEF TurnEnds
<1>19. ASSUME NEW r \in Runs, BrainSpawns(r) PROVE SameRuns
  BY <1>19 DEF BrainSpawns
<1>20. ASSUME NEW r \in Runs, RoutesAsLeaf(r) PROVE SameRuns
  BY <1>20 DEF RoutesAsLeaf
<1>21. ASSUME NEW r \in Runs, RoutesAsOrchestrator(r) PROVE SameRuns
  BY <1>21 DEF RoutesAsOrchestrator
<1>22. ASSUME NEW r \in Runs, LeafFinalizes(r) PROVE SameRuns
  BY <1>22 DEF LeafFinalizes
<1>23. ASSUME NEW r \in Runs, RunFails(r) PROVE SameRuns
  BY <1>23 DEF RunFails
<1>24. ASSUME NEW r \in Runs, RunExits(r) PROVE Single'
  <2>1. /\ running' = running \ {task[r]} /\ pc[r] # "idle"
        /\ task' = [task EXCEPT ![r] = None] /\ pc' = [pc EXCEPT ![r] = "idle"]
        /\ pollPc' = pollPc /\ pollTask' = pollTask /\ budget' = budget
    BY <1>24 DEF RunExits
  <2>2. RunningIsExact'
    BY <2>1 DEF RunningIsExact, InFlight, OneRunPerTask
  <2>3. OneRunPerTask'
    BY <2>1 DEF OneRunPerTask
  <2> QED BY <2>1, <2>2, <2>3
<1>25. ASSUME NEW r \in Runs, DriveFinishes(r) PROVE SameRuns
  BY <1>25 DEF DriveFinishes, DriveReturns
<1>26. ASSUME NEW r \in Runs, DriveRetires(r) PROVE SameRuns
  BY <1>26 DEF DriveRetires, DriveReturns
<1>27. ASSUME NEW r \in Runs, DriveGivesUp(r) PROVE SameRuns
  BY <1>27 DEF DriveGivesUp, DriveReturns
<1>28. ASSUME NEW r \in Runs, DriveRaises(r) PROVE SameRuns
  BY <1>28 DEF DriveRaises
<1>29. ASSUME NEW r \in Runs, NEW o \in Outcomes, BrainEnds(r, o) PROVE SameRuns
  BY <1>29 DEF BrainEnds
<1>30. ASSUME NEW r \in Runs, NEW t \in Tasks, InvocationArrives(r, t) PROVE SameRuns
  BY <1>30 DEF InvocationArrives
<1>31. CASE Stops
  <2>1. RunningIsExact' /\ OneRunPerTask'
    BY <1>31 DEF Stops, RunningIsExact, InFlight, OneRunPerTask
  <2>2. NoInvocations' /\ pollPc' # "claim"
    BY <1>31 DEF Stops
  <2> QED BY <2>1, <2>2
<1>32. CASE Restarts
  BY <1>32, <1>a DEF Restarts
<1>33. CASE UNCHANGED vars
  BY <1>33, <1>a DEF vars
<1> QED
  BY <1>a, <1>1, <1>2, <1>3, <1>4, <1>5, <1>6, <1>7, <1>8, <1>9, <1>10,
     <1>11, <1>12, <1>13, <1>14, <1>15, <1>16, <1>17, <1>18, <1>19, <1>20,
     <1>21, <1>22, <1>23, <1>24, <1>25, <1>26, <1>27, <1>28, <1>29, <1>30,
     <1>31, <1>32, <1>33
  DEF Next, Poll, Run, Turn, Route, Drive, Environment

LEMMA SingleHolds == ASSUME MaxInvocations = 0 PROVE Spec => []Single
<1>1. Init => Single
  BY DEF Init, Single, NoInvocations, RunningIsExact, InFlight, OneRunPerTask,
         Active
<1> QED BY <1>1, SingleStep, Inductive, PTL DEF Spec

(* On a daemon that gets no A2A invocations, _running_tasks is exactly the *)
(* tasks being run.                                                        *)
THEOREM RunningExact == ASSUME MaxInvocations = 0 PROVE Spec => []RunningIsExact
BY SingleHolds, PTL DEF Single

(* On such a daemon no task is ever run twice at once, whatever people     *)
(* reopen, and whatever answers get lost.                                  *)
THEOREM NoTwins == ASSUME MaxInvocations = 0 PROVE Spec => []OneRunPerTask
BY SingleHolds, PTL DEF Single
-----------------------------------------------------------------------------
(* Without faults, a claimed task finds its slot free.                     *)

\* The tasks that _worker_load counts.
Loaded == running \ orchestrations

\* What is counted is finite, because the runs are; less is not more.
LEMMA LoadCount ==
  ASSUME IInv, Single
  PROVE  /\ IsFiniteSet(Loaded)
         /\ Cardinality(Loaded) \in Nat
         /\ \A S : S \subseteq Loaded =>
              IsFiniteSet(S) /\ Cardinality(S) \in Nat /\ Cardinality(S) <= Cardinality(Loaded)
         /\ \A t : IsFiniteSet(Loaded \cup {t})
                  /\ Cardinality(Loaded \cup {t}) <= Cardinality(Loaded) + 1
<1>1. IsFiniteSet(running)
  <2>1. IsFiniteSet({q \in Runs : Active(q)})
    BY FS_Subset, LoopAssumption DEF LoopAssumption
  <2> DEFINE busy == {q \in Runs : Active(q)}
             f    == [q \in busy |-> task[q]]
  <2>2. f \in Surjection(busy, InFlight)
    BY DEF Surjection, InFlight
  <2>3. IsFiniteSet(InFlight)
    <3> HIDE DEF f
    <3> QED BY <2>1, <2>2, FS_Surjection
  <2> QED BY <2>3 DEF Single, RunningIsExact
<1>2. IsFiniteSet(Loaded)
  BY <1>1, FS_Subset DEF Loaded
<1>3. Cardinality(Loaded) \in Nat
  BY <1>2, FS_CardinalityType
<1>4. \A S : S \subseteq Loaded =>
        IsFiniteSet(S) /\ Cardinality(S) \in Nat /\ Cardinality(S) <= Cardinality(Loaded)
  BY <1>2, FS_Subset, FS_CardinalityType
<1>5. ASSUME NEW t
      PROVE  IsFiniteSet(Loaded \cup {t})
             /\ Cardinality(Loaded \cup {t}) <= Cardinality(Loaded) + 1
  BY <1>2, <1>3, FS_AddElement
<1> QED BY <1>2, <1>3, <1>4, <1>5

\* ClaimsFitSlots is not inductive: the slot that was free when the claim was
\* sent must still be free when krewhub answers.
Fits ==
  /\ ClaimsFitSlots
  /\ pollPc = "claim" => HasSlot

LEMMA FitsStep ==
  ASSUME Faulty = FALSE, IInv, Single, Fits, [Next]_vars
  PROVE  Fits'
<1> DEFINE \* Nothing is loaded, and a claim that is sent had a slot.
           NoMore == /\ Loaded' \subseteq Loaded
                     /\ pollPc' = "claim" => pollPc = "claim" \/ HasSlot
<1>a. /\ WorkerLoad = Cardinality(Loaded) /\ WorkerLoad' = Cardinality(Loaded')
      /\ MaxConcurrent \in Nat
  BY LoopAssumption DEF WorkerLoad, Loaded, LoopAssumption
<1>b. NoMore => Fits'
  <2> SUFFICES ASSUME NoMore PROVE Fits'
    OBVIOUS
  <2>1. /\ Cardinality(Loaded') \in Nat /\ Cardinality(Loaded) \in Nat
        /\ Cardinality(Loaded') <= Cardinality(Loaded)
    BY LoadCount
  <2> QED BY <1>a, <2>1 DEF Fits, ClaimsFitSlots, HasSlot
<1> USE DEF Single, NoInvocations, Loaded, hubVars, bookVars, pollVars, runVars
<1>1. CASE PollBegins
  BY <1>1, <1>b DEF PollBegins
<1>2. CASE PollListed
  BY <1>2, <1>b DEF PollListed
<1>3. CASE PollListFails
  BY <1>3, <1>b DEF PollListFails
<1>4. CASE PollEnds
  BY <1>4, <1>b DEF PollEnds
<1>5. CASE ClaimRefused
  BY <1>5, <1>b DEF ClaimRefused
<1>6. CASE ClaimAnswerLost
  BY <1>6, <1>b DEF ClaimAnswerLost
<1>7. ASSUME NEW t \in Tasks, PollSkips(t) PROVE NoMore
  BY <1>7 DEF PollSkips
<1>8. ASSUME NEW t \in Tasks, PollClaims(t) PROVE NoMore
  BY <1>8 DEF PollClaims
<1>9. ASSUME NEW t \in Tasks, CooldownEnds(t) PROVE NoMore
  BY <1>9 DEF CooldownEnds
<1>10. ASSUME NEW t \in Tasks, TaskCancelled(t) PROVE NoMore
  BY <1>10 DEF TaskCancelled
<1>11. ASSUME NEW t \in Tasks, TaskReopened(t) PROVE NoMore
  BY <1>11 DEF TaskReopened
<1>12. ASSUME NEW r \in Runs, ClaimAccepted(r) PROVE Fits'
  <2>1. Loaded' \subseteq Loaded \cup {pollTask} /\ pollPc' = "scan" /\ HasSlot
    BY <1>12 DEF ClaimAccepted, Fits
  <2>2. /\ IsFiniteSet(Loaded \cup {pollTask})
        /\ Cardinality(Loaded \cup {pollTask}) <= Cardinality(Loaded) + 1
        /\ Cardinality(Loaded) \in Nat
    BY LoadCount
  <2>3. /\ Cardinality(Loaded') \in Nat /\ Cardinality(Loaded \cup {pollTask}) \in Nat
        /\ Cardinality(Loaded') <= Cardinality(Loaded \cup {pollTask})
    BY <2>1, <2>2, FS_Subset, FS_CardinalityType
  <2> QED BY <1>a, <2>1, <2>2, <2>3 DEF Fits, ClaimsFitSlots, HasSlot
<1>13. ASSUME NEW r \in Runs, InvocationStarts(r) PROVE NoMore
  BY <1>13 DEF InvocationStarts
<1>14. ASSUME NEW r \in Runs, TurnBegins(r) PROVE NoMore
  BY <1>14 DEF TurnBegins
<1>15. ASSUME NEW r \in Runs, PreCheckFails(r) PROVE NoMore
  BY <1>15 DEF PreCheckFails
<1>16. ASSUME NEW r \in Runs, WorkBegins(r) PROVE NoMore
  BY <1>16 DEF WorkBegins
<1>17. ASSUME NEW r \in Runs, BackendRaises(r) PROVE NoMore
  BY <1>17 DEF BackendRaises
<1>18. ASSUME NEW r \in Runs, TurnEnds(r) PROVE NoMore
  BY <1>18 DEF TurnEnds
<1>19. ASSUME NEW r \in Runs, BrainSpawns(r) PROVE NoMore
  BY <1>19 DEF BrainSpawns
<1>20. ASSUME NEW r \in Runs, RoutesAsLeaf(r) PROVE NoMore
  BY <1>20 DEF RoutesAsLeaf
<1>21. ASSUME NEW r \in Runs, RoutesAsOrchestrator(r) PROVE NoMore
  BY <1>21 DEF RoutesAsOrchestrator
<1>22. ASSUME NEW r \in Runs, LeafFinalizes(r) PROVE NoMore
  BY <1>22 DEF LeafFinalizes
<1>23. ASSUME NEW r \in Runs, RunFails(r) PROVE NoMore
  BY <1>23 DEF RunFails
<1>24. ASSUME NEW r \in Runs, RunExits(r) PROVE NoMore
  BY <1>24 DEF RunExits
<1>25. ASSUME NEW r \in Runs, DriveFinishes(r) PROVE NoMore
  BY <1>25 DEF DriveFinishes, DriveReturns
<1>26. ASSUME NEW r \in Runs, DriveRetires(r) PROVE NoMore
  BY <1>26 DEF DriveRetires, DriveReturns
<1>27. ASSUME NEW r \in Runs, DriveGivesUp(r) PROVE NoMore
  BY <1>27 DEF DriveGivesUp, DriveReturns
<1>28. ASSUME NEW r \in Runs, DriveRaises(r) PROVE NoMore
  BY <1>28 DEF DriveRaises
<1>29. ASSUME NEW r \in Runs, NEW o \in Outcomes, BrainEnds(r, o) PROVE NoMore
  BY <1>29 DEF BrainEnds
<1>30. ASSUME NEW r \in Runs, NEW t \in Tasks, InvocationArrives(r, t) PROVE NoMore
  BY <1>30 DEF InvocationArrives
<1>31. CASE Stops
  BY <1>31, <1>b DEF Stops
<1>32. CASE Restarts
  BY <1>32, <1>b DEF Restarts
<1>33. CASE UNCHANGED vars
  BY <1>33, <1>b DEF vars
<1> QED
  BY <1>b, <1>1, <1>2, <1>3, <1>4, <1>5, <1>6, <1>7, <1>8, <1>9, <1>10,
     <1>11, <1>12, <1>13, <1>14, <1>15, <1>16, <1>17, <1>18, <1>19, <1>20,
     <1>21, <1>22, <1>23, <1>24, <1>25, <1>26, <1>27, <1>28, <1>29, <1>30,
     <1>31, <1>32, <1>33
  DEF Next, Poll, Run, Turn, Route, Drive, Environment

LEMMA FitsHolds ==
  ASSUME MaxInvocations = 0, Faulty = FALSE
  PROVE  Spec => []Fits
<1>1. Init => Fits
  <2> SUFFICES ASSUME Init PROVE Fits
    OBVIOUS
  <2>1. running \ orchestrations = {} /\ pollPc # "claim"
    BY DEF Init
  <2> QED BY <2>1, FS_EmptySet, LoopAssumption
             DEF Fits, ClaimsFitSlots, WorkerLoad, LoopAssumption
<1>2. IInv /\ Single /\ Fits /\ [Next]_vars => Fits'
  BY FitsStep
<1> QED BY <1>1, <1>2, Inductive, SingleHolds, PTL DEF Spec

(* When krewhub answers and only the poll loop starts runs, a task is only *)
(* claimed if a slot is free for it, and the slot is still free when the   *)
(* claim is granted, however many runs end, are routed or are driven       *)
(* meanwhile (loop.py:394, 419).  With faults it is not so: a drive that   *)
(* raises turns from an orchestration into a load.                         *)
THEOREM ClaimsFit ==
  ASSUME MaxInvocations = 0, Faulty = FALSE
  PROVE  Spec => []ClaimsFitSlots
BY FitsHolds, PTL DEF Fits

\* What is in _orchestrations is being driven, and not yet out of the `finally`.
Driven ==
  \A t \in orchestrations :
    \E r \in Runs : task[r] = t /\ pc[r] \in {"orch", "leave"}

LEMMA DrivenStep == IInv /\ Driven /\ [Next]_vars => Driven'
<1> SUFFICES ASSUME IInv, Driven, [Next]_vars PROVE Driven'
  OBVIOUS
<1> DEFINE \* A run that drives goes on, or its task is out.
           Kept == \A q \in Runs :
                     pc[q] \in {"orch", "leave"} =>
                       \/ pc'[q] \in {"orch", "leave"} /\ task'[q] = task[q]
                       \/ task[q] \notin orchestrations'
           Out  == Kept /\ orchestrations' \subseteq orchestrations
<1>a. Out => Driven'
  BY DEF Driven
<1> USE DEF IInv, TypeOK, Active, hubVars, bookVars, pollVars, runVars
<1>1. CASE PollBegins
  BY <1>1, <1>a DEF PollBegins
<1>2. CASE PollListed
  BY <1>2, <1>a DEF PollListed
<1>3. CASE PollListFails
  BY <1>3, <1>a DEF PollListFails
<1>4. CASE PollEnds
  BY <1>4, <1>a DEF PollEnds
<1>5. CASE ClaimRefused
  BY <1>5, <1>a DEF ClaimRefused
<1>6. CASE ClaimAnswerLost
  BY <1>6, <1>a DEF ClaimAnswerLost
<1>7. ASSUME NEW t \in Tasks, PollSkips(t) PROVE Out
  BY <1>7 DEF PollSkips
<1>8. ASSUME NEW t \in Tasks, PollClaims(t) PROVE Out
  BY <1>8 DEF PollClaims
<1>9. ASSUME NEW t \in Tasks, CooldownEnds(t) PROVE Out
  BY <1>9 DEF CooldownEnds
<1>10. ASSUME NEW t \in Tasks, TaskCancelled(t) PROVE Out
  BY <1>10 DEF TaskCancelled
<1>11. ASSUME NEW t \in Tasks, TaskReopened(t) PROVE Out
  BY <1>11 DEF TaskReopened
<1>12. ASSUME NEW r \in Runs, ClaimAccepted(r) PROVE Out
  BY <1>12 DEF ClaimAccepted
<1>13. ASSUME NEW r \in Runs, InvocationStarts(r) PROVE Out
  BY <1>13 DEF InvocationStarts
<1>14. ASSUME NEW r \in Runs, TurnBegins(r) PROVE Out
  BY <1>14 DEF TurnBegins
<1>15. ASSUME NEW r \in Runs, PreCheckFails(r) PROVE Out
  BY <1>15 DEF PreCheckFails
<1>16. ASSUME NEW r \in Runs, WorkBegins(r) PROVE Out
  BY <1>16 DEF WorkBegins
<1>17. ASSUME NEW r \in Runs, BackendRaises(r) PROVE Out
  BY <1>17 DEF BackendRaises
<1>18. ASSUME NEW r \in Runs, TurnEnds(r) PROVE Out
  BY <1>18 DEF TurnEnds
<1>19. ASSUME NEW r \in Runs, BrainSpawns(r) PROVE Out
  BY <1>19 DEF BrainSpawns
<1>20. ASSUME NEW r \in Runs, RoutesAsLeaf(r) PROVE Out
  BY <1>20 DEF RoutesAsLeaf
<1>21. ASSUME NEW r \in Runs, RoutesAsOrchestrator(r) PROVE Driven'
  <2>1. /\ orchestrations' = orchestrations \cup {task[r]} /\ task' = task
        /\ pc[r] = "route" /\ pc' = [pc EXCEPT ![r] = "orch"]
    BY <1>21 DEF RoutesAsOrchestrator
  <2> QED BY <2>1 DEF Driven
<1>22. ASSUME NEW r \in Runs, LeafFinalizes(r) PROVE Out
  BY <1>22 DEF LeafFinalizes
<1>23. ASSUME NEW r \in Runs, RunFails(r) PROVE Out
  BY <1>23 DEF RunFails
<1>24. ASSUME NEW r \in Runs, RunExits(r) PROVE Out
  BY <1>24 DEF RunExits
<1>25. ASSUME NEW r \in Runs, DriveFinishes(r) PROVE Out
  BY <1>25 DEF DriveFinishes, DriveReturns
<1>26. ASSUME NEW r \in Runs, DriveRetires(r) PROVE Out
  BY <1>26 DEF DriveRetires, DriveReturns
<1>27. ASSUME NEW r \in Runs, DriveGivesUp(r) PROVE Out
  BY <1>27 DEF DriveGivesUp, DriveReturns
<1>28. ASSUME NEW r \in Runs, DriveRaises(r) PROVE Out
  BY <1>28 DEF DriveRaises
<1>29. ASSUME NEW r \in Runs, NEW o \in Outcomes, BrainEnds(r, o) PROVE Out
  BY <1>29 DEF BrainEnds
<1>30. ASSUME NEW r \in Runs, NEW t \in Tasks, InvocationArrives(r, t) PROVE Out
  BY <1>30 DEF InvocationArrives
<1>31. CASE Stops
  BY <1>31 DEF Stops, Driven
<1>32. CASE Restarts
  BY <1>32, <1>a DEF Restarts
<1>33. CASE UNCHANGED vars
  BY <1>33, <1>a DEF vars
<1> QED
  BY <1>a, <1>1, <1>2, <1>3, <1>4, <1>5, <1>6, <1>7, <1>8, <1>9, <1>10,
     <1>11, <1>12, <1>13, <1>14, <1>15, <1>16, <1>17, <1>18, <1>19, <1>20,
     <1>21, <1>22, <1>23, <1>24, <1>25, <1>26, <1>27, <1>28, <1>29, <1>30,
     <1>31, <1>32, <1>33
  DEF Next, Poll, Run, Turn, Route, Drive, Environment

\* A run at `async with self._semaphore` goes through at once.
ClaimedNeverWaits == \A r \in Runs : pc[r] = "sem" => permits > 0

\* The runs that want or hold a slot have as many tasks, and each is loaded.
LEMMA WantedIsLoaded ==
  ASSUME IInv, Single, Fits, Driven
  PROVE  ClaimedNeverWaits
<1> SUFFICES ASSUME NEW r \in Runs, pc[r] = "sem" PROVE permits > 0
  BY DEF ClaimedNeverWaits
<1> DEFINE Wanting == InTurns \cup {q \in Runs : pc[q] = "sem"}
           f       == [q \in Wanting |-> task[q]]
<1>1. ASSUME NEW q \in Wanting PROVE task[q] \in Loaded
  <2>1. q \in Runs /\ Active(q) /\ pc[q] \notin {"orch", "leave"}
    BY DEF InTurns, InTurn, Active
  <2>2. task[q] \in running
    BY <2>1 DEF Single, RunningIsExact, InFlight
  <2>3. task[q] \notin orchestrations
    BY <2>1 DEF Driven, Single, OneRunPerTask, Active
  <2> QED BY <2>2, <2>3 DEF Loaded
<1>2. ASSUME NEW p \in Wanting, NEW q \in Wanting, task[p] = task[q] PROVE p = q
  <2>1. p \in Runs /\ q \in Runs /\ Active(p) /\ Active(q)
    BY DEF InTurns, InTurn, Active
  <2> QED BY <2>1, <1>2 DEF Single, OneRunPerTask
<1>3. f \in Injection(Wanting, Loaded)
  BY <1>1, <1>2 DEF Injection, IsInjective
<1>4. IsFiniteSet(Loaded) /\ Cardinality(Loaded) \in Nat
  BY LoadCount
<1>5. IsFiniteSet(Wanting) /\ Cardinality(Wanting) <= Cardinality(Loaded)
  <2> HIDE DEF f, Wanting
  <2> QED BY <1>3, <1>4, FS_Injection
<1>6. r \notin InTurns /\ InTurns \cup {r} \subseteq Wanting
  BY DEF InTurns, InTurn
<1>7. /\ Cardinality(InTurns \cup {r}) = Cardinality(InTurns) + 1
      /\ Cardinality(InTurns) \in Nat
  BY <1>6, TurnCount
<1>8. Cardinality(InTurns \cup {r}) <= Cardinality(Wanting) /\ Cardinality(Wanting) \in Nat
  BY <1>5, <1>6, FS_Subset, FS_CardinalityType
<1>9. Cardinality(Loaded) <= MaxConcurrent /\ MaxConcurrent \in Nat
  BY LoopAssumption DEF Fits, ClaimsFitSlots, WorkerLoad, Loaded, LoopAssumption
<1>10. permits + Cardinality(InTurns) = MaxConcurrent /\ permits \in Int
  BY <1>9 DEF IInv, TypeOK, PermitsConserved, InTurns
<1> QED
  <2> HIDE DEF Wanting
  <2> QED BY <1>4, <1>5, <1>7, <1>8, <1>9, <1>10

(* When krewhub answers and only the poll loop starts runs, no task that   *)
(* the poll loop has taken is ever held up at the semaphore: two runs that *)
(* want or hold a slot have different tasks, none of them is driven, and   *)
(* _worker_load had counted each before the next was claimed (loop.py:419, *)
(* 592).  So a driven root never keeps its child from its turn.            *)
THEOREM ClaimedAreNotHeldUp ==
  ASSUME MaxInvocations = 0, Faulty = FALSE
  PROVE  Spec => []ClaimedNeverWaits
<1>1. Init => Driven
  BY DEF Init, Driven
<1>2. IInv /\ Single /\ Fits /\ Driven => ClaimedNeverWaits
  BY WantedIsLoaded
<1> QED BY <1>1, <1>2, DrivenStep, FitsHolds, Inductive, SingleHolds, PTL DEF Spec
=============================================================================
