------------------------------ MODULE BridgeProofs ------------------------------
(* Theorems about Bridge and their proofs.                                 *)
EXTENDS Bridge, SequenceTheorems, TLAPS

-----------------------------------------------------------------------------
(* Types.                                                                  *)

Delegating == {"delegate", "deadline", "poll"}

\* A delegate call has a question, and what is polled is an invocation.
CallFits ==
  /\ pc \in Delegating => call.what \in Questions
  /\ pc \in {"deadline", "poll"} => watched # 0

Fits == TypeOK /\ CallFits

\* Appending leaves what is there and puts the new one behind it.
LEMMA Appended ==
  ASSUME NEW S, NEW s \in Seq(S), NEW e \in S
  PROVE  /\ Append(s, e) \in Seq(S)
         /\ Len(Append(s, e)) = Len(s) + 1
         /\ DOMAIN s = 1..Len(s) /\ DOMAIN Append(s, e) = 1..(Len(s) + 1)
         /\ \A i \in 1..Len(s) : Append(s, e)[i] = s[i]
         /\ Append(s, e)[Len(s) + 1] = e
         /\ Len(s) \in Nat
BY AppendProperties

\* The invocation a delegate call creates.
New == [question |-> call.what, tape |-> Tape, named |-> call.names = "key", key |-> Key,
        events |-> 0, done |-> FALSE]

LEMMA CreatesFacts ==
  ASSUME Fits, pc = "delegate"
  PROVE  /\ New \in Invocation
         /\ Len(invocations) \in Nat /\ DOMAIN invocations = 1..Len(invocations)
         /\ WithKey \subseteq 1..Len(invocations)
         /\ Append(invocations, New) \in Seq(Invocation)
         /\ Len(Append(invocations, New)) = Len(invocations) + 1
<1>1. New \in Invocation
  <2>1. Tape \in Tapes
    BY DEF Tape, Tapes
  <2>2. call.what \in Questions
    BY DEF Fits, CallFits, Delegating
  <2>3. Key \in (Tapes \X Questions) \cup {OwnKey}
    BY <2>1, <2>2 DEF Key
  <2> QED BY <2>1, <2>2, <2>3 DEF New, Invocation
<1>2. invocations \in Seq(Invocation)
  BY DEF Fits, TypeOK
<1> QED BY <1>1, <1>2, Appended DEF WithKey

\* A handler that returns leaves nothing behind but its counters and what it
\* wrote to krewhub.
LEMMA AnswerFits ==
  ASSUME Fits, NEW how \in Answers, Answer(how), BridgeFrame,
         spawned' \in Nat, escalated' \in Nat, born' \in Nat, unheard' \in Nat,
         invocations' \in Seq(Invocation), elicits' \in Seq({"open", "accept", "reject"})
  PROVE  Fits'
<1>1. 0 \in 0..Len(invocations')
  BY LenProperties
<1>2. /\ watched' \in 0..Len(invocations') /\ after' \in Nat /\ expired' \in BOOLEAN
      /\ pc' = "idle" /\ call' = NoCall /\ answer' \in Answers
      /\ sawDone' \in BOOLEAN /\ pipe' \in Seq(Calls)
  BY <1>1 DEF Answer, Fits, TypeOK
<1>3. /\ nonblocking' \in BOOLEAN /\ up' \in BOOLEAN /\ turn' \in 1..MaxTurns
      /\ kind' \in {"first", "drive"} /\ made' \in 0..MaxCalls
  BY DEF BridgeFrame, brainVars, Fits, TypeOK
<1> QED BY <1>2, <1>3 DEF Fits, TypeOK, CallFits, Delegating

LEMMA BrainFits ==
  ASSUME Fits, (\E what \in Tools, names \in Names : BrainCalls(what, names)) \/ TurnEnds
  PROVE  Fits'
<1> USE BridgeAssumption DEF BridgeAssumption, Fits, CallFits, Delegating, countVars,
        krewhubVars, pollVars
<1>1. ASSUME NEW what \in Tools, NEW names \in Names, BrainCalls(what, names) PROVE Fits'
  <2>1. [id |-> made + 1, what |-> what, names |-> names] \in Calls
    BY DEF TypeOK, Calls
  <2>2. pipe' \in Seq(Calls)
    BY <1>1, <2>1 DEF BrainCalls, TypeOK
  <2>3. made' \in 0..MaxCalls
    BY <1>1 DEF BrainCalls, TypeOK
  <2> QED BY <1>1, <2>2, <2>3 DEF BrainCalls, TypeOK
<1>2. CASE TurnEnds
  <2>1. pipe' \in Seq(Calls) /\ elicits' \in Seq({"open", "accept", "reject"})
    BY <1>2, EmptySeq DEF TurnEnds, TypeOK
  <2>2. watched' \in 0..Len(invocations') /\ invocations' \in Seq(Invocation)
    BY <1>2 DEF TurnEnds, TypeOK
  <2>3. /\ turn' \in 1..MaxTurns /\ kind' \in {"first", "drive"}
        /\ made' \in 0..MaxCalls /\ nonblocking' \in BOOLEAN
    BY <1>2 DEF TurnEnds, TypeOK
  <2>4. /\ up' \in BOOLEAN /\ expired' \in BOOLEAN /\ sawDone' \in BOOLEAN
        /\ pc' = "idle" /\ call' = NoCall /\ answer' = "none"
        /\ after' \in Nat /\ spawned' \in Nat /\ escalated' \in Nat
        /\ born' \in Nat /\ unheard' \in Nat
    BY <1>2 DEF TurnEnds
  <2> QED BY <2>1, <2>2, <2>3, <2>4 DEF TypeOK, Answers
<1> QED BY <1>1, <1>2

LEMMA LineFits ==
  ASSUME Fits, ReadsLine \/ LineTooLong \/ AnswersAtOnce
  PROVE  Fits'
<1> USE DEF Fits, CallFits, Delegating, countVars, krewhubVars, pollVars, brainVars,
        BridgeFrame, Answers
<1>1. CASE ReadsLine
  <2>1. Head(pipe) \in Calls /\ Tail(pipe) \in Seq(Calls)
    BY <1>1, HeadTailProperties DEF ReadsLine, TypeOK
  <2>2. Head(pipe).what \in Tools \ {"huge"}
    BY <1>1, <2>1 DEF ReadsLine, Calls
  <2>3. watched' \in 0..Len(invocations')
    BY <1>1 DEF ReadsLine, TypeOK
  <2> QED BY <1>1, <2>1, <2>2, <2>3 DEF ReadsLine, TypeOK, Tools, Answers
<1>2. CASE LineTooLong
  BY <1>2, EmptySeq DEF LineTooLong, TypeOK
<1>3. CASE AnswersAtOnce
  BY <1>3, AnswerFits DEF AnswersAtOnce, TypeOK
<1> QED BY <1>1, <1>2, <1>3

LEMMA DelegateFits ==
  ASSUME Fits, Delegates
  PROVE  Fits'
<1> USE DEF Fits, CallFits, Delegating, countVars, krewhubVars, pollVars, brainVars,
        BridgeFrame, GoesTo, Answers
<1>1. CASE PostsInvocation
  <2>1. pc = "delegate"
    BY <1>1 DEF PostsInvocation
  <2>2. /\ invocations' \in Seq(Invocation)
        /\ watched' \in 1..Len(invocations')
    <3>1. CASE WithKey = {}
      BY <1>1, <2>1, <3>1, CreatesFacts DEF PostsInvocation, Creates, New
    <3>2. CASE WithKey # {}
      BY <1>1, <2>1, <3>2, CreatesFacts DEF PostsInvocation, Creates, TypeOK
    <3> QED BY <3>1, <3>2
  <2>3. pc' = "deadline" /\ UNCHANGED <<call, pipe, after, expired, sawDone, answer,
                                       elicits, born, unheard, spawned, escalated>>
    BY <1>1 DEF PostsInvocation
  <2>4. watched' # 0 /\ watched' \in 0..Len(invocations')
    BY <2>1, <2>2, CreatesFacts DEF PostsInvocation
  <2>5. UNCHANGED <<nonblocking, turn, kind, made, up>>
    BY <1>1 DEF PostsInvocation
  <2> QED BY <2>1, <2>2, <2>3, <2>4, <2>5 DEF TypeOK
<1>2. CASE PostFails
  <2>1. pc = "delegate"
    BY <1>2 DEF PostFails
  <2>2. invocations' \in Seq(Invocation)
    <3>1. invocations \in Seq(Invocation)
      BY DEF TypeOK
    <3>2. invocations' = invocations \/ invocations' = Append(invocations, New)
      BY <1>2 DEF PostFails, Creates, New
    <3> QED BY <2>1, <3>1, <3>2, CreatesFacts
  <2> QED BY <1>2, <2>2, AnswerFits DEF PostFails, TypeOK
<1>3. CASE ChecksDeadline
  <2>1. CASE expired
    BY <1>3, <2>1, AnswerFits DEF ChecksDeadline, TypeOK
  <2>2. CASE ~expired
    BY <1>3, <2>2 DEF ChecksDeadline, TypeOK
  <2> QED BY <2>1, <2>2
<1>4. CASE PollsEvents
  <2>1. watched \in 1..Len(invocations) /\ after \in Nat /\ invocations \in Seq(Invocation)
    BY <1>4 DEF PollsEvents, TypeOK
  <2>e. invocations[watched].events \in Nat
    <3>1. invocations[watched] \in Invocation
      BY <2>1, ElementOfSeq
    <3> QED BY <3>1 DEF Invocation
  <2>2. Published \in Nat
    BY <2>e DEF Published
  <2>3. Pages \subseteq Nat
    BY <2>1, <2>2 DEF Pages
  <2>4. ASSUME NEW upto \in Pages PROVE DoneIn(upto) \in BOOLEAN
    BY <2>1 DEF DoneIn
  <2>5. PICK upto \in Pages :
          /\ sawDone' = (sawDone \/ DoneIn(upto))
          /\ \/ /\ answer' \in Answers /\ pc' = "idle" /\ call' = NoCall
                /\ watched' = 0 /\ after' = 0 /\ expired' = FALSE
             \/ /\ pc' = "deadline" /\ after' = upto
                /\ UNCHANGED <<call, answer, watched, expired>>
    BY <1>4 DEF PollsEvents
  <2>6. /\ sawDone' \in BOOLEAN /\ after' \in Nat /\ expired' \in BOOLEAN
        /\ call' \in Calls \cup {NoCall} /\ answer' \in Answers
        /\ watched' \in 0..Len(invocations) /\ CallFits'
    <3>1. sawDone \in BOOLEAN /\ DoneIn(upto) \in BOOLEAN /\ upto \in Nat
      BY <2>3, <2>4 DEF TypeOK
    <3>2. /\ call \in Calls \cup {NoCall} /\ answer \in Answers /\ expired \in BOOLEAN
          /\ call.what \in Questions
      BY <1>4 DEF PollsEvents, TypeOK
    <3>3. 0 \in 0..Len(invocations) /\ watched \in 0..Len(invocations) /\ watched # 0
      BY <2>1
    <3>4. CASE pc' = "idle" /\ watched' = 0 /\ after' = 0 /\ expired' = FALSE
               /\ call' = NoCall /\ answer' \in Answers
      BY <2>5, <3>1, <3>3, <3>4
    <3>5. CASE pc' = "deadline" /\ after' = upto /\ UNCHANGED <<call, answer, watched, expired>>
      BY <2>5, <3>1, <3>2, <3>3, <3>5
    <3> QED BY <2>5, <3>4, <3>5
  <2>7. /\ pc' \in {"idle", "deadline"}
        /\ UNCHANGED <<pipe, spawned, escalated, invocations, elicits, born, unheard,
                      nonblocking, turn, kind, made, up>>
    BY <1>4, <2>5 DEF PollsEvents
  <2> QED BY <2>6, <2>7 DEF TypeOK
<1>5. CASE PollFails
  BY <1>5, AnswerFits DEF PollFails, TypeOK
<1> QED BY <1>1, <1>2, <1>3, <1>4, <1>5 DEF Delegates

LEMMA ToolFits ==
  ASSUME Fits, Spawns \/ RequestsAccess \/ WindowCloses \/ Expires
  PROVE  Fits'
<1> USE DEF Fits, CallFits, Delegating, countVars, krewhubVars, pollVars, brainVars,
        BridgeFrame, GoesTo, Answers
<1>1. CASE Spawns
  <2>1. CASE SpawnRefused
    BY <2>1, AnswerFits DEF SpawnRefused, TypeOK
  <2>2. CASE SpawnPosted
    BY <2>2, AnswerFits DEF SpawnPosted, TypeOK
  <2>3. CASE SpawnUnheard
    BY <2>3, AnswerFits DEF SpawnUnheard, TypeOK
  <2> QED BY <1>1, <2>1, <2>2, <2>3 DEF Spawns
<1>2. CASE RequestsAccess
  <2>1. ASSUME EmitsElicit \/ EmitFails PROVE Fits'
    <3>1. elicits' \in Seq({"open", "accept", "reject"})
      <4>1. elicits \in Seq({"open", "accept", "reject"})
        BY DEF TypeOK
      <4>2. Append(elicits, "open") \in Seq({"open", "accept", "reject"})
        BY <4>1, Appended
      <4> QED BY <2>1, <4>1, <4>2 DEF EmitsElicit, EmitFails
    <3>2. CASE EmitsElicit
      BY <3>1, <3>2 DEF EmitsElicit, TypeOK
    <3>3. CASE EmitFails
      BY <3>1, <3>3, AnswerFits DEF EmitFails, TypeOK
    <3> QED BY <2>1, <3>2, <3>3
  <2>2. CASE Escalates
    BY <2>2 DEF Escalates, TypeOK
  <2>3. CASE BudgetExhausted \/ Resolves \/ ResolveFails
    BY <2>3, AnswerFits DEF BudgetExhausted, Resolves, ResolveFails, TypeOK
  <2> QED BY <1>2, <2>1, <2>2, <2>3 DEF RequestsAccess
<1>3. CASE WindowCloses
  BY <1>3, AnswerFits DEF WindowCloses, TypeOK
<1>4. CASE Expires
  BY <1>4 DEF Expires, TypeOK
<1> QED BY <1>1, <1>2, <1>3, <1>4

\* Progress changes one invocation's events or its end.
LEMMA ProgressFacts ==
  ASSUME Fits, HandProgresses
  PROVE  /\ invocations' \in Seq(Invocation)
         /\ DOMAIN invocations' = DOMAIN invocations
         /\ Len(invocations') = Len(invocations)
         /\ \A i \in DOMAIN invocations :
              /\ invocations'[i].tape = invocations[i].tape
              /\ invocations'[i].named = invocations[i].named
              /\ invocations'[i].question = invocations[i].question
              /\ invocations'[i].key = invocations[i].key
         /\ UNCHANGED elicits /\ HubFrame
<1>1. invocations \in Seq(Invocation)
  BY DEF Fits, TypeOK
<1>2. PICK i \in DOMAIN invocations :
        \/ invocations' = [invocations EXCEPT ![i].events = @ + 1]
        \/ invocations' = [invocations EXCEPT ![i].done = TRUE]
  BY DEF HandProgresses
<1>3. /\ DOMAIN invocations = 1..Len(invocations) /\ Len(invocations) \in Nat
      /\ \A j \in DOMAIN invocations : invocations[j] \in Invocation
  BY <1>1
<1>e. \A v \in Invocation :
        LET w == [v EXCEPT !.events = v.events + 1]
        IN  /\ w \in Invocation /\ w.tape = v.tape /\ w.named = v.named
            /\ w.question = v.question /\ w.key = v.key
  BY DEF Invocation
<1>d. \A v \in Invocation :
        LET w == [v EXCEPT !.done = TRUE]
        IN  /\ w \in Invocation /\ w.tape = v.tape /\ w.named = v.named
            /\ w.question = v.question /\ w.key = v.key
  BY DEF Invocation
<1>m. \A j \in DOMAIN invocations :
        invocations'[j] \in {invocations[j],
                             [invocations[j] EXCEPT !.events = invocations[j].events + 1],
                             [invocations[j] EXCEPT !.done = TRUE]}
  BY <1>2, <1>3
<1>4. /\ DOMAIN invocations' = DOMAIN invocations
      /\ \A j \in DOMAIN invocations :
           /\ invocations'[j] \in Invocation
           /\ invocations'[j].tape = invocations[j].tape
           /\ invocations'[j].named = invocations[j].named
           /\ invocations'[j].question = invocations[j].question
           /\ invocations'[j].key = invocations[j].key
  <2>1. DOMAIN invocations' = DOMAIN invocations
    BY <1>2, <1>3
  <2>2. ASSUME NEW j \in DOMAIN invocations
        PROVE  /\ invocations'[j] \in Invocation
               /\ invocations'[j].tape = invocations[j].tape
           /\ invocations'[j].named = invocations[j].named
               /\ invocations'[j].question = invocations[j].question
               /\ invocations'[j].key = invocations[j].key
    BY <1>3, <1>m, <1>e, <1>d
  <2> QED BY <2>1, <2>2
<1>5. invocations' = [j \in 1..Len(invocations) |-> invocations'[j]]
  BY <1>2, <1>3
<1>6. invocations' \in Seq(Invocation) /\ Len(invocations') = Len(invocations)
  BY <1>3, <1>4, <1>5
<1> QED BY <1>4, <1>6 DEF HandProgresses

LEMMA HubFits ==
  ASSUME Fits, HandProgresses \/ OperatorResolves
  PROVE  Fits'
<1> USE DEF Fits, CallFits, HubFrame, brainVars, pollVars, countVars
<1>1. CASE HandProgresses
  BY <1>1, ProgressFacts DEF TypeOK
<1>2. CASE OperatorResolves
  <2>1. elicits' \in Seq({"open", "accept", "reject"})
    BY <1>2 DEF OperatorResolves, TypeOK
  <2> QED BY <1>2, <2>1 DEF OperatorResolves, TypeOK
<1> QED BY <1>1, <1>2

LEMMA StepFits == Fits /\ [Next]_vars => Fits'
<1> SUFFICES ASSUME Fits, [Next]_vars PROVE Fits'
  OBVIOUS
<1>1. CASE UNCHANGED vars
  BY <1>1 DEF Fits, TypeOK, CallFits, vars, brainVars, pollVars, countVars, krewhubVars
<1> QED BY <1>1, BrainFits, LineFits, DelegateFits, ToolFits, HubFits DEF Next, Serves

LEMMA FitsHolds == Spec => []Fits
<1>1. ASSUME Init PROVE Fits
  <2>1. /\ pipe \in Seq(Calls) /\ invocations \in Seq(Invocation)
        /\ elicits \in Seq({"open", "accept", "reject"})
    BY <1>1, EmptySeq DEF Init
  <2>2. turn \in 1..MaxTurns /\ made \in 0..MaxCalls
    BY <1>1, BridgeAssumption DEF Init, BridgeAssumption
  <2>3. watched \in 0..Len(invocations)
    BY <1>1, EmptySeq DEF Init
  <2> QED BY <1>1, <2>1, <2>2, <2>3 DEF Init, Fits, TypeOK, CallFits, Delegating, Answers
<1> QED BY <1>1, StepFits, PTL DEF Spec

(* What a bridge polls is always an invocation there is, and its counters  *)
(* stay numbers, for any questions, budgets and bounds.                    *)
THEOREM TypesHold == Spec => []TypeOK
BY FitsHolds, PTL DEF Fits

-----------------------------------------------------------------------------
(* Budgets.                                                                *)

\* What the bridges of earlier turns may have asked for.
Earlier == MaxGrants * (turn - 1)

\* An elicitation that goes out has been paid for.
Paid ==
  /\ escalated <= MaxGrants
  /\ Len(elicits) <= Earlier + escalated
  /\ pc = "emit" => Len(elicits) < Earlier + escalated

Budgeted == SpawnsAccounted /\ Paid

LEMMA StepBudgeted == Fits /\ Budgeted /\ [Next]_vars => Budgeted'
<1> SUFFICES ASSUME Fits, Budgeted, [Next]_vars PROVE Budgeted'
  OBVIOUS
<1>t. /\ turn \in Nat /\ MaxGrants \in Nat
      /\ Earlier \in Nat /\ MaxGrants * turn = Earlier + MaxGrants
  BY BridgeAssumption DEF BridgeAssumption, Fits, TypeOK, Earlier
<1>u. UNCHANGED turn => Earlier' = Earlier
  BY DEF Earlier
<1>n. /\ spawned \in Nat /\ escalated \in Nat /\ born \in Nat /\ unheard \in Nat
      /\ elicits \in Seq({"open", "accept", "reject"}) /\ Len(elicits) \in Nat
      /\ SpawnBudget \in Nat /\ MaxGrants \in Nat
      /\ Append(elicits, "open") \in Seq({"open", "accept", "reject"})
      /\ Len(Append(elicits, "open")) = Len(elicits) + 1
  BY BridgeAssumption, Appended DEF BridgeAssumption, Fits, TypeOK
<1> USE <1>n, <1>t, <1>u DEF Budgeted, SpawnsAccounted, Paid, countVars, krewhubVars, GoesTo,
        Answer, BridgeFrame, brainVars
<1>1. CASE TurnEnds
  <2>1. turn' = turn + 1 /\ turn' - 1 = turn
    BY <1>1 DEF TurnEnds
  <2>2. Earlier' = Earlier + MaxGrants
    BY <2>1 DEF Earlier
  <2>3. Earlier' + 0 = Earlier'
    BY <2>2
  <2> QED BY <1>1, <2>2, <2>3 DEF TurnEnds
<1>2. CASE SpawnPosted \/ SpawnUnheard
  BY <1>2 DEF SpawnPosted, SpawnUnheard, MaySpawn
<1>3. CASE Escalates \/ EmitsElicit \/ EmitFails
  BY <1>3 DEF Escalates, EmitsElicit, EmitFails
<1>4. CASE OperatorResolves
  <2>1. Len(elicits') = Len(elicits)
    BY <1>4 DEF OperatorResolves
  <2> QED BY <1>4, <2>1 DEF OperatorResolves, HubFrame
<1>5. CASE HandProgresses
  BY <1>5 DEF HandProgresses, HubFrame
<1>6. CASE Delegates
  BY <1>6 DEF Delegates, PostsInvocation, PostFails, ChecksDeadline, PollsEvents, PollFails
<1>7. CASE ReadsLine
  <2>1. pc' # "emit"
    <3>1. Head(pipe) \in Calls
      BY <1>7, HeadTailProperties DEF ReadsLine, Fits, TypeOK
    <3>2. Head(pipe).what \in Questions \cup {"spawn", "access", "other"}
      BY <1>7, <3>1 DEF ReadsLine, Calls, Tools
    <3> QED BY <1>7, <3>2 DEF ReadsLine
  <2> QED BY <1>7, <2>1 DEF ReadsLine
<1>8. CASE LineTooLong \/ AnswersAtOnce \/ SpawnRefused
  BY <1>8 DEF LineTooLong, AnswersAtOnce, SpawnRefused
<1>9. CASE BudgetExhausted \/ Resolves \/ ResolveFails \/ WindowCloses \/ Expires
  BY <1>9 DEF BudgetExhausted, Resolves, ResolveFails, WindowCloses, Expires
<1>10. CASE (\E what \in Tools, names \in Names : BrainCalls(what, names)) \/ UNCHANGED vars
  BY <1>10 DEF BrainCalls, vars
<1> QED BY <1>1, <1>2, <1>3, <1>4, <1>5, <1>6, <1>7, <1>8, <1>9, <1>10
        DEF Next, Serves, Spawns, RequestsAccess

LEMMA BudgetedHolds == Spec => []Budgeted
<1>1. ASSUME Init PROVE Budgeted
  <2>1. turn - 1 = 0 /\ Earlier = 0
    BY <1>1, BridgeAssumption DEF BridgeAssumption, Init, Earlier
  <2> QED BY <1>1, <2>1, BridgeAssumption, EmptySeq
          DEF BridgeAssumption, Init, Budgeted, SpawnsAccounted, Paid
<1> QED BY <1>1, StepBudgeted, FitsHolds, PTL DEF Spec

(* The cap on children is exceeded by lost answers only, for any budget    *)
(* (bridge.py:540-587).                                                    *)
THEOREM SpawnsAreAccounted == Spec => []SpawnsAccounted
BY BudgetedHolds, PTL DEF Budgeted

(* Nobody is asked more often in a task than the budget says for each of   *)
(* its turns, for any budget and number of turns (hitl_tool.py:47-66).     *)
THEOREM EscalationsAreBounded == Spec => []EscalationsBounded
<1>1. ASSUME Fits, Budgeted PROVE EscalationsBounded
  <2>1. /\ turn \in Nat /\ MaxGrants \in Nat /\ escalated \in Nat /\ Len(elicits) \in Nat
        /\ Earlier \in Nat /\ MaxGrants * turn = Earlier + MaxGrants
    BY <1>1, BridgeAssumption, LenProperties DEF BridgeAssumption, Fits, TypeOK, Earlier
  <2> QED BY <1>1, <2>1 DEF Budgeted, Paid, EscalationsBounded
<1> QED BY <1>1, FitsHolds, BudgetedHolds, PTL

-----------------------------------------------------------------------------
(* Questions.                                                              *)

\* krewhub keeps keys unique, and a key the brain did not name is made of the
\* tape and the question.
Keyed ==
  /\ \A i \in DOMAIN invocations :
       ~invocations[i].named =>
         invocations[i].key = <<invocations[i].tape, invocations[i].question>>
  /\ \A i, j \in DOMAIN invocations : invocations[i].key = invocations[j].key => i = j

LEMMA CreatesKeyed ==
  ASSUME Fits, Keyed, pc = "delegate", Creates
  PROVE  Keyed'
<1>1. CASE invocations' = invocations
  BY <1>1 DEF Keyed
<1>2. CASE WithKey = {} /\ invocations' = Append(invocations, New)
  <2>1. /\ DOMAIN invocations = 1..Len(invocations) /\ Len(invocations) \in Nat
        /\ DOMAIN invocations' = 1..(Len(invocations) + 1)
        /\ \A i \in 1..Len(invocations) : invocations'[i] = invocations[i]
        /\ invocations'[Len(invocations) + 1] = New
    BY <1>2, CreatesFacts, Appended DEF Fits, TypeOK
  <2>2. \A i \in DOMAIN invocations : invocations[i].key # Key
    BY <1>2 DEF WithKey
  <2>3. /\ New.key = Key
        /\ ~New.named => New.key = <<New.tape, New.question>>
    BY DEF New, Key
  <2> QED BY <2>1, <2>2, <2>3 DEF Keyed
<1> QED BY <1>1, <1>2 DEF Creates, New

LEMMA StepKeyed == Fits /\ Keyed /\ [Next]_vars => Keyed'
<1> SUFFICES ASSUME Fits, Keyed, [Next]_vars PROVE Keyed'
  OBVIOUS
<1>1. CASE PostsInvocation \/ PostFails
  <2>1. pc = "delegate" /\ (Creates \/ UNCHANGED invocations)
    BY <1>1 DEF PostsInvocation, PostFails
  <2> QED BY <2>1, CreatesKeyed DEF Keyed
<1>2. CASE HandProgresses
  BY <1>2, ProgressFacts DEF Keyed
<1>3. CASE UNCHANGED invocations
  BY <1>3 DEF Keyed
<1>4. [Next]_vars => PostsInvocation \/ PostFails \/ HandProgresses \/ UNCHANGED invocations
  BY DEF Next, Serves, BrainCalls, TurnEnds, ReadsLine, LineTooLong, AnswersAtOnce,
         Delegates, ChecksDeadline, PollsEvents, PollFails, Spawns, SpawnRefused,
         SpawnPosted, SpawnUnheard, RequestsAccess, Escalates, BudgetExhausted,
         EmitsElicit, EmitFails, Resolves, ResolveFails, Expires, WindowCloses,
         OperatorResolves, vars, krewhubVars
<1> QED BY <1>1, <1>2, <1>3, <1>4

(* A question is put to a Hand once from a tape, by any number of bridges  *)
(* and calls, unless the brain names a key of its own, and whatever keys   *)
(* it names between (bridge.py:322-333, 354-358, 396-399).                 *)
THEOREM QuestionsAreAskedOnce == Spec => []AskedOnce
<1>1. Init => Keyed
  BY EmptySeq DEF Init, Keyed
<1>2. Keyed => AskedOnce
  BY DEF Keyed, AskedOnce
<1> QED BY <1>1, <1>2, StepKeyed, FitsHolds, PTL DEF Spec

-----------------------------------------------------------------------------
(* Answers.                                                                *)

\* A new call has seen nothing yet.
Attentive == NoAnswerOverlooked /\ (pc = "delegate" => ~sawDone)

LEMMA StepAnswers == Fits /\ Attentive /\ [Next]_vars => Attentive'
<1> SUFFICES ASSUME Fits, Attentive, [Next]_vars PROVE Attentive'
  OBVIOUS
<1> USE DEF Attentive, NoAnswerOverlooked, pollVars, GoesTo, Answer
<1>1. CASE \/ \E what \in Tools, names \in Names : BrainCalls(what, names)
           \/ TurnEnds \/ ReadsLine
  <2>1. UNCHANGED <<pc, answer, sawDone>> \/ ~sawDone'
    BY <1>1 DEF BrainCalls, TurnEnds, ReadsLine
  <2> QED BY <2>1
<1>2. CASE PostsInvocation \/ PostFails \/ ChecksDeadline \/ PollFails \/ Expires
  BY <1>2 DEF PostsInvocation, PostFails, ChecksDeadline, PollFails, Expires
<1>3. CASE PollsEvents
  BY <1>3 DEF PollsEvents, FindsDone
<1>4. CASE LineTooLong \/ AnswersAtOnce \/ Spawns
  BY <1>4 DEF LineTooLong, AnswersAtOnce, Spawns, SpawnRefused, SpawnPosted, SpawnUnheard
<1>5. CASE RequestsAccess \/ WindowCloses
  BY <1>5 DEF RequestsAccess, Escalates, BudgetExhausted, EmitsElicit, EmitFails,
              Resolves, ResolveFails, WindowCloses
<1>6. CASE HandProgresses \/ OperatorResolves \/ UNCHANGED vars
  BY <1>6 DEF HandProgresses, OperatorResolves, HubFrame, vars
<1> QED BY <1>1, <1>2, <1>3, <1>4, <1>5, <1>6 DEF Next, Serves, Delegates

(* No deadline hides an answer that was on a page the bridge has read, for *)
(* pages of any length (bridge.py:447-493).                                *)
THEOREM NoAnswerIsOverlooked == Spec => []NoAnswerOverlooked
<1>1. Init => Attentive
  BY DEF Init, Attentive, NoAnswerOverlooked
<1>2. Attentive => NoAnswerOverlooked
  BY DEF Attentive
<1> QED BY <1>1, <1>2, StepAnswers, FitsHolds, PTL DEF Spec
=============================================================================
