SPECIFICATION FairSpec
CONSTANTS
  Questions = {q1}
  SpawnBudget = 1
  MaxGrants = 1
  MaxTurns = 2
  MaxCalls = 3
  MaxEvents = 2
  Faulty = TRUE
INVARIANTS
  SpawnsAccounted
  EscalationsBounded
  AskedOnce
  NoAnswerOverlooked
PROPERTIES
  EveryCallAnswered
CHECK_DEADLOCK FALSE
