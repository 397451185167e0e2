SPECIFICATION FairSpec
CONSTANTS
  Modes = {"harness", "orch", "oneshot"}
  QueueCap = 1
  MaxMessages = 3
  Faulty = TRUE
INVARIANTS
  TypeOK
  SuccessIsWhole
  PendingBlocks
  TapeBeforeStatus
  NoChildLeft
PROPERTIES
  CancelStays
  TurnReturns
CHECK_DEADLOCK FALSE
