SPECIFICATION FairSpec
CONSTANTS
  QueueSize = 3
  BatchSize = 2
  MaxEvents = 7
INVARIANTS
  TypeOK
  Conservation
  InOrder
  FlushedIsFinal
PROPERTIES
  FlushTerminates
  ImplementsEventLog
