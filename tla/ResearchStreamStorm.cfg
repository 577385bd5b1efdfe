SPECIFICATION StreamSpec
CONSTANTS
  MaxTries = 2
  FaultyCalls = {"enqueue", "hget", "status", "expire", "save", "cache"}
  MaxFaults = 1
  Disruptions = {"timeout", "shutdown", "crash"}
  MaxDisruptions = 1
  ReadCount = 2
INVARIANTS
  TypeOK
  EventBeforeStatus
  CompletedHasResult
  CacheHoldsAnswer
  DoneIsComplete
PROPERTIES
  NoEventAfterTerminal
  ImplementsLifecycle
CHECK_DEADLOCK FALSE
