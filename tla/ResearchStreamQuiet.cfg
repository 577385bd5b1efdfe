SPECIFICATION StreamFairSpec
CONSTANTS
  MaxTries = 2
  FaultyCalls = {"create", "enqueue", "hget", "append", "save", "cache"}
  MaxFaults = 2
  Disruptions = {}
  MaxDisruptions = 0
  ReadCount = 2
INVARIANTS
  FinishedIsTerminal
  AtMostOnePipeline
PROPERTIES
  CancelTakesEffect
  StreamCloses
CHECK_DEADLOCK FALSE
