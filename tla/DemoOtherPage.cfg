SPECIFICATION Spec
CONSTANTS
  Runs = {"a", "b"}
  MaxStops = 1
INVARIANT StopIsTargeted
CHECK_DEADLOCK FALSE
