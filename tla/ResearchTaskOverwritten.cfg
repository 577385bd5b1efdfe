SPECIFICATION Spec
CONSTANTS
  MaxTries = 1
  FaultyCalls = {"expire"}
  MaxFaults = 1
  Disruptions = {}
  MaxDisruptions = 0
PROPERTIES
  TerminalIsFinal
CHECK_DEADLOCK FALSE
