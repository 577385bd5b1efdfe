SPECIFICATION FairSpec
CONSTANTS
  Runs = {"a", "b"}
  MaxStops = 1
INVARIANTS
  NoOrphans
  CachedIsWhole
PROPERTIES
  StopReleases
  RunEnds
CHECK_DEADLOCK FALSE
