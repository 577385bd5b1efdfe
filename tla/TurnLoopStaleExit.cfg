SPECIFICATION Spec
CONSTANTS
  MaxTurns = 5
  ExtraAttempts = 2
  MaxRollbacks = 2
  MaxFailures = 2
  HasFallback = FALSE
  MaxScrape = 0
  Parallel = FALSE
  EarlyStop = TRUE
  ExitOnEarlyStop = TRUE
  PostTurns = 0
  MinRounds = 2
  MaxChecks = 2
  Verified = FALSE
  VerifyRounds = 1
  MaxGuidance = 1
  MaxStagnant = 1
  MaxFollowUps = 0
  Kinds = {"search", "other"}
  Queries = {"q1", "q2"}
  MaxCalls = 2
INVARIANTS
  EarlyExitIsFresh
CHECK_DEADLOCK FALSE
