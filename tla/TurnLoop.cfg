SPECIFICATION Spec
CONSTANTS
  MaxTurns = 4
  ExtraAttempts = 0
  MaxRollbacks = 2
  MaxFailures = 2
  HasFallback = TRUE
  MaxScrape = 1
  Parallel = TRUE
  EarlyStop = TRUE
  ExitOnEarlyStop = TRUE
  PostTurns = 1
  MinRounds = 2
  MaxChecks = 2
  Verified = TRUE
  VerifyRounds = 2
  MaxGuidance = 1
  MaxStagnant = 2
  MaxFollowUps = 1
  Kinds = {"scrape", "search", "agent", "other"}
  Queries = {"q1"}
  MaxCalls = 2
INVARIANTS
  TypeOK
  BudgetHolds
  SlotsReturned
  NudgeIsFresh
  ConvergedIsFresh
PROPERTIES
  CountdownRestarts
CHECK_DEADLOCK FALSE
