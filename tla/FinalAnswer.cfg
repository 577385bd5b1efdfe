SPECIFICATION FairSpec
CONSTANTS
  Pool = 2
  OwnKey = 1
  MaxRetries = 2
  FailFast = TRUE
  Attempts = 2
  Providers = {"openai", "anthropic"}
  FinalTries = 2
  Rounds = 1
  ResearchKeep = 5
  SummaryKeep = 1
  Compress = {TRUE, FALSE}
  Retry = {TRUE, FALSE}
  Final = {TRUE, FALSE}
  Verify = {"folded", "high"}
  Strict = {TRUE}
  Boxed = {TRUE, FALSE}
INVARIANTS RequestsBounded AnswerHasReport LastChanceDelivers
PROPERTIES StageEnds MarksUsedKey
