SPECIFICATION FairSpec
CONSTANTS
  MaxHops = 2
  CapChars = 2
  PdfEnabled = TRUE
  JinaTries = 2
  PythonTries = 2
  LlmTries = 3
  PageSizes = {0, 1, 3}
  ServiceTier = TRUE
  Configured = {"jina", "llm"}
  Keyed = {"serper"}
  Keyless = {"searxng"}
  PoolSizes = {1, 2}
  SearxTries = 2
  Links = {1, 2}
  MaxResults = 2
  Modes = {"fallback", "merge", "parallel", "parallel_conf_fallback"}
  Stricts = {TRUE, FALSE}
  Downgrades = {TRUE, FALSE}
  Gates = {TRUE}
  Limits = {1, 2}
  MinSuccess = 1
  MaxSteps = 1
  MinResults = 1
  Tools = {"scrape_url", "extract", "search", "sandbox", "scrape", "other"}
  Known = {"scrape_url", "extract", "search", "sandbox", "scrape"}
  CreateTries = 5
  RunTries = 3
  BoxTools = {"create", "command", "code", "upload", "fetch", "download"}
  BoxNames = {"listed", "gone", "alive"}
CHECK_DEADLOCK FALSE
INVARIANTS ResponsesClosed NothingLost PassedIsCovered NoStraySandbox
PROPERTIES LongPromptShrinks ServerGivenUp
