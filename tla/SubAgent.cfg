CONSTANTS
  MaxTurns = 3
  Buffer = 3
  MaxRollbacks = 3
  MaxFailures = 2
  Queries = {q1, q2}
  MaxCalls = 2
SPECIFICATION Spec
INVARIANTS ConversationHolds WorkIsKept
