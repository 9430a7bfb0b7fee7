CONSTANTS
  MaxHistory = 2
  MaxTurns = 3
  MaxIter = 2
  MaxAttempts = 1
  MaxCalls = 2
  MaxUtterances = 3
SPECIFICATION Spec
CHECK_DEADLOCK FALSE
INVARIANT
  EveryRequestPaired
