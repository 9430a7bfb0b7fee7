CONSTANTS
  d1 = d1
  d2 = d2
  p1 = p1
  Calls = {d1}
  Callers = {p1}
  Deployments <- OneDeployment
  None = None
  MaxHistory = 2
  MaxRetries = 3
  MaxTurns = 3
SPECIFICATION Spec
CHECK_DEADLOCK FALSE
INVARIANT
  FullTranscript
