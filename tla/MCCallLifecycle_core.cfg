CONSTANTS
  d1 = d1
  d2 = d2
  p1 = p1
  Calls = {d1, d2}
  Callers = {p1}
  Deployments <- CoreDeployments
  None = None
  MaxHistory = 1
  MaxRetries = 2
  MaxTurns = 2
SPECIFICATION FairSpec
CHECK_DEADLOCK FALSE
INVARIANTS
  TypeOK
  TranscriptIsDialogue
  OpenOnlyWhenBroken
  SummaryAfterTranscript
PROPERTY
  EverythingEnds
