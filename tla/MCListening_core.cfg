CONSTANT
  Audio <- FourUtterances
SPECIFICATION FairSpec
CHECK_DEADLOCK FALSE
INVARIANTS
  HeardInOrder
  NothingLeftRunning
PROPERTY
  SilenceEndsTheNode
