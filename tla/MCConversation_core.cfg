CONSTANTS
  MaxHistory = 1
  MaxTurns = 2
  MaxIter = 2
  MaxAttempts = 2
  MaxCalls = 2
  MaxUtterances = 3
SPECIFICATION FairSpec
CHECK_DEADLOCK FALSE
INVARIANTS
  TypeOK
  SlicedOnlyByBargeIn
  CostBounded
  TransferOnlyWhenAsked
  UnansweredTurnLeavesNoTrace
  OnlyEmptyAnswersDivideVendors
PROPERTIES
  SpokenOnce
  EveryTurnEnds
  ImplementsDialogue
