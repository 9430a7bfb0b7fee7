CONSTANTS
  c1 = c1
  Requests = {1, 2, 3}
  Earlier <- CallEarlier
  Clients = {c1}
  Inputs <- CallInputs
  SmsTo = {c1}
  EmailTo = {c1}
  None = None
  MaxSends = 2
  MaxHistory = 1
  MaxTurns = 2
  MaxIter = 2
  MaxAttempts = 1
  MaxCalls = 1
  MaxUtterances = 2
SPECIFICATION FairSpec
CHECK_DEADLOCK FALSE
INVARIANTS
  StoresAgreeInOneCall
  NeverBookedTwiceInOneCall
  ModelKnowsWhatItDid
  ConfirmedOrLogged
PROPERTIES
  ImplementsConversation
  EveryRequestEnds
