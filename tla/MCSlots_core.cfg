CONSTANTS
  Day = 6
  Open = 1
  Close = 5
  MaxResults = 3
  Froms = {0, 1, 3}
  Lengths <- AnyLengths
  Durations <- AnyDurations
  Diaries <- TwoEntries
SPECIFICATION FairSpec
CHECK_DEADLOCK FALSE
INVARIANTS
  TypeOK
  OfferedIsFree
  OfferedInHours
  NothingPassedOver
PROPERTY
  SearchEnds
