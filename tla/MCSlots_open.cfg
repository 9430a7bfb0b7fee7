CONSTANTS
  Day = 6
  Open = 1
  Close = 5
  MaxResults = 3
  Froms = {0, 1, 3}
  Lengths = {1, 2}
  Durations = {1, 2, 3}
  Diaries <- TwoEntries
SPECIFICATION Spec
CHECK_DEADLOCK FALSE
INVARIANT
  OfferedIsOpen
