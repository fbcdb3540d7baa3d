SPECIFICATION MCSpec
CONSTANTS
  Items = {1, 2, 3}
  Deleted = {2}
  Lists <- MCLists
  MaxPage = 2
  MaxNow = 2
  MaxWritten = 2
  None = None
INVARIANTS TypeOK Complete NoGap NoRepeat
PROPERTIES BatchEnds
CHECK_DEADLOCK FALSE
