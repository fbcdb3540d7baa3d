SPECIFICATION LiveSpec
CONSTANTS
  Attempts = {a1}
  CustomerKeys = {k1}
  Workers = {w1}
  None = None
  Period = 1
  Window = 0
  Skew = 0
  MaxLookups = 2
  MaxNow = 3
  MaxLeases = 4
  MaxFailures = 1
CHECK_DEADLOCK FALSE
PROPERTIES
  RenewalResolved
  ApprovedPurchaseSettled
  DueIsBilled
