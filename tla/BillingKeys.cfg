SPECIFICATION Spec
CONSTANTS
  Attempts = {a1}
  CustomerKeys = {k1, k2}
  Workers = {w1}
  None = None
  Period = 1
  Window = 0
  Skew = 0
  MaxLookups = 1
  MaxNow = 2
  MaxLeases = 0
  MaxFailures = 0
CHECK_DEADLOCK FALSE
INVARIANT RenewalKeysMatch
