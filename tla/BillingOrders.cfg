SPECIFICATION Spec
CONSTANTS
  Attempts = {a1, a2}
  CustomerKeys = {k1}
  Workers = {w1, w2}
  None = None
  Period = 1
  Window = 0
  Skew = 0
  MaxLookups = 2
  MaxNow = 2
  MaxLeases = 2
  MaxFailures = 1
SYMMETRY Symmetry
CHECK_DEADLOCK FALSE
INVARIANTS
  IInv OneOpenOrder ChargedOnce OutcomeTrue CancellationKept NoDoublePay PaidPeriodKept DueAtPeriodEnd
PROPERTIES
  LedgerKept ReviewKept
