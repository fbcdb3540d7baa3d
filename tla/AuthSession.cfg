SPECIFICATION Spec
CONSTANTS
  Users = {u1, u2}
  u1 = u1
  u2 = u2
  Accounts = {a1, a2}
  a1 = a1
  a2 = a2
  Sessions = {s1, s2}
  s1 = s1
  s2 = s2
  Nonces = {n1, n2}
  n1 = n1
  n2 = n2
  Identities = {i1, i2}
  i1 = i1
  i2 = i2
  Shared = {}
  Browsers = {b1}
  b1 = b1
  Workers = {w1, w2}
  w1 = w1
  w2 = w2
  Life = 2
  Threshold = 1
  AccessLife = 1
  StateLife = 1
  MaxNow = 3
  None = None
SYMMETRY Symmetry
INVARIANTS TypeOK RowsOwned OneCallback LinkBySameSession OneSuccessor
PROPERTIES RevokedForever
CHECK_DEADLOCK FALSE
