SPECIFICATION FairSpec
CONSTANTS
  Folders = {f1}
  f1 = f1
  Clips = {c1, c2}
  c1 = c1
  c2 = c2
  Workers = {w1, w2}
  w1 = w1
  w2 = w2
  None = None
  FreeLimit = 1
  ProLimit = 2
  Retention = 1
  PurgeLimit = 1
  MaxNow = 2
PROPERTIES LimitKept ExpiredPurged
