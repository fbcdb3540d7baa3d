SPECIFICATION Spec
CONSTANTS
  Folders = {f1}
  f1 = f1
  Clips = {c1}
  c1 = c1
  Workers = {w1, w2}
  w1 = w1
  w2 = w2
  None = None
  FreeLimit = 1
  ProLimit = 1
  Retention = 2
  PurgeLimit = 1
  MaxNow = 1
SYMMETRY Symmetry
PROPERTIES ClipGoesWithFolder
