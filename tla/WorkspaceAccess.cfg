SPECIFICATION Spec
CONSTANTS
  Folders = {f1, f2}
  f1 = f1
  f2 = f2
  Clips = {c1}
  c1 = c1
  Workers = {w1, w2}
  w1 = w1
  w2 = w2
  None = None
  FreeLimit = 1
  ProLimit = 2
  Retention = 2
  PurgeLimit = 1
  MaxNow = 3
SYMMETRY Symmetry
INVARIANTS IInv OneFolderPerFreePeriod
PROPERTIES ChoiceKept OnlyTrashDestroyed PurgeKeepsRetention
