SPECIFICATION Spec
CONSTANTS
  Images = {i1, i2, i3}
  i1 = i1
  i2 = i2
  i3 = i3
  Clips = {c1, c2}
  c1 = c1
  c2 = c2
  Workers = {w1, w2}
  w1 = w1
  w2 = w2
  None = None
SYMMETRY Symmetry
INVARIANTS IInv ReferencedStored NoLeak
CHECK_DEADLOCK FALSE
