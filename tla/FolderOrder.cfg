SPECIFICATION Spec
CONSTANTS
  Folders = {1, 2, 3}
  Workers = {w1, w2}
  w1 = w1
  w2 = w2
  Unit = 2
  Low = 2
  High = 6
  MaxEdits = 5
  None = None
SYMMETRY Symmetry
PROPERTIES ListKept PlacedAsAsked
CHECK_DEADLOCK FALSE
