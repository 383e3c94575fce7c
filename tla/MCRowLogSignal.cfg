SPECIFICATION RowLogSpec
CONSTANTS
  Writers = {w1, w2}
  Runs = {r1, r2}
  MaxRow = 2
  MaxGen = 3
  None = None
SYMMETRY MCSymmetry
CHECK_DEADLOCK FALSE
INVARIANTS
  EveryRowSurvives
