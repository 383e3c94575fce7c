SPECIFICATION BatchSpec
CONSTANTS
  i1 = i1
  i2 = i2
  i3 = i3
  l1 = l1
  l2 = l2
  l3 = l3
  Items = {i1, i2, i3}
  Lanes = {l1, l2, l3}
  First = l1
  None = None
SYMMETRY MCSymmetry
CHECK_DEADLOCK FALSE
INVARIANTS
  NobodyLeftHanging
  OneOutcomePerItem
  SurvivorsDrainQueue
  BrowsersClosed
