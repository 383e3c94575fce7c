SPECIFICATION TdSpec
CONSTANTS
  w1 = w1
  w2 = w2
  w3 = w3
  t1 = t1
  t2 = t2
  Tasks = {t1}
  Workers = {w1, w2}
  NoWorker = NoWorker
  NoClaim = NoClaim
  MaxAttempt = 1
  MaxGen = 4
CHECK_DEADLOCK FALSE
SYMMETRY MCSymmetry
INVARIANT SignalStrandsNothing
