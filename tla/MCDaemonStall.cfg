SPECIFICATION DaemonSpec
CONSTANTS
  Tasks = {t1}
  Workers = {w1, w2}
  NoWorker = NoWorker
  NoClaim = NoClaim
  NoRequest = NoRequest
  NoCommand = NoCommand
  MaxAttempt = 2
  MaxGen = 4
  MayStall = TRUE
SYMMETRY MCWorkerSymmetry
CHECK_DEADLOCK FALSE
PROPERTIES
  CancelNeverRequeued
  StoreSpec
