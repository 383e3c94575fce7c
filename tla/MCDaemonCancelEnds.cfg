SPECIFICATION FairDaemonSpec
CONSTANTS
  Tasks = {t1}
  Workers = {w1, w2}
  NoWorker = NoWorker
  NoClaim = NoClaim
  NoRequest = NoRequest
  NoCommand = NoCommand
  MaxAttempt = 1
  MaxGen = 5
  MayStall = FALSE
CHECK_DEADLOCK FALSE
PROPERTIES
  CancelCompletes
