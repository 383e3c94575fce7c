SPECIFICATION DaemonSpec
CONSTANTS
  Tasks = {t1}
  Workers = {w1, w2}
  NoWorker = NoWorker
  NoClaim = NoClaim
  NoRequest = NoRequest
  NoCommand = NoCommand
  MaxAttempt = 2
  MaxGen = 3
  MayStall = FALSE
CHECK_DEADLOCK FALSE
INVARIANT NoConcurrentAttempts
