SPECIFICATION DepSpec
CONSTANTS
  Tasks = {p, c1}
  Workers = {wp, wc}
  ParentWorkers = {wp}
  Parent = p
  Operated = {c1}
  Mortal = {wp, wc}
  NoTick = NoTick
  NoWorker = NoWorker
  NoClaim = NoClaim
  NoRequest = NoRequest
  NoCommand = NoCommand
  MaxAttempt = 2
  MaxGen = 3
  MayStall = FALSE
CHECK_DEADLOCK FALSE
PROPERTY CancelledChildNotFailed
