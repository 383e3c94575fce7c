SPECIFICATION DepSpec
CONSTANTS
  Tasks = {p, c1, c2}
  Workers = {wp, wc}
  ParentWorkers = {wp}
  Parent = p
  Operated = {c1}
  Mortal = {wc}
  NoTick = NoTick
  NoWorker = NoWorker
  NoClaim = NoClaim
  NoRequest = NoRequest
  NoCommand = NoCommand
  MaxAttempt = 2
  MaxGen = 2
  MayStall = FALSE
CHECK_DEADLOCK FALSE
INVARIANTS
  BlockedOnFailure
  SettledForAReason
PROPERTIES
  ParentWaitsForChildren
