SPECIFICATION DepSpec
CONSTANTS
  Tasks = {p, c1, c2}
  Workers = {wp, wc}
  ParentWorkers = {wp}
  Parent = p
  Operated = {p}
  Mortal = {wc}
  NoTick = NoTick
  NoWorker = NoWorker
  NoClaim = NoClaim
  NoRequest = NoRequest
  NoCommand = NoCommand
  MaxAttempt = 2
  MaxGen = 2
  MayStall = FALSE
SYMMETRY MCChildSymmetry
CHECK_DEADLOCK FALSE
INVARIANTS
  BlockedOnFailure
PROPERTIES
  ParentWaitsForChildren
