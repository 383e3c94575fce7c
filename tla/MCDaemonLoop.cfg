SPECIFICATION FairLoopSpec
CONSTANTS
  i1 = i1
  i2 = i2
  cancel = cancel
  refresh = refresh
  drain = drain
  None = None
  MaxTimers = 2
  Items <- MCItems
  Ticks = {"tick"}
  Commands <- MCCommands
  Kind <- MCKind
  Target <- MCTarget
CHECK_DEADLOCK FALSE
INVARIANTS
  ArmedParkMissesNothing
  CancelsHitTheirTarget
PROPERTIES
  NoClaimAfterStop
  QueuedGetsClaimed
  StopEndsLoop
  CommandsAnswered
