SPECIFICATION FairDuoSpec
CONSTANTS
  Procs = {p1, p2, p3}
  PromptMax = 1
  StaleAge = 2
  MaxWait = 3
  MaxRequests = 3
CHECK_DEADLOCK FALSE
INVARIANTS
  OnePromptUnlessTimedOut
  FirstComeFirstServed
  TurnWithinStaleAge
PROPERTIES
  NobodyWaitsForever
