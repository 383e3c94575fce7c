SPECIFICATION DuoSpec
CONSTANTS
  Procs = {p1, p2}
  PromptMax = 2
  StaleAge = 3
  MaxWait = 5
  MaxRequests = 4
CHECK_DEADLOCK FALSE
INVARIANTS
  HealthyPromptKeepsTurn
