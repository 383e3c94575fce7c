SPECIFICATION StoreSpec
CONSTANTS
  Tasks = {t1}
  Workers = {w1, w2}
  NoWorker = NoWorker
  MaxAttempt = 3
  MaxGen = 5
SYMMETRY MCWorkerSymmetry
CHECK_DEADLOCK FALSE
INVARIANTS
  TerminalIffEnded
  OneClaimPerGeneration
  AttemptLockstep
PROPERTIES
  TerminalIsSticky
  ImplementsLifecycle
