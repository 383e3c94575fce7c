SPECIFICATION LockSpec
CONSTANTS
  Procs = {p1, p2, p3}
  Mortal = {p1}
  NoFile = NoFile
INVARIANTS
  CriticalSection
