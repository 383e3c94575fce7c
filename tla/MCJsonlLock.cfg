SPECIFICATION FairLockSpec
CONSTANTS
  Procs = {p1, p2, p3}
  Mortal = {p1, p2}
  NoFile = NoFile
INVARIANTS
  Excludes
  HolderKeepsFile
PROPERTIES
  DeadOwnerReclaimed
