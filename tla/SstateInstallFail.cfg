SPECIFICATION Spec
CONSTANTS
  Task <- MCTask
  File <- MCFile
  Version <- MCVersion
  Config <- MCConfig
  Lock <- MCLock
  Want <- MCWant
  Out <- MovingOut
  Pv <- MCPv
  Dashed <- MCDashed
  Shared <- NoLocks
  Exclusive <- NoLocks
  AllowOverlap = {}
  None = None
  MaxBuilds = 3
  MaxFails = 1
INVARIANTS
  TypeOK
  Attributed
  NeverStagedTwice
  StampedIsIndexed
