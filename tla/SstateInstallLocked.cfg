SPECIFICATION Spec
CONSTANTS
  Task <- MCTask
  File <- MCFile
  Version <- MCVersion
  Config <- MCConfig
  Lock <- MCLock
  Want <- MCWant
  Out <- SharedOut
  Pv <- MCPv
  Dashed <- MCDashed
  Shared <- LockedAll
  Exclusive <- NoLocks
  AllowOverlap = {"k"}
  None = None
  MaxBuilds = 2
  MaxFails = 0
INVARIANTS
  CopiedStays
