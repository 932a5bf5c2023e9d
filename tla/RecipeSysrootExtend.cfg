SPECIFICATION Spec
CONSTANTS
  Task <- MCTask
  Dep <- MCDep
  Hash <- MCHash
  File <- MCFile
  Config <- MCConfig
  Need <- MCNeed
  HashOf <- MCHashOf
  Files <- MCFiles
  Bin = {"t"}
  Own <- MCOwn
  None = None
  MaxBuilds = 3
  MaxFails = 1
  MaxKills = 1
INVARIANTS
  TypeOK
  BodySeesDeps
  Cleanable
  SuccessIsClean
PROPERTIES
  PrefuncSucceeds
