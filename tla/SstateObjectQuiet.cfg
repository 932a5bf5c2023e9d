SPECIFICATION Spec
CONSTANTS
  Builder <- MCBuilder
  Reader <- MCReader
  Signs <- MCSigns
  Verifies <- MCVerifies
  Absent = Absent
  Mirror = Mirror
  Served = {"pkg", "sig"}
  MaxDrops = 0
  MaxDeaths = 2
  MaxCleanups = 0
INVARIANTS
  SignedHasSignature
  UnpackedIsVerified
PROPERTIES
  ImplementsStore
