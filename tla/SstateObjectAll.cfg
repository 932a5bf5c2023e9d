SPECIFICATION Spec
CONSTANTS
  Builder <- MCBuilder
  Reader <- MCVerifies
  Signs <- MCSigns
  Verifies <- MCVerifies
  Absent = Absent
  Mirror = Mirror
  Served = {"pkg", "sig"}
  MaxDrops = 2
  MaxDeaths = 1
  MaxCleanups = 2
INVARIANTS
  TypeOK
PROPERTIES
  ExchangedBySigners
