SPECIFICATION Spec
CONSTANTS
  Builder <- OneBuilder
  Reader <- OneReader
  Signs <- Nobody
  Verifies <- Nobody
  Absent = Absent
  Mirror = Mirror
  Served = {"pkg"}
  MaxDrops = 1
  MaxDeaths = 0
  MaxCleanups = 0
PROPERTIES
  ForcedMoveHappens
