SPECIFICATION FairSpec
CONSTANTS
  Builder <- MCBuilder
  Reader <- MCVerifies
  Signs <- MCSigns
  Verifies <- MCVerifies
  Absent = Absent
  Mirror = Mirror
  Served = {}
  MaxDrops = 0
  MaxDeaths = 0
  MaxCleanups = 0
INVARIANTS
  PairMatches
PROPERTIES
  GivesUpForAnother
  EventuallyAvailable
