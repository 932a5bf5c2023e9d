SPECIFICATION ToolsSpec
CONSTANTS
  Item = {strip, split, shlibs}
  NoItem = NoItem
  MaxProcess = 2
  MaxKills = 1
  Stamp <- MCStamp
  ManifestOf <- MCManifestOf
  Begins <- MCBegins
  Cleanable <- MCCleanable
  Machine = {"m1", "m2"}
  NoStamp = NoStamp
  MaxBuilds = 4
  MaxDeaths = 1
  Tables <- MCTables
  PTables <- MCPTables
  Percent = 130
  Patch = {"p", "q", "r"}
  Shipped <- MCShipped
  MaxVersion = 4
  MaxInterrupts = 1
  Recipe = {"a", "b"}
  NoRecipe = NoRecipe
  Path <- MCPath
  Delivers <- MCDelivers
  Before <- MCBefore
  Delivered <- MCDelivered
  MaxCuts = 1
  MaxCommands = 2
  MaxFaults = 1
  MaxRestarts = 1
INVARIANTS
  AnswersCollected
  ChildrenBounded
  UnreachedGone
  StampHasOutput
  WicDisjoint
  ContentFits
  DeviceNamesHold
  LayoutAccepted
  RoundTrip
  EntriesHaveFiles
  OriginalKept
  NothingLeft
  AnswersDelivered
PROPERTIES
  LaunchReturns
  ReachedKept
  UndeployRestores
  StopReturns
CHECK_DEADLOCK FALSE
