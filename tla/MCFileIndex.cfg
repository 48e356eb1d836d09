CONSTANTS
  SlotLen = 1
  Slots = 2
  YearDays = 3
  YearCap = 2
  Clips <- MCClips
  MaxCrashes = 2
  MaxFailures = 1
SPECIFICATION Spec
INVARIANTS
  TablesLeadToNodes
  TablesAgreeWithChain
  LinksGoBothWays
  CrashLosesAtMostOne
  HeapFailsOnlyAfterNewYear
PROPERTIES
  ImplementsMediaChain
CHECK_DEADLOCK FALSE
