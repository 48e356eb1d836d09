CONSTANTS
  SlotLen = 2
  Slots = 2
  YearDays = 2
  YearCap = 3
  Clips <- MCClips
  MaxCrashes = 0
  MaxFailures = 0
  Searchers = {s1, s2}
  Requests <- MCRequests
SPECIFICATION SearchSpec
SYMMETRY Symmetry
INVARIANTS
  SearchTypeOK
  FoundServesRequest
  CoveringFileIsFound
CHECK_DEADLOCK FALSE
