CONSTANTS
  Data = {o1}
  OsdData = {o1, NoData}
  NoData = NoData
  TimeModulus = 32
  MaxClusterDuration = 3
  CueThreshold = 5
  SlotDuration = 4
  Steps <- UnevenSteps
  MaxTime = 7
  MaxFiles = 2
SPECIFICATION Spec
INVARIANTS
  ClusterShowsOsd
CHECK_DEADLOCK FALSE
