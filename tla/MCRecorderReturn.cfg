CONSTANTS
  Data = {o1}
  OsdData = {o1}
  NoData = NoData
  TimeModulus = 64
  MaxClusterDuration = 3
  CueThreshold = 5
  SlotDuration = 4
  Steps <- MonotoneSteps
  MaxTime = 11
  MaxFiles = 2
SPECIFICATION Spec
PROPERTIES
  TrueMeansFileOpen
CHECK_DEADLOCK FALSE
