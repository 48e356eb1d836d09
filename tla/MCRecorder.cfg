CONSTANTS
  Data = {o1}
  OsdData = {o1}
  NoData = NoData
  TimeModulus = 64
  MaxClusterDuration = 3
  CueThreshold = 5
  SlotDuration = 4
  Steps <- MonotoneSteps
  MaxTime = 11
  MaxFiles = 3
SPECIFICATION Spec
INVARIANTS
  TypeOK
  FlagsAgree
  EveryFileReportedOnce
  FilesInOrder
PROPERTIES
  StuckOnlyAfterGap
  NextFileInLaterSlot
CHECK_DEADLOCK FALSE
