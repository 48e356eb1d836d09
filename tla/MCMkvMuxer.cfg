CONSTANTS
  Data = {o1, o2}
  NoData = NoData
  TimeModulus = 16
  MaxClusterDuration = 4
  CueThreshold = 5
  Timecodes <- MCTimecodes
  MaxDurations <- MCMaxDurations
  MaxClosed = 2
SPECIFICATION MuxerSpec
INVARIANTS
  MuxerTypeOK
  BlocksFitTheirCluster
  FileWithinBounds
  NoDanglingSubtitle
  ClosedFilesExist
  EveryClusterHasSubtitle
