CONSTANTS
  Seeks <- MCSeeks
  FrameSizes = {1, 2}
SPECIFICATION Spec
PROPERTIES
  ServesReceivedSeek
CHECK_DEADLOCK FALSE
