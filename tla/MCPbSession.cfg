CONSTANTS
  Seeks <- MCSeeks
  FrameSizes = {1, 2}
SPECIFICATION Spec
INVARIANTS
  SessionTypeOK
  ExitsOnce
  OneSeekAtATime
PROPERTIES
  SessionReleased
CHECK_DEADLOCK FALSE
