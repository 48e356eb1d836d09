CONSTANTS
  Files <- MCFiles
  Damaged = {5}
  Second = 2
  Requests <- MCRequests
SPECIFICATION Spec
INVARIANTS
  ForwardIsContiguous
  BackwardMirrorsForward
PROPERTIES
  EndsOnlyAtEnd
CHECK_DEADLOCK FALSE
