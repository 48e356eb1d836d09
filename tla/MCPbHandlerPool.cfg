CONSTANTS
  Spawned = {t1, t2}
  Main = main
  MaxSessions = 7
  MaxThrows = 5
SPECIFICATION Spec
INVARIANTS
  PoolTypeOK
  SessionsCounted
  HandlersCounted
  PoolKeepsServing
  FatalOnlyAfterFailures
PROPERTIES
  SignalEndsThreads
CHECK_DEADLOCK FALSE
