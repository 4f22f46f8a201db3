CONSTANTS
  Items = {i1, i2}
  Workers = {w1, w2}
  Callers = {c1, c2}
  WakeUp = WakeUp
  Nobody = Nobody
  Faults = {"cancel"}
  Daemon = TRUE
SPECIFICATION FairSpec
PROPERTIES KeepsPromise EveryFutureDecided ShutdownReturns InterpreterExits
CHECK_DEADLOCK FALSE
