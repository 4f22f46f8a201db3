CONSTANTS
  Items = {i1, i2}
  Workers = {w1, w2}
  Callers = {c1}
  WakeUp = WakeUp
  Nobody = Nobody
  Faults = {"initializer"}
  Daemon = FALSE
SPECIFICATION FairSpec
PROPERTY ShutdownReturns
CHECK_DEADLOCK FALSE
