CONSTANTS
  Items = {i1, i2, i3, i4}
  Workers = {w1, w2}
  Callers = {c1, c2}
  WakeUp = WakeUp
  Nobody = Nobody
  Faults = {"cancel", "initializer", "escape", "start"}
  Daemon = FALSE
SPECIFICATION Spec
SYMMETRY Symmetry
INVARIANTS TypeOK WakeUpsLast LeavesNoWork PendingHasOnePlace WakeUpMeansLeave IdleCountExact
PROPERTY DecidedOnce
CHECK_DEADLOCK FALSE
