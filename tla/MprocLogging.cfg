CONSTANTS
  Main = main
  Workers = {w1}
  Listener = listener
  Capacity = 2
  MaxRecords = 2
  Faults = {"kill", "interrupt", "raise"}
SPECIFICATION Spec
INVARIANT InOrder
PROPERTY EveryRecordHandled
CHECK_DEADLOCK FALSE
