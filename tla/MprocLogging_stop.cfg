CONSTANTS
  Main = main
  Workers = {w1}
  Listener = listener
  Capacity = 2
  MaxRecords = 1
  Faults = {}
SPECIFICATION Spec
PROPERTY StopReturns
CHECK_DEADLOCK FALSE
