CONSTANTS
  Messages = {m1}
  Break = None
  Runs = {r1}
  MaxSize = 2
  Directions = {"syncPub"}
  Nobody = Nobody
  Faults = {}
SPECIFICATION FairSpec
PROPERTY CloseReturns
CHECK_DEADLOCK FALSE
