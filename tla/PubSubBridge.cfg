CONSTANTS
  Messages = {m1, m2, m3}
  Break = None
  Runs = {r1, r2}
  MaxSize = 2
  Directions = {"asyncPub", "syncPub"}
  Nobody = Nobody
  Faults = {"cancel", "none"}
SPECIFICATION FairSpec
INVARIANTS UnfinishedExact OneConsumer ClosedMeansDrained
PROPERTY QueuedIsConsumed
CHECK_DEADLOCK FALSE
