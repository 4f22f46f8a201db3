CONSTANTS
  Keys = {k1, k2, k3}
  Ids = {k1, k2}
  Policies = {"ALL_DONE", "ANY_DONE", "ANY_FAIL"}
  NoId = NoId
  Null = Null
  MaxBatch = 3
SPECIFICATION FairSpec
INVARIANTS TypeOK EveryRequestAnswered NotificationsSilent WaitsForEveryCall
INVARIANTS WokenOnce WaitForKept NothingLeftRunning
PROPERTY Settles
CHECK_DEADLOCK FALSE
