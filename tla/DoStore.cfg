SPECIFICATION FairSpec
CONSTANTS
  Keys = {k1}
  MaxCalls = 3
  Concurrency = 2
  Absent = Absent
  Old = Old
  Partial = Partial
  Garbled = Garbled
  Nothing = Nothing
INVARIANTS WrittenIsThere ClosedIsQuiet NoClientLeaks
PROPERTIES KeepsExisting EveryCallAnswered
CHECK_DEADLOCK FALSE
