CONSTANTS
  Threads = {t1, t2}
  Classes = {p1, p2, r1, r2}
  Reinitialised = {r1, r2}
  NoClass = NoClass
  Nobody = Nobody
  MaxCalls = 1
  MaxLength = 4
  MaxNodes = 3
  MaxChanges = 1
SPECIFICATION Spec
INVARIANTS OneInstance ReconfiguredWhole Converted ScanComplete
PROPERTY CallsReturn
CHECK_DEADLOCK FALSE
