CONSTANTS
  Keys = {k1, k2}
  Values = {v1}
  Sessions = {s1, s2}
  Faults = {"crash", "io"}
  Passwords = {pw, raw}
  RawKeys = {raw}
  NoPassword = NoPassword
  Salts = {salt1, salt2, salt3, salt4}
  NoSalt = NoSalt
  Modes = {TRUE, FALSE}
  Nothing = Nothing
  Empty = Empty
  Deleted = Deleted
  Types = {"local", "aws", "gcp", "azure"}
SPECIFICATION Spec
INVARIANTS TypeOK SavedIsReadBack Reopens KeepsExistingSecret
PROPERTY OthersUntouched
CHECK_DEADLOCK FALSE
