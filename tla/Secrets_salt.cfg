CONSTANTS
  Keys = {k1, k2}
  Values = {v1}
  Sessions = {s1, s2}
  Faults = {}
  Passwords = {pw}
  RawKeys = {}
  NoPassword = NoPassword
  Salts = {salt1, salt2, salt3, salt4}
  NoSalt = NoSalt
  Modes = {TRUE}
  Nothing = Nothing
  Empty = Empty
  Deleted = Deleted
  Types = {"local"}
SPECIFICATION Spec
INVARIANT Decipherable
CHECK_DEADLOCK FALSE
