CONSTANTS
  User = {u1}
  Request = {r1, r2}
  Password = {a, b}
  None = None
  MaxSessions = 1
  MaxRows = 2
  MaxVersion = 1
SPECIFICATION Spec
CHECK_DEADLOCK FALSE
INVARIANT RevocationReachesLogins
