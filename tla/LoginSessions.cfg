CONSTANTS
  User = {u1}
  Request = {r1, r2}
  Password = {a, b}
  None = None
  MaxSessions = 1
  MaxRows = 2
  MaxVersion = 1
SPECIFICATION FairSpec
INVARIANTS TypeOK SessionLimit NewPasswordEndsLogins LockDiscipline
PROPERTIES DeadForever LoginAnswered
CHECK_DEADLOCK FALSE
