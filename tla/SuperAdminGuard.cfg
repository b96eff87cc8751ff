CONSTANTS
  User = {u1, u2}
  Role = {super}
  Super = super
  Tx = {t1, t2}
  None = None
SPECIFICATION AdminFairSpec
INVARIANTS AdminTypeOK AdminRemains
PROPERTY RequestsEnd
