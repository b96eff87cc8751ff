CONSTANTS
  Account = {a1, a2}
  Address = {x1}
  Request = {r1, r2}
  None = None
  MaxFailures = 2
  MaxAddressFailures = 3
  Window = 3
  Lockout = 2
  Retention = 3
SPECIFICATION FairSpec
INVARIANTS TypeOK GuessesBounded FullIsLocked
PROPERTIES AddressKeepsCount LockEnds
