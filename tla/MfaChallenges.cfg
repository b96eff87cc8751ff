CONSTANTS
  Request = {r1, r2}
  Key = {k1}
  None = None
  MaxAttempts = 2
  MaxChallenges = 2
  MaxBatch = 2
  MaxStep = 2
SPECIFICATION Spec
SYMMETRY Symmetry
INVARIANTS TypeOK OneLoginPerPassword RecoveryCodeOnce OneOpenChallenge OpenHasAttempts ReauthOnce
PROPERTY ImplementsTickets
CHECK_DEADLOCK FALSE
