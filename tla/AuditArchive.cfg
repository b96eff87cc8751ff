CONSTANTS
  Process = {p1, p2}
  MaxId = 3
  BatchSize = 3
  MaxSecond = 2
  MaxFailures = 1
  Lag = 1
SPECIFICATION MCSpec
INVARIANTS TypeOK DeletedIsArchived
PROPERTY RetentionDone
