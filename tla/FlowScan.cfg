CONSTANTS
  a = a
  b = b
  MaxLength = 4
  File = {a, b}
  Extension <- MCExtension
  Committed <- MCCommitted
  Captured <- MCCaptured
  Starts <- MCStarts
  Edits <- MCEdits
  MaxEdits = 1
  Absent = Absent
SPECIFICATION ScanSpec
INVARIANTS ViolationsAccounted  GateIsViolations
