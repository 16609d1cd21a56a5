SPECIFICATION Spec
CONSTANTS
  PendingLimit = 2
  MaxSeq = 2
  MaxEngine = 2
  MaxBreak = 1
INVARIANTS
  AckedWasRelayed
CHECK_DEADLOCK FALSE
