CONSTANTS
  N = 2
  Existing = {1}
  MaxStateRecords = 512
  MaxTargets = 100
  MaxFaults = 2
  MaxEdits = 0
SPECIFICATION Spec
INVARIANT RecoverableAfterRollbackCrash
CHECK_DEADLOCK FALSE
