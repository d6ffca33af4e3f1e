CONSTANTS
  N = 3
  Existing = {1, 3}
  MaxStateRecords = 512
  MaxTargets = 100
  MaxFaults = 2
  MaxEdits = 0
SPECIFICATION FairSpec
PROPERTIES
  ImplementsRecoverableCommit
  RecoveryConverges
CHECK_DEADLOCK FALSE
