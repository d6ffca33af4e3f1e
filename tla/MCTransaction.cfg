CONSTANTS
  N = 3
  Existing = {1, 3}
  MaxStateRecords = 512
  MaxTargets = 100
  MaxFaults = 4
  MaxEdits = 2
SPECIFICATION Spec
INVARIANTS
  TypeOK
  OriginalNeverLost
  UserBytesPreserved
  JournalNeverAhead
  VisibilityHonest
  AllOrNothing
  ResultHonest
  JournalAccepts
  ChainBounded
  RecoveryAvailable
CHECK_DEADLOCK FALSE
