SPECIFICATION Spec
CONSTANTS
  Budget <- MCBudget
  StructBytes <- MCStructBytes
  PathBytes = 4
  Paths = {1, 2, 3}
  Snapshots <- MCSnapshots
  Operations <- MCOperations
  MaxOperations = 3
  BaseSizes = {10, 90, 160}
  DETAILED_DIFF_INPUT_BYTES = 7
  DIFF_WORK_UNITS = 75
  DIFF_OUTPUT_BYTES = 90
  MAX_RESPONSE_BYTES = 190
INVARIANTS
  PlanRealizesBatch
  MovesConserveBytes
  ConflictExact
  OrderOnlyMattersAtOneOffset
  DigestBindsSnapshot
  LineCountsAgree
  DiffReconstructs
  SummaryResponseFits
CHECK_DEADLOCK FALSE
