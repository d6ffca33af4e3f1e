CONSTANTS
  InboundEvents = 1
  InboundBytes = 1
  OutboundFrames = 1
  OutboundBytes = 1
  CompletionEvents = 4
  Sizes = {1, 2}
  MaxChunks = 1
  MaxFrames = 1
  MaxFaults = 0
  Endings = {"finish", "abort", "drop"}
SPECIFICATION FairSpec
PROPERTIES
  ExitWakes
  CleanupConverges
INVARIANT
  BudgetsAccounted
CHECK_DEADLOCK FALSE
