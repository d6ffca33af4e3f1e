CONSTANTS
  InboundEvents = 1
  InboundBytes = 1
  OutboundFrames = 1
  OutboundBytes = 2
  CompletionEvents = 4
  Sizes = {1, 2}
  MaxChunks = 1
  MaxFrames = 2
  MaxFaults = 1
  Endings = {}
SPECIFICATION Spec
INVARIANTS
  TypeOK
  CompletionsNeverDropped
  NoLostWakeup
  PrecedenceHonoured
  ExitReportedOnce
  BudgetsAccounted
