SPECIFICATION Spec
CONSTANTS
  MaxScanned = 50
  SymbolLimits <- MCLimits
  TextBytes <- MCTextBytes
  Root <- MCRoot
  FieldBytes = 2
  ArgumentBytes = 2
  JsonBytes = 2
  Timeouts = {1, 2}
  Requests <- MCRequests
  Replies <- MCReplies
  SessionErrors <- MCSessionErrors
  OutlineSymbols = 3
  NameBytes = 2
  IdentityBytes = 2
  ResponseBytes = 3
INVARIANT LimitsReportedAsLimits
CHECK_DEADLOCK FALSE
