SPECIFICATION FairSpec
CONSTANTS
  MaxHeaderBytes = 3
  MaxInboundBodyBytes = 2
  MaxPending = 1
  MaxReadyEvents = 2
  MaxBufferedMessages = 1
  MaxBufferedBytes = 2
  Bodies <- MCBodies
  Faults = {"stdin"}
  Unframed <- MCUnframed
  MaxOutstanding = 2
  MaxConditions = 1
  Inputs <- MCInputs
  ServerRequests = 1
  Notifications = 1
  SourceBytes = 2
  OptionsBytes = 2
  SettingsBytes = 2
  ConfigurationItems = 1
  ConfigurationBytes = 6
  MaxOutboundBodyBytes = 2
INVARIANTS StreamPreserved AnsweredOnce BufferAccounted FailureNotSwallowed TimeoutGenuine
PROPERTY SessionEnds
CHECK_DEADLOCK FALSE
