SPECIFICATION FairSpec
CONSTANTS
  r1 = r1
  Requests <- OneRequest
  MaxFaults = 2
INVARIANT TypeOK
INVARIANT ServesMigratedTable
INVARIANT ResourcesOutliveHandlers
INVARIANT EventsSurviveInterrupts
PROPERTY AcceptedCallsEnd
PROPERTY ComesUp
