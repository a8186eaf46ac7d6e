SPECIFICATION WebSpec
CONSTANTS
  r1 = r1
  r2 = r2
  r3 = r3
  Requests <- ThreeRequests
  Faults = TRUE
INVARIANT TypeOK
INVARIANT MessagesTrue
INVARIANT OnlySessionsCommand
PROPERTY SessionKept
PROPERTY ExpiredIsPowerless
PROPERTY EveryFormAnswered
