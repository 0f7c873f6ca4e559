SPECIFICATION Spec
CONSTANTS
  Any = "*"
  MaxAge = 1
  MaxRows = 2
  MaxCache = 2
  MaxSessions = 1
  Sockets <- SmallSockets
  Flows <- SmallFlows
INVARIANTS TypeOK KernelAnswerFresh DestinationIsLast OwnerHadSocket CacheBounded
