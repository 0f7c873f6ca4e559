SPECIFICATION FairSpec
CONSTANTS
  Proxy = TRUE
  Resegment = FALSE
  SynData = FALSE
  MaxSend = 0
  MaxRecv = 6
  Header = 1
  Windows <- TwoWindows
INVARIANTS
  WindowRespected
  SynAckOnce
PROPERTIES
  ClosingIsDeleted
  ConnectEnds
