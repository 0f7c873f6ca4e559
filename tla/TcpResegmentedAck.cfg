SPECIFICATION Spec
CONSTANTS
  Proxy = FALSE
  Resegment = TRUE
  SynData = FALSE
  MaxSend = 2
  MaxRecv = 0
  Header = 1
  Windows <- OneWindow
INVARIANTS
  AckedWasForwarded
