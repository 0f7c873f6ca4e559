SPECIFICATION ForwardSpec
CONSTANTS
  Proxy = FALSE
  Resegment = FALSE
  SynData = TRUE
  MaxSend = 2
  MaxRecv = 1
  Header = 1
  Windows <- OneWindow
INVARIANTS
  TypeOK
  AckedWasForwarded
  NothingStranded
PROPERTIES
  QueuedIsForwarded
