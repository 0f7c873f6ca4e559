SPECIFICATION Spec
CONSTANTS
  Proxy = FALSE
  Resegment = TRUE
  SynData = TRUE
  MaxSend = 2
  MaxRecv = 0
  Header = 1
  Windows <- OneWindow
INVARIANTS
  StreamInOrder
  SocketReleased
PROPERTIES
  ImplementsLifecycle
