SPECIFICATION Spec
CONSTANTS
  Radix = 16
  Flag = 4
  QnameMax = 3
  MaxHops = 2
  HeaderLen = 1
  QFixed = 1
  RRFixed = 2
  ALen = 1
  AAAALen = 2
  Responses <- SmallResponses
  RecordLen = 1
  Fixed = 2
  SniLength = 3
  Hellos <- SmallHellos
  Records <- SmallRecords
  Half = 5
  Segments <- SmallSegments
  Serials <- Serial
INVARIANTS DnsInBounds NameDecoded AnswersReported TlsInBounds ServerNameFound
  ChecksumsVerify SerialOrder
PROPERTIES MessageEnds
CHECK_DEADLOCK FALSE
