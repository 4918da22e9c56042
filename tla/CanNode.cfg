\* A node with drivers alone with the host: every failure, a deep queue.
SPECIFICATION FairSpec
CONSTANTS
  a = a
  b = b
  Nodes <- OneNode
  NodeId <- OneId
  Backend <- OneChar
  ExtId <- OneExtended
  Dummy <- OneReal
  HostFrames <- NodeRequests
  ButtonStates <- MCButtonStates
  CAN_EFF_FLAG <- EffFlag
  RxLimit = 2
  TxLimit = 1
INVARIANTS
  TypeOK
  LampFollowsHost
  ReportsCurrent
PROPERTIES
  ImplementsLamp
  LampSettles
  ButtonSettles
