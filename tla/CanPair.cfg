\* Two nodes of one format and different back ends that hear each other.
SPECIFICATION Spec
CONSTANTS
  a = a
  b = b
  Nodes <- TwoNodes
  NodeId <- PairIds
  Backend <- CharAndSock
  ExtId <- NoneExtended
  Dummy <- BothDummy
  HostFrames <- PairRequests
  ButtonStates <- MCButtonStates
  CAN_EFF_FLAG <- EffFlag
  RxLimit = 1
  TxLimit = 1
INVARIANTS
  NoArbitrationClash
  LampFollowsHost
PROPERTIES
  ImplementsLamp
