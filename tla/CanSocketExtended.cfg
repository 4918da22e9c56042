\* The SocketCAN node with extended identifiers of qemu-armv7a.
SPECIFICATION Spec
CONSTANTS
  a = a
  b = b
  Nodes <- OneNode
  NodeId <- QemuSockId
  Backend <- OneSock
  ExtId <- OneExtended
  Dummy <- OneDummy
  HostFrames <- QemuRequests
  ButtonStates <- MCButtonStates
  CAN_EFF_FLAG <- EffFlag
  RxLimit = 1
  TxLimit = 1
INVARIANTS
  LampFollowsHost
