SPECIFICATION Spec
CONSTANTS
  HostIds = 2
  DeviceIds = 1
  MaxData = 2
  MaxSession = 0
  MaxLoss = 1
  ServiceErrors = FALSE
INVARIANT SocketsInv
PROPERTY StreamsKept
CHECK_DEADLOCK FALSE
