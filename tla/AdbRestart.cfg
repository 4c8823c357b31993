SPECIFICATION FairSpec
CONSTANTS
  HostIds = 1
  DeviceIds = 1
  MaxData = 1
  MaxSession = 1
  MaxLoss = 1
  ServiceErrors = FALSE
PROPERTIES
  StreamsKept
  EndsTogether
CHECK_DEADLOCK FALSE
