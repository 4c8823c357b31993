SPECIFICATION Spec
CONSTANTS
  HostIds = 2
  DeviceIds = 1
  MaxData = 1
  MaxSession = 0
  MaxLoss = 0
  ServiceErrors = TRUE
INVARIANT NoFreedUse
CHECK_DEADLOCK FALSE
