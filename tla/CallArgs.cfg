CONSTANTS
  DataBytes = 40
  EventLimit = 40
  FdSetBytes = 4
  FlockBytes = 8
  NULL = NULL
  Call <- MCCall
  HostFd = {4, 7, 11}
  SnicFd = {7, 9, 25}
  NewFd = {11}
  KernelEvents <- MCKernelEvents
  MaxEvents = 3
  Ready <- MCReady
  Uninit <- MCUninit
  UninitValue <- MCUninitValue
  KernelOpt <- MCKernelOpt
  KernelAddr <- MCKernelAddr
  ClientIp <- MCClientIp
  BadArg <- MCBadArg
  Pointer = Pointer
  MaxCalls = 3
SPECIFICATION Spec
INVARIANT TypeOK
INVARIANT ArgumentsArrive
INVARIANT SelectArrives
INVARIANT SetsReturn
INVARIANT EventsReturn
INVARIANT PollReturns
INVARIANT ValueReturns
INVARIANT OverrunNeedsQuery
INVARIANT RightKernel
CHECK_DEADLOCK FALSE
