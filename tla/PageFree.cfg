CONSTANTS
  TableCount = 2
  PTEntries = 2
  FreeCount = 2
  DeviceCount = 1
  MaxRun = 2
  Heap <- MC_Heap
  Perms <- MC_Perms
SPECIFICATION Spec
INVARIANT FreeAcceptsAllocatedPages
\* halt() stops the system
CHECK_DEADLOCK FALSE
