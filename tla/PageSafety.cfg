CONSTANTS
  TableCount = 2
  PTEntries = 2
  FreeCount = 3
  DeviceCount = 2
  MaxRun = 2
  Heap <- MC_Heap
  Perms <- MC_Perms
SPECIFICATION Spec
INVARIANTS TypeOK FramesPartition NoStaleTranslation
PROPERTIES TableBacked FramesOwned
\* halt() stops the system
CHECK_DEADLOCK FALSE
