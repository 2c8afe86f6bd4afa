CONSTANTS
  HeapWords = 18
  Requests <- MC_Requests
  Extras <- MC_Extras
SPECIFICATION Spec
INVARIANT FreeRegionsDisjoint
\* halt() stops the system
CHECK_DEADLOCK FALSE
