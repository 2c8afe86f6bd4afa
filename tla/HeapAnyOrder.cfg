CONSTANTS
  HeapWords = 15
  Requests <- MC_Requests
  Extras <- MC_Extras
SPECIFICATION FairSpec
INVARIANTS TypeOK HeapTiled FreeListSound LiveBlocksListed
PROPERTIES InvalidFreeHalts SpillsOnlyWithoutRoom CallReturns KeepsPromise
\* halt() stops the system
CHECK_DEADLOCK FALSE
