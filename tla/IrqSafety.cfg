CONSTANTS
  Devices <- MC_Devices
  Drivers <- MC_Drivers
  MaxHandlers = 2
  MaxTimers = 1
SPECIFICATION FairSpec
INVARIANTS TypeOK ListsNotTorn LocksAccounted ServedOutsideController MaskAgrees
PROPERTY ServiceEnds
\* an interrupt that waits for a lock stops the system
CHECK_DEADLOCK FALSE
