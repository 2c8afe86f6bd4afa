CONSTANTS
  Devices = {0}
  Drivers = {}
  MaxHandlers = 1
  MaxTimers = 0
SPECIFICATION FairSpec
PROPERTY InterruptReturns
\* an interrupt that waits for a lock stops the system
CHECK_DEADLOCK FALSE
