CONSTANTS
  Devices = {0, 1, 8}
  Drivers = {"Keyboard_Handler"}
  MaxHandlers = 1
  MaxTimers = 0
SPECIFICATION Spec
INVARIANT AllMaskedAfterInit
\* an interrupt that waits for a lock stops the system
CHECK_DEADLOCK FALSE
