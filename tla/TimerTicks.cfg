CONSTANTS
  TimeOuts <- MC_TimeOuts
  MaxTimers = 3
  MaxTicks = 7
SPECIFICATION Spec
INVARIANTS TypeOK FiresOnTime
\* the bounds on timers and ticks end the run
CHECK_DEADLOCK FALSE
