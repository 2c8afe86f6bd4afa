CONSTANTS
  UnitsPerPage = 16
  AddressPages = 48
  EntriesPerPage = 16
  Kernel = 6
  KernelSize = 2
  PageDirectory = 10
  StackPages = 2
  FPSPhysical = 17
  Maps <- MC_Maps
SPECIFICATION Spec
INVARIANTS TypeOK StackIsFreeRAM StackFits IdentityTableKept
\* MM_Init ends, or halts
CHECK_DEADLOCK FALSE
