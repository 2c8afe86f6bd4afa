CONSTANTS
  COLUMNS = 4
  ROWS = 2
  Characters <- MC_Characters
  ModuleWidth = 1
  Modules <- MC_Modules
  Messages <- MC_Messages
  MaxRows = 5
SPECIFICATION Spec
INVARIANTS TypeOK ShowsLastRows CursorAtRowStart
