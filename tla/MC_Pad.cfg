SPECIFICATION ReadsFairSpec
CONSTANTS
  BUTTON_COUNT = 3
  HARDWARE_READ_CYCLES = 2
  KEY_TRIGGER = {2}
  KEY_BLOCK = {1}
  SGN = 1
  ButtonWords <- AnyWords
  MaxCycles = 2
INVARIANTS
  TypeOK
  ReadIsWhole
  AbortHolds
  ReadReportsTheButtons
PROPERTIES
  DataComesWhole
  ReadEnds
  LineSpec
