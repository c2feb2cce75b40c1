SPECIFICATION Spec
CONSTANTS
  ROM_LEN = 1024
  SRAM_LEN = 2
  Rom <- FourRomBytes
  DEVICE_BYTE = 90
  Program <- Accessing
  FirstWords <- EveryWord
  RaiseSets <- EveryFlag
  Pictures <- Drawn
  Worlds <- TwoWorlds
  Objects <- TwoObjects
  BackgroundCells <- TwoCells
  Columns <- TwoColumns
  Rows <- ThreeRows
  MaxAccesses = 3
  Watched <- SomeWords
INVARIANTS
  DecodingLosesNothing
  RecordsShowMemory
PROPERTIES
  ImplementsFlatMemory
  FlagsGoAsAsked
CHECK_DEADLOCK FALSE
