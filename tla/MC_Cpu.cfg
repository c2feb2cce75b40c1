SPECIFICATION HistorySpec
CONSTANTS
  Program <- OneAddress
  Words <- SomeWords
  PswWrites <- StatusWords
  Vectors = {}
  FaultCodes = {}
INVARIANTS
  TypeOK
  TimeDoesNotStandStill
PROPERTIES
  StopIsPermanent
  NoAcceptableInterruptWaits
  IdleIsFrozen
  OwedSilence
