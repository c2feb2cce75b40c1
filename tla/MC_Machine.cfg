SPECIFICATION FairSpec
CONSTANTS
  TICK_CYCLES = 2
  TICK_MODULO = 2
  BYTE = 2
  BUTTON_COUNT = 3
  HARDWARE_READ_CYCLES = 2
  KEY_TRIGGER = {2}
  KEY_BLOCK = {1}
  SGN = 1
  ButtonWords <- TwoWords
  Program <- OneAddress
  Words <- OneAddress
  PswWrites <- OpenGates
  Vectors = {16}
  FaultCodes <- ZeroDivision
  MaxCycles = 2
  LoadBytes = {0, 1}
  TimerControls <- FewTimerControls
  PadControls <- FewPadControls
  SPILL_ROUNDS = 1
  Traces <- EveryTrace
  NoLimit = NoLimit
PROPERTIES
  ImplementsCpu
  IdleEnds
  TraceEnds
CHECK_DEADLOCK FALSE
