SPECIFICATION ScheduleFairSpec
CONSTANTS
  TICK_CYCLES = 3
  TICK_MODULO = 3
  BYTE = 2
  MaxCycles = 3
INVARIANTS
  TypeOK
  ZeroIsVisible
  PhaseKept
  OnSchedule
PROPERTIES
  NoZeroIsLost
  StandingZeroIsNotAcknowledged
  LineSpec
