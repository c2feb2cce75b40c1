SPECIFICATION ScheduleSpec
CONSTANTS
  TICK_CYCLES = 2
  TICK_MODULO = 3
  BYTE = 2
  MaxCycles = 2
PROPERTY PendingTickIsSpentOnce
