SPECIFICATION FpuSpec
CONSTANTS
  EXPONENT_BITS = 4
  PRECISION = 2
  WIDE = 9
  FlagSets = {{}, {"FRO", "FIV", "FZD", "FOV", "FUD", "FPR"}}
INVARIANT ZeroResultSetsZeroFlag
CHECK_DEADLOCK FALSE
