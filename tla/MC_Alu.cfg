SPECIFICATION HistorySpec
CONSTANTS
  WORD_BITS = 3
  SHORT_BITS = 2
  Immediates = {0, 2, 7}
INVARIANTS
  ConditionsTellTheOrder
  ArithmeticIsExact
