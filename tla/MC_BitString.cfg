SPECIFICATION ResultSpec
CONSTANTS
  WORD_BITS = 2
  WORD_BYTES = 2
  WORDS = 3
  MODULUS = 12
  Addresses = {3, 10}
  Offsets = {0, 3}
  Lengths = {0, 1, 3, 5}
INVARIANTS
  Resumable
  ResultIsWhole
PROPERTY StringEnds
CHECK_DEADLOCK FALSE
