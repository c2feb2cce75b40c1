SPECIFICATION HistorySpec
CONSTANTS
  ENTRIES = 2
  BLOCK_LEN = 4
  \* A tag word is below 256: a tag below 64, the valid bit and a reserved one.
  BYTE_SPACE = 4
  TAG_VALID = 64
  GRANULE = 8
  COUNT_SPACE = 16
  REGION_LEN = 32
  ADDRESS_LEN = 512
  WRAM_LEN = 16
  SRAM_LEN = 4
  Rom <- RomContents
  \* Wram, and the last half word of the address space, which is in the rom.
  Fetches = {162, 510}
  ControlWords <- FewWords
  \* A byte of that wram block, through its mirror.
  StoreAddresses = {177}
  StoreValues = {1}
INVARIANTS
  ValidEntriesShowMemory
PROPERTIES
  RestoreBringsBack
  OneOperationWins
