CONSTANTS
  PPI_START = 16
  SPI_START = 32
  SPECIAL_START = 1020
  CpuCount = 3
  AffinityOf <- MCAffinityOf
  Chip <- MCChip
  IntIdInput = {0, 15, 16, 31, 32, 33, 47, 63, 64, 1019, 1020, 1023, 1056, 1119, 4096, 5119, 8192}

SPECIFICATION Spec

INVARIANTS
  InterruptsReached
  RegistersReached
  LoopsCover
  OwnRedistributor
  CountsTold
