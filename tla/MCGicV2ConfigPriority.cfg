CONSTANTS
  PPI_START = 1
  SPI_START = 2
  SPECIAL_START = 4
  CpuCount = 1
  Words = 2
  PrioPerWord = 2
  TrigPerWord = 2
  Implemented = {0, 1, 2, 3}
  Priority = {0, 1}
  Mask = {0, 255}

SPECIFICATION ConfigSpec

INVARIANT PriorityAsAsked
