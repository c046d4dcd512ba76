CONSTANTS
  PPI_START = 1
  SPI_START = 2
  SPECIAL_START = 4
  CpuCount = 2
  Words = 2
  PrioPerWord = 2
  TrigPerWord = 2
  Implemented = {0, 2, 3}
  Priority = {0}
  Mask = {0, 255}
  Sgi = {0}
  Peripheral = {2}
  Target = {0}
  Secure = TRUE
  Masking = {0}
  MaxNesting = 2
  LoopDepth = 0

SPECIFICATION Spec

INVARIANTS
  TypeOK
  EnabledAsAsked
  SetupCovers
  TriggerAsAsked
  ActiveIsHandled
  ListsReach

PROPERTIES
  NoEdgeLost
