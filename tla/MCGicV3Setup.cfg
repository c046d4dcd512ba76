CONSTANTS
  PPI_START = 1
  SPI_START = 2
  SPECIAL_START = 5
  CpuCount = 2
  ItLines = 2
  BootRegs <- MCBootRegs
  ClientIds = {4}

SPECIFICATION FairSpec

INVARIANTS
  TypeOK
  GroupTypeOK
  OnlyExistingSpis
  SetupIsReady

PROPERTIES
  NoReservedEncodingLeft
  ImplementsGrouping
  InitWakes
  SetupReturns
