CONSTANTS
  PPI_START = 1
  SPI_START = 2
  SPECIAL_START = 3
  CpuCount = 2
  ItLines = 1
  Arch = "aarch32"
  Sgi = {0}
  Peripheral = {2}
  Route <- MCRoute
  GroupOf <- MCGroupOf
  AffinityOf <- MCAffinityOf
  Priority = {0, 1}
  Mask = {1, 2}
  Switched <- MCSwitched
  MaxNesting = 2

SPECIFICATION Spec

INVARIANT SgisArrive
