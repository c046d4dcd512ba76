CONSTANTS
  PPI_START = 1
  SPI_START = 2
  SPECIAL_START = 5
  CpuCount = 2
  ItLines = 2
  BootRegs <- MCBootRegs
  Flag = {"ARE_S", "EnableGrp1NS"}

SPECIFICATION Spec

INVARIANTS
  TypeOK
  NeverMoreThanAsked
  KeptEnabled

PROPERTIES
  ClearedIsOff
  BarrierQuiets
