CONSTANTS
  CpuCount = 3
  PowerGroup = {"g0", "g1"}
  GciOf <- MCGciOf

SPECIFICATION PowerFairSpec

PROPERTY TransitWaitEnds
