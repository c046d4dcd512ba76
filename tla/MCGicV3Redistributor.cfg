CONSTANTS
  CpuCount = 3
  PowerGroup = {"g0", "g1"}
  GciOf <- MCGciOf

SPECIFICATION FairSpec

INVARIANTS
  WakerTypeOK
  PowerTypeOK
  PowerHolds

PROPERTIES
  ImplementsHandshake
  SettledStays
  ResultsHold
  CallsReturn
  CallsReturnOrSpin
  PowerFollowsSleep
