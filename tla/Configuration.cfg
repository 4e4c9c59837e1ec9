SPECIFICATION Spec
CONSTANTS
  DisabledTh = 1000000000
  Cases <- MCCases
  Distances = {100, 800}
  MeanPacketSize = 200
  UsMacHdrSize = 10
  DsSymbolCapacity = 3900
  MaxPdu = 1518
  FirstPgsGrantFrameOffset = 2
CHECK_DEADLOCK FALSE
INVARIANTS
  TypeOK
  RampIsSane
  MapsAreOnTime
  SidesAgree
