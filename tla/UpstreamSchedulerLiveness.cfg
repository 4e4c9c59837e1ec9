SPECIFICATION FairSpec
CONSTANTS
  Capacity = 2
  Weight = 128
  MinislotsPerMap = 6
  FreeMinislots = {2, 5}
  PgsMinislots = 1
  PgsGap = 4
  FirstPgs = 1
  MsrIncrement = 3
  PeakIncrement = 9
  MaxTrafficBurst = 7
  PeakBurst = 9
  RequestSizes = {4}
  MaxBacklog = 8
  MaxOutstanding = 1
PROPERTY
  NoFlowStarves
