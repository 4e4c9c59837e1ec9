SPECIFICATION Spec
CONSTANTS
  Capacity = 2
  Weight = 128
  MinislotsPerMap = 6
  FreeMinislots = {0, 6}
  PgsMinislots = 1
  PgsGap = 4
  FirstPgs = 1
  MsrIncrement = 3
  PeakIncrement = 9
  MaxTrafficBurst = 7
  PeakBurst = 9
  RequestSizes = {1, 4}
  MaxBacklog = 8
  MaxOutstanding = 1
INVARIANT
  PgsOnTime
