SPECIFICATION Spec
CONSTANTS
  Capacity = 2
  Weight = 128
  MinislotsPerMap = 6
  FreeMinislots = {1, 6}
  PgsMinislots = 1
  PgsGap = 4
  FirstPgs = 1
  MsrIncrement = 3
  PeakIncrement = 7
  MaxTrafficBurst = 8
  PeakBurst = 12
  RequestSizes = {7}
  MaxBacklog = 8
  MaxOutstanding = 2
VIEW accounts
INVARIANTS
  TypeOK
  AllocationIsFair
  GrantsArePlaced
  MessageIsFaithful
  WithinTokenLimits
  OverageIsSmall
  PgsOnTime
