SPECIFICATION FairSpec
CONSTANTS
  Packets <- MCPackets
  DelayTicks = 1
  DecodeTicks <- MCDecodeTicks
  RemarkTcp = TRUE
  ClassifyEct0 = FALSE
  QueueLimit = 1
  DeviceQueueLimit = 1
  MaxPackets <- MCMaxPackets
CHECK_DEADLOCK FALSE
INVARIANTS
  TypeOK
  BusyUntilComplete
  EachInOnePlace
  InOrder
PROPERTIES
  Arrives
