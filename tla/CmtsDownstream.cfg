SPECIFICATION FairSpec
CONSTANTS
  PipelineFactor = 1
  SymbolCapacity = 12
  FreeCapacities = {2, 12}
  Header = 2
  PduSizes = {4, 7}
  MaxFrame = 7
  MsrIncrement = 4
  PeakIncrement = 6
  MaxTrafficBurst = 8
  MaxPdu = 8
  Word = 64
  QueueLimit = 15
INVARIANTS
  TypeOK
  SlotHoldsSymbol
  NothingLost
PROPERTY
  NoStallButHeader
