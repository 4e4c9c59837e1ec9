SPECIFICATION Spec
CONSTANTS
  PduSizes = {1, 2}
  MaxPdu = 2
  Header = 1
  MaxSize = 8
  ClassicBufferSize = 7
  LlBufferSize = 5
  MaxFrameSize = 1
  DrrQuantum = 4
  SchedulingWeight = 230
  Intervals = {1, 3}
  MaxElapsed = 5
  EwmaDivisor = 2
  StagedBytes = {1}
  AllowedAqs = {2}
  ClassicRates = {1}
  LatencyTarget = 2
  LongDelay = 2
  Alpha = 1
  Beta = 2
  MeanPktSize = 0
  UpdateInterval = 2
  MaxBurst = 3
  BurstResetLimit = 1
  ResetMemory = {0, 2}
INVARIANTS
  TypeOK
  NeitherQueueStarves
  DeficitIsSmall
  VqKeepsTheCount
  AllowanceMeansProtecting
  BurstTimesOut
