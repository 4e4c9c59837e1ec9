SPECIFICATION FairSpec
CONSTANTS
  Flows = {1, 2}
  FrameTicks = 2
  FramesPerMap = 2
  MinislotsPerFrame = 2
  Capacity = 2
  ProcTicks = 3
  PrepTicks = 2
  RequestTicks = 3
  MapTicks = 1
  StartupMaps = 2
  Layouts <- BothLayouts
  Sizes = {3}
  MaxUnsent = 3
  MaxBacklog = 2
  Rate = 1
  PeakRate = 0
  MaxTrafficBurst = 3
  DefaultBurst = 3
INVARIANTS
  TypeOK
PROPERTIES
  AsksForWhatItHolds
  ImplementsLoop
  NoStall
