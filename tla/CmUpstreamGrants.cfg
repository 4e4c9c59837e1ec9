SPECIFICATION Spec
CONSTANTS
  Flows = {1}
  FrameTicks = 2
  FramesPerMap = 2
  MinislotsPerFrame = 2
  Capacity = 1
  ProcTicks = 5
  PrepTicks = 2
  RequestTicks = 5
  MapTicks = 1
  StartupMaps = 2
  Layouts <- FullMapLayouts
  Sizes = {3}
  MaxUnsent = 9
  MaxBacklog = 4
  Rate = 1
  PeakRate = 2
  MaxTrafficBurst = 3
  DefaultBurst = 3
INVARIANTS
  PipelineAligned
  GrantReportExact
  DrainedAtDump
  DeviceQueueFits
