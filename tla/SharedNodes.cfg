SPECIFICATION FairSpec
CONSTANTS
  NodeCount = 2
  CpuCapacity = 6
  MemoryCapacity = 0
  Policy = "binpack"
  Services = {s1, s2}
  Blocked = {}
  MaxReplicas = 2
  MaxContainers = 6
  Scenarios <- AllScenarios
INVARIANTS UndisturbedFits
PROPERTIES FullLedger RollingRoom RoomyServed
