SPECIFICATION FairSpec
CONSTANTS
  NodeCount = 1
  CpuCapacity = 8
  MemoryCapacity = 8
  Policy = "binpack"
  a = a
  b = b
  Images = {a, b}
  Requests <- OneRequest
  NewImages = {a, b}
  Specs <- OneReplica
  MaxMade = 4
  MaxSurge = 1
  MaxPolls = 1
  Rollouts = {}
  Reconcile = reconcile
  NoService = NoService
  Faults = {}
  MaxFaults = 0
  Clients = {c1}
  Ops = {"create","delete"}
  MaxOps = 2
  MinReplicas = 1
  MaxReplicas = 2
PROPERTY DeleteIsHonoured
