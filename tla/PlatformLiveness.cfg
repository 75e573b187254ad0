SPECIFICATION ScenarioSpec
CONSTANTS
  NodeCount = 1
  CpuCapacity = 14
  MemoryCapacity = 14
  Policy = "binpack"
  a = a
  b = b
  Images = {a, b}
  Requests <- OneRequest
  NewImages = {b}
  Specs <- AllSpecs
  MaxMade = 14
  MaxSurge = 1
  MaxPolls = 2
  Rollouts = {d1}
  Reconcile = reconcile
  NoService = NoService
  Faults = {"container", "crash", "docker", "address", "error"}
  MaxFaults = 2
  Clients = {c1, c2}
  Ops = {"create", "patch", "apply", "delete", "destroy", "scale", "deploy"}
  MaxOps = 3
  MinReplicas = 1
  MaxReplicas = 2
PROPERTIES SettlesWithRoom RolloutsStart CrampedCompletes
