SPECIFICATION ScenarioSpec
CONSTANTS
  NodeCount = 2
  CpuCapacity = 14
  MemoryCapacity = 14
  Policy = "binpack"
  a = a
  b = b
  Images = {a, b}
  Requests <- OneRequest
  NewImages = {a, b}
  Specs <- AllSpecs
  MaxMade = 9
  MaxSurge = 1
  MaxPolls = 1
  Rollouts = {d1, d2}
  Reconcile = reconcile
  NoService = NoService
  Faults = {"container", "crash", "docker", "address", "listing"}
  MaxFaults = 2
  Clients = {c1, c2}
  Ops = {"create", "patch", "apply", "delete", "scale", "deploy"}
  MaxOps = 3
  MinReplicas = 1
  MaxReplicas = 2
INVARIANTS TypeOK NoLeak SteadyRouting SteadyLedger SurgeTakenBack RolloutDelivered
CONSTRAINT NoLostUpdate
SYMMETRY ScenarioSymmetry
