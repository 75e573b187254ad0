SPECIFICATION HealthFairSpec
CONSTANTS
  Replicas = {r1}
  Syncers = {pass, rollout}
  Tables = {"redis", "memory"}
  FailureThreshold = 3
  SuccessThreshold = 1
  Faults = {"checker", "restart", "orchestrator"}
  MaxFaults = 2
  NoEntry = NoEntry
  NoReplica = NoReplica
INVARIANTS OnlyProbedRouted UnhealthyAfterThreshold
PROPERTIES GoodIsRouted LockedLeaves
