SPECIFICATION PartSpec
CONSTANTS
  s1 = s1
  s2 = s2
  b1 = b1
  d1 = d1
  k1 = k1
  k2 = k2
  v1 = v1
  v2 = v2
  c1 = c1
  c2 = c2
  Clients = {c1, c2}
  Absent = Absent
  Nobody = Nobody
  Services = {"s1"}
  Buckets <- StorageBuckets
  Keys <- StorageKeys
  Values = {"v1", "v2"}
  Lifetime = 0
  Storages <- StorageScenarios
  Scenarios <- ManifestScenarios
INVARIANTS AnswersHonest SecretsKept ObjectsStand
PROPERTIES CreateWorks
CHECK_DEADLOCK FALSE
