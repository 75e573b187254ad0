SPECIFICATION FairSpec
CONSTANTS
  s1 = s1
  s2 = s2
  Services = {s1, s2}
  Checks = 2
  RpsUp = 1
  RpsDown = 1
  MaxRequests = 2
  Scenarios <- AutoscaleScenarios
INVARIANTS TrafficOnce
PROPERTIES PatientDown FollowsLoad
