SPECIFICATION FairSpec
CONSTANTS
  s1 = s1
  s2 = s2
  Services = {s1, s2}
  MaxContainers = 7
  Scenarios <- AllScenarios
INVARIANTS  CredentialsAgree
 
