SPECIFICATION PartSpec
CONSTANTS
  c1 = c1
  c2 = c2
  c3 = c3
  r1 = r1
  r2 = r2
  r3 = r3
  Conns = {c1, c2, c3}
  Replicas = {r1, r2, r3}
  ControlPlane = ControlPlane
  NoPolicy = NoPolicy
  Scenarios <- ProxyScenarios
  Services = {s1}
  NoService = NoService
  Statuses = {200, 503}
  Buckets = {1, 2}
  MaxRequests = 2
  Loads <- ProxyLoads
INVARIANTS SteadyServes OnlyPermittedForwarded AnsweredOnce EvenSpread CountedOnce ViewsOrdered
PROPERTIES EveryConnectionEnds
CHECK_DEADLOCK FALSE
