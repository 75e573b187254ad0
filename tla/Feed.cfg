SPECIFICATION FairSpec
CONSTANTS
  c1 = c1
  c2 = c2
  Clients = {c1, c2}
  Scenarios <- FeedScenarios
INVARIANTS Faithful
PROPERTIES Delivered
CHECK_DEADLOCK FALSE
