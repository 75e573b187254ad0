SPECIFICATION FairSpec
CONSTANTS
  Keys = {k1, k2}
  Values = {u}
  NoItem = NoItem
  Callers = {p1, p2}
  NoAnswer = NoAnswer
  TTL = 2
  MaxEntries = 1
  MaxLatency = 1
INVARIANTS TypeOK EntriesYoung
PROPERTIES ImplementsStaleStore CatchesUp
