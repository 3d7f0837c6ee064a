SPECIFICATION LogFairSpec
CONSTANTS
  Writers = {w1, w2}
  Streams = {s1}
  w1 = w1
  w2 = w2
  agent = agent
  proxy = proxy
  Component <- Of
  Every = every
  Capacity = 3
  Buffered = 1
  MaxEntries = 4
INVARIANTS
  QueryIsOfTheLast
  StreamKeepsUp
PROPERTIES
  AppendReturns
CHECK_DEADLOCK FALSE
