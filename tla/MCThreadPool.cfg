CONSTANTS
  MaxItems = 2
  p1 = p1
  p2 = p2
  w1 = w1
  w2 = w2
  Producers = {p1, p2}
  Workers = {w1, w2}
  Pools <- MCPools
  Sinks = {s1, s2}
  Policies <- MCPolicies
  Calls <- MCCalls
  Main = main
  MaxPosts <- MCMaxPosts
  MaxFaults = 1
SPECIFICATION FairSpec
INVARIANTS
  RingHoldsTheLatest
  NothingIsLost
  OneWorkerKeepsOrder
  PoolEndsDrained
PROPERTIES
  CallsReturn
CHECK_DEADLOCK FALSE
