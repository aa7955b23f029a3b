SPECIFICATION FairSpec
CONSTANTS
  Configs <- MCConfigs
  MaxQueue = 1
  Receivers = {"r1"}
  Senders = {"s1", "s2"}
  Closers = {"c1"}
  MaxIn = 3
  MaxPings = 1
  MaxLoad = 4
INVARIANTS
  WireOrder
  NobodyLeftWaiting
PROPERTIES
  ToldOnce
  WaitsEnd
CHECK_DEADLOCK FALSE
