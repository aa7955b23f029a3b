SPECIFICATION Spec
CONSTANTS
  Windows = {}
  MaxSize = 2
  MaxPings = 2
  MaxLoad = 6
  Senders = {"s1", "s2"}
  Closers = {"c1"}
  Configs <- MCConfigs
INVARIANTS
  ThreadsInStep
PROPERTIES
  DeliversStream
  WaitsEnd
CHECK_DEADLOCK FALSE
