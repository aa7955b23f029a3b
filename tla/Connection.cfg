SPECIFICATION Spec
CONSTANTS
  Windows = {}
  MaxSize = 2
  MaxPings = 2
  MaxLoad = 6
  Senders = {"s1", "s2"}
  Closers = {"c1"}
  Configs <- MCConfigs
INVARIANTS
  TasksInStep
PROPERTIES
  StreamKept
  WaitsEnd
CHECK_DEADLOCK FALSE
