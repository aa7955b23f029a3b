CONSTANTS
  Server = s
  Clients = {c1}
  HostAddr = h
  Ports = {a1, a2}
  NoSocket = NoSocket
  MAX_CLIENTS = 8
  STALE = 0
  MaxId = 4
  MaxHosts = 1
  MaxJoins = 2
  MaxScenes = 1
  MaxNet = 1
  PortReuse = FALSE
  Duplication = FALSE
  Clock = TRUE
SPECIFICATION LiveSpec
PROPERTIES
  SeenPuppetsExpire
  JoinCompletes
CHECK_DEADLOCK FALSE
