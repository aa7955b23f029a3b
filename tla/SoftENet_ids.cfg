CONSTANTS
  Server = s
  Clients = {c1, c2}
  HostAddr = h
  Ports = {a1, a2, a3}
  NoSocket = NoSocket
  MAX_CLIENTS = 2
  STALE = 0
  MaxId = 4
  MaxHosts = 1
  MaxJoins = 3
  MaxScenes = 0
  MaxNet = 2
  PortReuse = FALSE
  Duplication = TRUE
  Clock = FALSE
SYMMETRY Symmetry
SPECIFICATION Spec
INVARIANTS
  TypeOK
  UniqueIds
  AddrTableAgree
  PlayersKnown
CHECK_DEADLOCK FALSE
