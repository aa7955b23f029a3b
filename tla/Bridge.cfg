SPECIFICATION MCSpec
CONSTANTS
  Conns = {c1, c2, c3}
  Upload = {c1,c2}
  Clients = {c1,c2,c3}
  Single = {c1}
  Servers <- MCServers
  MaxServers = 2
  Total = 2
  Kinds = {"ping", "handshake", "junk"}
  MaxMsgs = 3
INVARIANTS
  TablesTellClients
  UploadsWhole
  ServerEndsClean
PROPERTIES
  GoneInTheEnd
CHECK_DEADLOCK FALSE
