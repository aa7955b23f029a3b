SPECIFICATION SessionSpec
CONSTANTS
  Clients = {"i1"}
  Slots = {1, 2}
  Uris <- MCUris
  NoUri = NoUri
  NoClient = NoClient
  MAX_REDIRECTS = 3
  Setups <- MCSetups
  MaxFaults = 2
  MaxServers = 2
INVARIANTS
  ClosesCleanly
  KeepsOneAndSecure
PROPERTIES
  EndsAndReconnects
CHECK_DEADLOCK FALSE
