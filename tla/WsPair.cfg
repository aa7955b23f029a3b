SPECIFICATION FairSpec
CONSTANTS
  Windows = {9, 12}
  MaxSize = 2
  Configs <- MCConfigs
INVARIANTS
  EndpointsSound
  PairAgrees
PROPERTIES
  HandshakesEnd
CHECK_DEADLOCK FALSE
