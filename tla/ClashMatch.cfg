CONSTANTS
  Lanes = {MID, BOT}
  MID = MID
  Player = Cybernex
  Enemy = gROT
  PRESSURE_MAX = 2
  TARGET_KILLS = 2
  KillPressure = 1
  MinionPressure = 1
  CampPressure = 1
  PrimePressure = 1
  CorePressure = 2
  BeaconPressure = 1
  HoldDecay = 1
  StructurePressure = {2}
  PresencePressure = {1}
  DAILY_CAP = 5
  WIN_WS = 3
  LOSS_WS = 1
  KILL_WS = 1
  OBJECTIVE_WS = 1
  CAMP_WS = 1
  PRIME_WS = 2
  NoFile = NoFile
  MaxDay = 2
  MaxLost = 1
SPECIFICATION ClashSpec
INVARIANTS
  ClashTypeOK
  DailyCap
  LedgersAgree
  MatchSettledOnce
PROPERTIES
  KeepsAllowance
CHECK_DEADLOCK FALSE
