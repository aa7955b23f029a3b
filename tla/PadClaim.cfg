CONSTANTS
  CLAIM_NEED = 9
  SOFT_NEED = 3
  OCCUPY_RATE = 2
  GUARD_RATE = 1
  DECAY_RATE = 2
  PULSE_STR = 2
  SEED_STR = 3
  CONSOLE_STR = 4
  ADVANCE_STR = 1
  HackAmounts = {3, 5}
  OPEN_MIN = 1
  DO_A_MIN = 2
  SPENT = 0
  OCCUPY_DELAY = 1
  PULSE_CD = 1
  RESPAWN = 2
  TRANSITION = 2
  INFLUENCE_MAX = 30
  INFLUENCE_DECAY = 15
  InfluenceAmounts = {30}
  MAX_RESERVES = 1
  EXTRACT = 1
  REGEN = 1
  default_faction = "Cybernex"
  ST_F_OWNERSHIP = TRUE
  DO_A_OWNERSHIP = TRUE
SPECIFICATION PadSpec
INVARIANTS
  PadTypeOK
  ContestIsTracked
  ContestSound
PROPERTIES
  HarvestPaysHolder
