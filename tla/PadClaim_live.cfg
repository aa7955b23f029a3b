CONSTANTS
  CLAIM_NEED = 4
  SOFT_NEED = 2
  OCCUPY_RATE = 2
  GUARD_RATE = 1
  DECAY_RATE = 2
  PULSE_STR = 2
  SEED_STR = 2
  CONSOLE_STR = 3
  ADVANCE_STR = 1
  HackAmounts = {3}
  OPEN_MIN = 1
  DO_A_MIN = 2
  SPENT = 0
  OCCUPY_DELAY = 1
  PULSE_CD = 1
  RESPAWN = 2
  TRANSITION = 1
  INFLUENCE_MAX = 0
  INFLUENCE_DECAY = 15
  InfluenceAmounts = {}
  MAX_RESERVES = 1
  EXTRACT = 1
  REGEN = 1
  default_faction = "Cybernex"
  ST_F_OWNERSHIP = FALSE
  DO_A_OWNERSHIP = FALSE
SPECIFICATION PadSpec
PROPERTIES
  PadSettles
  KeepsHold
