CONSTANTS
  NPROC = 3
  NCPU = 2
  MAX = 0
  DEFAULT_BUDGET = 2
  TICKS_TO_PROMOTE = 2
  UintMod = 8
  MaxTicks = 0
  MaxPid = 4
  TicksApart = FALSE
  Events <- KillEvents
SPECIFICATION Spec
PROPERTIES NewProcessNotKilled
