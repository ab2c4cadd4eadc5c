CONSTANTS
  NPROC = 1
  NCPU = 2
  MAX = 1
  DEFAULT_BUDGET = 2
  TICKS_TO_PROMOTE = 1
  UintMod = 8
  MaxTicks = 4
  MaxPid = 2
  TicksApart = FALSE
  Events <- MlfqEvents
SPECIFICATION Spec
INVARIANTS PromotionNotMissed
