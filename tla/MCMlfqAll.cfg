CONSTANTS
  NPROC = 2
  NCPU = 2
  MAX = 2
  DEFAULT_BUDGET = 1
  TICKS_TO_PROMOTE = 2
  UintMod = 4
  MaxTicks = 3
  MaxPid = 2
  TicksApart = TRUE
  Events <- MlfqPriorityEvents
SPECIFICATION Spec
INVARIANTS PromotionNotMissed
PROPERTIES PromotionIsForAll
